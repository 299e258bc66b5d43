--------------------------- MODULE GuiClient_proof ---------------------------
(***************************************************************************)
(* The theorems about the GUI bridge and its client.  BridgeFacts says of  *)
(* the bridge's state what every one of its steps needs and leaves, as a   *)
(* predicate on a value so that the stages of one step can be followed;    *)
(* ClientFacts, CallFacts and LoginFacts relate it to the page, to its     *)
(* calls and to the coordinator.                                           *)
(***************************************************************************)
EXTENDS GuiClient, SequenceTheorems, FiniteSetTheorems, WellFoundedInduction, TLAPS

-----------------------------------------------------------------------------
(* Types. *)

Snapshots ==
    [active : Nat \ {0}, session : Nat, catalog : Nat, generation : Nat, recovery : Nat, shutting : BOOLEAN]
Ports == [active : Nat \ {0}, session : Nat, catalog : Nat, recovery : Nat]
Answers == {"Committed", "Rejected"}
Closing == {"ShutdownRequested", "ShutdownReady"}
Entries == [kind : Authentication \cup Answers \cup Closing, id : Nat, terminal : Nat, wait : BOOLEAN]
UiNotices == [kind : Authentication \cup Answers, id : Nat \ {0}]
CommandKinds == {"command", "prompt", "credential"}
Intents == [kind : CommandKinds \cup {"login", "cancel"}, id : Nat \ {0}, target : Nat]
OtherCalls == {"connect", "resync", "cancel", "close", "ack"}
Requests ==
    [kind : CommandKinds \cup {"login", "cancel", "connect", "resync", "shutdown"},
     call : Calls \cup OtherCalls, page : Nat \ {0}, target : Nat]
Replies == [call : Calls \cup OtherCalls, result : {"ok", "busy", "invalid", "fatal"}, id : Nat]
CallStates ==
    [kind : CommandKinds \cup {"login", "none"},
     status : {"idle", "sent", "waiting", "started", "committed", "rejected", "unknown", "lost"},
     id : Nat]
Outcomes == {"committed", "rejected"}
Settlements == [id : Nat, outcome : Outcomes]
CoordinatorAnswers == [id : Nat \ {0}, outcome : Outcomes, published : Ports]

IsBridge(b) ==
    b = [channel |-> b.channel, last |-> b.last, nextId |-> b.nextId, nextRev |-> b.nextRev,
         pending |-> b.pending, notices |-> b.notices, inFlight |-> b.inFlight, resync |-> b.resync,
         unseen |-> b.unseen, generation |-> b.generation, dirty |-> b.dirty, token |-> b.token,
         started |-> b.started, readyAcked |-> b.readyAcked, exited |-> b.exited, failed |-> b.failed,
         overflow |-> b.overflow, wire |-> b.wire]

BridgeTypeOK(b) ==
    /\ IsBridge(b)
    /\ b.channel \in Nat /\ b.nextId \in Nat \ {0} /\ b.nextRev \in Nat \ {0} /\ b.resync \in Nat
    /\ b.pending \subseteq 1 .. b.nextId - 1
    /\ b.notices \in Seq(Entries)
    /\ b.unseen \subseteq Watches /\ b.generation \in Nat
    /\ b.last \in Snapshots \cup {NoSnapshot}
    /\ b.dirty \in BOOLEAN /\ b.token \in BOOLEAN /\ b.started \in BOOLEAN /\ b.readyAcked \in BOOLEAN
    /\ b.exited \in BOOLEAN /\ b.failed \in BOOLEAN

-----------------------------------------------------------------------------
(* The bridge, as predicates on its state b; page, pub, ans and cmds stand  *)
(* for epoch, published, answers and CommandIds.                           *)

\* A frame in flight is the last one sent, and was made from what the bridge
\* now takes to be shown.
FrameOK(b) ==
    LET f == b.inFlight
    IN  /\ f.rev = b.nextRev - 1 /\ f.rev # 0
        /\ \/ f.kind = "snapshot" /\ f.snapshot = b.last /\ b.last \in Snapshots
           \/ /\ f.kind = "delta" /\ f.snapshot = b.last /\ b.last \in Snapshots
              /\ f.base \in Snapshots /\ DeltaBetween(f.base, b.last)
           \/ f.kind = "notice" /\ f.notice \in Entries

StreamOK(b, page) ==
    /\ b.inFlight = NoFrame \/ FrameOK(b)
    /\ b.wire = <<>> \/ (b.wire = <<b.inFlight>> /\ b.inFlight # NoFrame /\ b.channel = page)
    /\ b.channel <= page

InFlightNotice(b) == b.inFlight # NoFrame /\ b.inFlight.kind = "notice"

EntryOK(b, n) ==
    \/ n.kind \in Closing /\ n.id = 0 /\ n.terminal = 0
    \/ /\ n.kind \notin Closing /\ n.id \in b.pending
       /\ n.terminal = n.id \/ (n.terminal = 0 /\ n.kind \in Authentication)

\* At most one entry of each kind per request.
Class(n) == <<n.id, IF n.kind \in Authentication THEN "authentication" ELSE IF n.id # 0 THEN "answer" ELSE n.kind>>

QueueOK(b) ==
    /\ Cardinality(b.pending) <= MaxPending
    /\ ~b.overflow
    /\ \A i \in DOMAIN b.notices : EntryOK(b, b.notices[i])
    /\ \A i, j \in DOMAIN b.notices : Class(b.notices[i]) = Class(b.notices[j]) => i = j
    /\ \A i, j \in DOMAIN b.notices : b.notices[i].terminal # 0 /\ i < j => b.notices[j].id # b.notices[i].terminal
    /\ InFlightNotice(b) =>
          /\ EntryOK(b, b.inFlight.notice)
          /\ b.inFlight.notice.terminal # 0 =>
                \A i \in DOMAIN b.notices : b.notices[i].id # b.inFlight.notice.terminal
    /\ b.resync # 0 =>
          /\ b.resync \in b.pending
          /\ \A i \in DOMAIN b.notices : b.notices[i].id # b.resync
          /\ InFlightNotice(b) => b.inFlight.notice.id # b.resync

\* What was shown is not newer than what is published, and is the same unless
\* the bridge knows better or has not looked.
FreshOK(b, pub) ==
    /\ b.last \in Snapshots =>
          /\ b.last.active <= pub.active /\ b.last.session <= pub.session /\ b.last.catalog <= pub.catalog
          /\ b.last.shutting => b.token
    /\ ~b.dirty =>
          /\ b.last \in Snapshots /\ b.last.generation = b.generation
          /\ "session" \notin b.unseen => b.last.active = pub.active /\ b.last.session = pub.session
          /\ "catalog" \notin b.unseen => b.last.catalog = pub.catalog
          /\ b.started => b.last.shutting

ShutdownOK(b) ==
    /\ b.started => b.token /\ b.resync = 0
    /\ b.readyAcked => b.started
    /\ ~b.started =>
          /\ \A i \in DOMAIN b.notices : b.notices[i].kind \notin Closing
          /\ InFlightNotice(b) => b.inFlight.notice.kind \notin Closing
    /\ \A i \in DOMAIN b.notices : b.notices[i].kind = "ShutdownReady" =>
          /\ i = Len(b.notices)
          /\ ~b.notices[i].wait => b.last \in Snapshots /\ b.last.shutting
    /\ InFlightNotice(b) /\ b.inFlight.notice.kind = "ShutdownReady" =>
          b.notices = <<>> /\ b.last \in Snapshots /\ b.last.shutting
    /\ b.readyAcked =>
          b.notices = <<>> /\ b.last \in Snapshots /\ b.last.shutting /\ ~InFlightNotice(b)

Covers(snap, a) ==
    /\ a.published.active <= snap.active /\ a.published.session <= snap.session
    /\ a.published.catalog <= snap.catalog

\* The coordinator gave that answer, when no more than snap was published.
AnsweredBy(snap, ans, id, outcome) == \E a \in ans : a.id = id /\ a.outcome = outcome /\ Covers(snap, a)

CoverOK(b, pub, ans, cmds) ==
    /\ b.resync \notin cmds
    /\ \A i \in DOMAIN b.notices : b.notices[i].id \in cmds =>
          /\ b.notices[i].kind \in Answers
          /\ AnsweredBy(pub, ans, b.notices[i].id, Outcome(b.notices[i]))
          /\ ~b.notices[i].wait \/ ~b.dirty =>
                b.last \in Snapshots /\ AnsweredBy(b.last, ans, b.notices[i].id, Outcome(b.notices[i]))
    /\ InFlightNotice(b) /\ b.inFlight.notice.id \in cmds =>
          /\ b.inFlight.notice.kind \in Answers
          /\ b.last \in Snapshots /\ AnsweredBy(b.last, ans, b.inFlight.notice.id, Outcome(b.inFlight.notice))

BridgeFacts(b, page, pub, ans, cmds) ==
    /\ BridgeTypeOK(b) /\ StreamOK(b, page) /\ QueueOK(b) /\ FreshOK(b, pub) /\ ShutdownOK(b)
    /\ CoverOK(b, pub, ans, cmds)

-----------------------------------------------------------------------------
(* The page and its calls. *)

IsClient ==
    /\ client = [life |-> client.life, snap |-> client.snap, rev |-> client.rev, resync |-> client.resync]
    /\ client.resync =
          [on |-> client.resync.on, replied |-> client.resync.replied, frame |-> client.resync.frame]

TypeOK ==
    /\ published \in Ports
    /\ intents \in Seq(Intents) /\ uiNotices \in Seq(UiNotices) /\ requests \in Seq(Requests)
    /\ replies \subseteq Replies /\ epoch \in Nat \ {0}
    /\ IsClient /\ client.rev \in Nat
    /\ client.life \in {"booting", "ready", "resyncing", "failed", "closed"}
    /\ client.resync.on \in BOOLEAN /\ client.resync.replied \in BOOLEAN
    /\ calls \in [Calls -> CallStates] /\ settlements \in Seq(Settlements)
    /\ login \in [id : Nat, opened : BOOLEAN, ids : SUBSET Nat]
    /\ answers \subseteq CoordinatorAnswers

\* The revision of the last frame that is no longer on the wire.
Delivered(b) == IF b.wire = <<>> THEN b.nextRev - 1 ELSE b.nextRev - 2

Agree(mine, theirs) ==
    /\ mine.active = theirs.active /\ mine.session = theirs.session /\ mine.catalog = theirs.catalog
    /\ mine.generation = theirs.generation /\ mine.shutting = theirs.shutting

\* What the client shows is what the frame on the wire starts from.
Mirror(b, page, c) ==
    /\ c.rev < b.nextRev
    /\ c.rev # 0 => c.snap \in Snapshots
    /\ b.channel = page /\ c.rev # 0 =>
          /\ c.rev <= Delivered(b)
          /\ c.rev = Delivered(b) =>
                /\ b.wire = <<>> \/ b.inFlight.kind = "notice" => Agree(c.snap, b.last)
                /\ b.wire # <<>> /\ b.inFlight.kind = "delta" => Agree(c.snap, b.inFlight.base)
    /\ c.life = "ready" => c.rev # 0
    /\ b.channel = page /\ c.life = "ready" => c.rev = Delivered(b)

AcksOK(b, page, queue) ==
    /\ queue = <<>> \/ /\ Len(queue) = 1 /\ queue = <<[rev |-> b.inFlight.rev, page |-> queue[1].page]>>
                       /\ b.inFlight # NoFrame /\ b.wire = <<>>
    /\ b.channel = page /\ b.inFlight # NoFrame => b.wire # <<>> \/ queue # <<>>

ResyncOK(c) ==
    /\ ~c.resync.on => c.resync = NoResync
    /\ c.life \in {"failed", "closed"} => ~c.resync.on
    /\ c.resync.frame # NoFrame =>
          /\ c.life = "ready" /\ c.resync.frame.rev <= c.rev /\ c.resync.frame.rev \in Nat
          /\ c.rev = c.resync.frame.rev => c.snap = c.resync.frame.snapshot

ConnectOK ==
    \A i \in DOMAIN requests :
        /\ requests[i].page <= epoch
        /\ requests[i].kind = "connect" /\ requests[i].page = epoch =>
              /\ client.rev = 0 /\ bridge.channel # epoch
              /\ \A j \in DOMAIN requests : requests[j].kind = "connect" /\ requests[j].page = epoch => i = j

\* A failed call has been answered, and a graceful exit was the last step.
ExitOK == ~bridge.failed /\ (bridge.readyAcked => bridge.exited)

ClientFacts == ExitOK /\ Mirror(bridge, epoch, client) /\ AcksOK(bridge, epoch, acks) /\ ResyncOK(client) /\ ConnectOK

\* The requests whose outcome a call still has to learn.
CommandIds ==
    {r.id : r \in {r \in replies : r.call \in Calls /\ r.result = "ok" /\ calls[r.call].kind # "login"}}
        \cup {calls[c].id : c \in {c \in Calls : calls[c].status = "waiting"}}

FromCall(r) == r.call \in Calls /\ r.page = epoch

\* Each call has at most one request or reply under way.
CallsOK ==
    /\ \A i \in DOMAIN requests : FromCall(requests[i]) =>
          /\ calls[requests[i].call].status = "sent" /\ calls[requests[i].call].id = 0
          /\ calls[requests[i].call].kind = requests[i].kind
          /\ \A j \in DOMAIN requests : FromCall(requests[j]) /\ requests[j].call = requests[i].call => i = j
          /\ \A r \in replies : r.call # requests[i].call
    /\ \A i \in DOMAIN requests :
          requests[i].call \in Calls <=> requests[i].kind \in CommandKinds \cup {"login"}
    /\ \A r \in replies : r.call \in Calls =>
          /\ calls[r.call].status = "sent" /\ calls[r.call].id = 0 /\ calls[r.call].kind # "none"
          /\ r.result = "ok" => r.id \in 1 .. bridge.nextId - 1
          /\ \A s \in replies : s.call = r.call => s = r
    /\ \A c \in Calls :
          /\ calls[c].id < bridge.nextId
          /\ calls[c].status = "waiting" => calls[c].kind # "login" /\ calls[c].id # 0

\* What a call was told, or will be told with its receipt, the coordinator
\* answered, and a ready client shows it.
Reported(id, outcome) ==
    /\ bridge.last \in Snapshots
    /\ \E a \in answers :
          /\ a.id = id /\ a.outcome = outcome /\ Covers(bridge.last, a)
          /\ client.life = "ready" => Covers(client.snap, a)

ReportsOK ==
    /\ \A c \in Calls : calls[c].status \in Outcomes /\ calls[c].id # 0 => Reported(calls[c].id, calls[c].status)
    /\ \A i \in DOMAIN settlements : settlements[i].id \in CommandIds =>
          Reported(settlements[i].id, settlements[i].outcome)
    /\ \A i \in DOMAIN settlements : settlements[i].id < bridge.nextId

CallFacts == CallsOK /\ ReportsOK

-----------------------------------------------------------------------------
(* The coordinator. *)

Unanswered(b, queue, id) ==
    /\ ~TerminalNoticeOutstanding(b, id)
    /\ \A k \in DOMAIN queue : Terminal(queue[k]) # id

\* Nothing refers to a request that is still to be issued, or to the one of a
\* resynchronization but its own entries.
Apart(b, id) == id # b.resync /\ id < b.nextId

IdsOK ==
    /\ \A i \in DOMAIN intents : Apart(bridge, intents[i].id)
    /\ \A i \in DOMAIN uiNotices : Apart(bridge, uiNotices[i].id)
    /\ \A i \in DOMAIN requests : requests[i].kind = "cancel" /\ requests[i].target # 0 => Apart(bridge, requests[i].target)
    /\ \A c \in Calls : calls[c].id # 0 => Apart(bridge, calls[c].id)
    /\ \A r \in replies : r.call \in Calls /\ r.id # 0 => Apart(bridge, r.id)
    /\ login.id # 0 => Apart(bridge, login.id)

NoticesOK ==
    \A k \in DOMAIN uiNotices :
        /\ uiNotices[k].kind \in Authentication => uiNotices[k].id \in login.ids
        /\ uiNotices[k].kind = "BrowserOpened" =>
              /\ ~TerminalNoticeOutstanding(bridge, uiNotices[k].id)
              /\ \A j \in 1 .. k - 1 : Terminal(uiNotices[j]) # uiNotices[k].id
        /\ uiNotices[k].id \in CommandIds =>
              /\ uiNotices[k].kind \in Answers
              /\ AnsweredBy(published, answers, uiNotices[k].id, Outcome(uiNotices[k]))

IntentsOK ==
    /\ \A i \in DOMAIN intents : intents[i].kind # "cancel" => intents[i].id # login.id
    /\ \A i, j \in DOMAIN intents :
          intents[i].kind # "cancel" /\ intents[j].kind # "cancel" /\ intents[i].id = intents[j].id => i = j
    /\ \A i \in DOMAIN intents : intents[i].kind = "login" =>
          /\ Unanswered(bridge, uiNotices, intents[i].id) /\ intents[i].id \notin CommandIds
          /\ \A j \in 1 .. i - 1 : intents[j].id # intents[i].id
    /\ login.id # 0 => Unanswered(bridge, uiNotices, login.id) /\ login.id \notin CommandIds /\ login.id \in login.ids

LoginFacts == IdsOK /\ NoticesOK /\ IntentsOK /\ SlotsAwaitAnswers

IInv ==
    /\ TypeOK /\ BridgeFacts(bridge, epoch, published, answers, CommandIds)
    /\ ClientFacts /\ CallFacts /\ LoginFacts

-----------------------------------------------------------------------------
(* Stages of a bridge step. *)

\* What pumping and queueing never touch.
Kept(b, c) ==
    /\ IsBridge(c) /\ c.failed \in BOOLEAN
    /\ c.nextId = b.nextId /\ c.pending = b.pending /\ c.token = b.token /\ c.started = b.started
    /\ c.readyAcked = b.readyAcked /\ c.exited = b.exited /\ c.overflow = b.overflow

SameStream(b, c) ==
    /\ c.channel = b.channel /\ c.last = b.last /\ c.nextRev = b.nextRev /\ c.inFlight = b.inFlight
    /\ c.wire = b.wire

SameQueue(b, c) == c.notices = b.notices /\ c.resync = b.resync

SameView(b, c) == c.unseen = b.unseen /\ c.generation = b.generation /\ c.dirty = b.dirty

Stays(b, c) == Kept(b, c) /\ SameStream(b, c) /\ SameQueue(b, c) /\ SameView(b, c)

\* The carrier refused a frame.
Refuses(b, c) ==
    /\ Kept(b, c) /\ SameQueue(b, c) /\ SameView(b, c)
    /\ b.channel # 0 /\ b.inFlight = NoFrame
    /\ c.channel = 0 /\ c.nextRev = b.nextRev + 1 /\ c.inFlight = b.inFlight /\ c.wire = b.wire
    /\ c.last = b.last

\* A frame f was sent.
Transmits(b, c, f, page) ==
    /\ b.channel # 0 /\ b.inFlight = NoFrame
    /\ c.channel = b.channel /\ c.nextRev = b.nextRev + 1 /\ c.inFlight = f /\ f.rev = b.nextRev
    /\ c.wire = IF b.channel = page THEN Append(b.wire, f) ELSE b.wire

IsProjection(b, f, snap) ==
    \/ f.kind = "snapshot" /\ f.snapshot = snap
    \/ f.kind = "delta" /\ f.snapshot = snap /\ f.base = b.last /\ DeltaBetween(b.last, snap)

Shows(b, c, f, page, snap) ==
    /\ Kept(b, c) /\ Transmits(b, c, f, page) /\ IsProjection(b, f, snap)
    /\ c.last = snap /\ c.dirty = FALSE /\ c.unseen = b.unseen /\ c.generation = b.generation
    /\ c.notices = b.notices /\ c.resync \in {b.resync, 0}

Announces(b, c, f, page) ==
    /\ Kept(b, c) /\ Transmits(b, c, f, page) /\ SameView(b, c)
    /\ f.kind = "notice" /\ b.notices # <<>> /\ f.notice = Head(b.notices)
    /\ c.last = b.last /\ c.notices = Tail(b.notices) /\ c.resync = b.resync

\* The client already has the projection.
Clears(b, c, snap) ==
    /\ Kept(b, c) /\ SameStream(b, c) /\ SameQueue(b, c)
    /\ c.unseen = b.unseen /\ c.generation = b.generation /\ c.dirty = FALSE /\ b.last = snap

Looks(b, c) ==
    /\ Kept(b, c) /\ SameStream(b, c) /\ SameQueue(b, c)
    /\ c.unseen \subseteq b.unseen /\ c.dirty = TRUE /\ c.generation \in Nat

ReadiesFront(b, c) ==
    /\ Kept(b, c) /\ SameStream(b, c) /\ SameView(b, c)
    /\ b.notices # <<>> /\ c.notices = [b.notices EXCEPT ![1].wait = FALSE] /\ c.resync = b.resync

Appends(b, c, n) ==
    /\ Kept(b, c) /\ SameStream(b, c) /\ SameView(b, c)
    /\ c.notices = Append(b.notices, Queued(b, n)) /\ c.resync = b.resync

Replaces(b, c, n, i) ==
    /\ Kept(b, c) /\ SameStream(b, c) /\ SameView(b, c)
    /\ i \in DOMAIN b.notices /\ c.resync = b.resync
    /\ c.notices = [b.notices EXCEPT ![i].kind = n.kind]


Environment == published \in Ports /\ epoch \in Nat \ {0}

\* last_snapshot never goes back.
Grows(old, new) ==
    \/ new = old
    \/ /\ new \in Snapshots
       /\ old \in Snapshots =>
             old.active <= new.active /\ old.session <= new.session /\ old.catalog <= new.catalog

\* At most one frame is sent, and it starts from what was shown.
Sends(b, c) ==
    \/ SameStream(b, c)
    \/ /\ b.channel # 0 /\ b.inFlight = NoFrame /\ c.channel = 0 /\ c.nextRev = b.nextRev + 1
       /\ c.inFlight = NoFrame /\ c.wire = b.wire /\ c.last = b.last
    \/ /\ Transmits(b, c, c.inFlight, epoch) /\ Grows(b.last, c.last)
       /\ c.inFlight.kind = "notice" => c.last = b.last
       /\ c.inFlight.kind = "delta" => c.inFlight.base = b.last

Leads(b, c) ==
    /\ Kept(b, c) /\ Sends(b, c) /\ c.resync \in {b.resync, 0}
    /\ \A id \in Nat \ {0} : TerminalNoticeOutstanding(c, id) =>
          TerminalNoticeOutstanding(b, id) \/ id = b.resync

\* No answer under way is dropped.
Retains(b, c) ==
    \A id \in Nat \ {0} : b.resync = id \/ TerminalNoticeOutstanding(b, id) =>
        c.resync = id \/ TerminalNoticeOutstanding(c, id)

LEMMA SendFields ==
    ASSUME NEW b, BridgeTypeOK(b), NEW f, NEW ok \in BOOLEAN,
           b.channel # 0, b.inFlight = NoFrame
    PROVE  LET c == Send(b, f, ok) IN
           /\ IsBridge(c) /\ c.failed = ~ok
           /\ ok => /\ SameQueue(b, c) /\ SameView(b, c) /\ Kept(b, c) /\ c.last = b.last
                    /\ c.channel = b.channel /\ c.nextRev = b.nextRev + 1
                    /\ c.inFlight = [f EXCEPT !.rev = b.nextRev]
                    /\ c.wire = IF b.channel = epoch THEN Append(b.wire, c.inFlight) ELSE b.wire
           /\ ~ok => Refuses(b, c)
<1> DEFINE num == [f EXCEPT !.rev = b.nextRev]
           w == IF b.channel = epoch THEN Append(b.wire, num) ELSE b.wire
<1>0. b.failed \in BOOLEAN /\ b.nextRev \in Nat /\ IsBridge(b)
  BY DEF BridgeTypeOK
<1> HIDE DEF num, w
<1>1. CASE ok
  <2>1. Send(b, f, ok) = [b EXCEPT !.nextRev = @ + 1, !.inFlight = num, !.failed = FALSE, !.wire = w]
    BY <1>1 DEF Send, num, w
  <2> QED
    BY <1>0, <1>1, <2>1, ZenonT(60) DEF IsBridge, Kept, SameQueue, SameView, num, w
<1>2. CASE ~ok
  <2>1. Send(b, f, ok) = [b EXCEPT !.nextRev = @ + 1, !.channel = 0, !.failed = TRUE]
    BY <1>2 DEF Send
  <2> QED
    BY <1>0, <1>2, <2>1 DEF IsBridge, Kept, SameQueue, SameView, Refuses
<1> QED
  BY <1>1, <1>2

LEMMA LeadsTransitive ==
    ASSUME NEW b, NEW c, NEW d, BridgeTypeOK(b), BridgeTypeOK(c), Leads(b, c), Leads(c, d)
    PROVE  Leads(b, d)
<1>1. Kept(b, d) /\ d.resync \in {b.resync, 0}
  BY DEF Leads, Kept
<1>2. ASSUME NEW id \in Nat \ {0}, TerminalNoticeOutstanding(d, id)
      PROVE  TerminalNoticeOutstanding(b, id) \/ id = b.resync
  BY <1>2 DEF Leads
<1>3. Sends(b, d)
  <2>1. CASE SameStream(b, c)
    BY <2>1 DEF Leads, Sends, SameStream, Transmits
  <2>2. CASE ~SameStream(b, c)
    <3>1. c.channel = 0 \/ c.inFlight # NoFrame
      BY <2>2 DEF Leads, Sends, Transmits, NoFrame, BridgeTypeOK
    <3>2. SameStream(c, d)
      BY <3>1 DEF Leads, Sends, Transmits
    <3> QED
      BY <2>2, <3>2 DEF Leads, Sends, SameStream, Transmits
  <2> QED
    BY <2>1, <2>2
<1> QED
  BY <1>1, <1>2, <1>3 DEF Leads

LEMMA StaysKeeps ==
    ASSUME NEW b, NEW c, NEW ans, NEW cmds, Environment,
           BridgeFacts(b, epoch, published, ans, cmds), Stays(b, c)
    PROVE  BridgeFacts(c, epoch, published, ans, cmds) /\ Leads(b, c) /\ Retains(b, c)
<1> USE DEF Stays, Kept, SameStream, SameQueue, SameView, BridgeFacts
<1>1. BridgeTypeOK(c)
  BY DEF BridgeTypeOK
<1>2. StreamOK(c, epoch)
  BY DEF StreamOK, FrameOK
<1>3. QueueOK(c)
  BY DEF QueueOK, InFlightNotice, EntryOK
<1>4. FreshOK(c, published)
  BY DEF FreshOK
<1>5. ShutdownOK(c)
  BY DEF ShutdownOK, InFlightNotice
<1>6. CoverOK(c, published, ans, cmds)
  BY DEF CoverOK, InFlightNotice
<1>7. Leads(b, c) /\ Retains(b, c)
  BY DEF Leads, Retains, Sends, TerminalNoticeOutstanding
<1> QED
  BY <1>1, <1>2, <1>3, <1>4, <1>5, <1>6, <1>7

LEMMA RefusesKeeps ==
    ASSUME NEW b, NEW c, NEW ans, NEW cmds, Environment,
           BridgeFacts(b, epoch, published, ans, cmds), Refuses(b, c)
    PROVE  BridgeFacts(c, epoch, published, ans, cmds) /\ Leads(b, c) /\ Retains(b, c)
<1> USE DEF Refuses, Kept, SameQueue, SameView, BridgeFacts
<1>1. BridgeTypeOK(c)
  BY DEF BridgeTypeOK
<1>2. StreamOK(c, epoch)
  BY DEF StreamOK, Environment
<1>3. QueueOK(c)
  BY DEF QueueOK, InFlightNotice, EntryOK
<1>4. FreshOK(c, published)
  BY DEF FreshOK
<1>5. ShutdownOK(c)
  BY DEF ShutdownOK, InFlightNotice
<1>6. CoverOK(c, published, ans, cmds)
  BY DEF CoverOK, InFlightNotice
<1>7. Leads(b, c) /\ Retains(b, c)
  BY DEF Leads, Retains, Sends, TerminalNoticeOutstanding
<1> QED
  BY <1>1, <1>2, <1>3, <1>4, <1>5, <1>6, <1>7

LEMMA LooksKeeps ==
    ASSUME NEW b, NEW c, NEW ans, NEW cmds, Environment,
           BridgeFacts(b, epoch, published, ans, cmds), Looks(b, c)
    PROVE  BridgeFacts(c, epoch, published, ans, cmds) /\ Leads(b, c) /\ Retains(b, c)
<1> USE DEF Looks, Kept, SameStream, SameQueue, BridgeFacts
<1>1. BridgeTypeOK(c)
  BY DEF BridgeTypeOK
<1>2. StreamOK(c, epoch)
  BY DEF StreamOK, FrameOK
<1>3. QueueOK(c)
  BY DEF QueueOK, InFlightNotice, EntryOK
<1>4. FreshOK(c, published)
  BY DEF FreshOK
<1>5. ShutdownOK(c)
  BY DEF ShutdownOK, InFlightNotice
<1>6. CoverOK(c, published, ans, cmds)
  BY DEF CoverOK, InFlightNotice
<1>7. Leads(b, c) /\ Retains(b, c)
  BY DEF Leads, Retains, Sends, TerminalNoticeOutstanding
<1> QED
  BY <1>1, <1>2, <1>3, <1>4, <1>5, <1>6, <1>7

LEMMA SnapshotFacts ==
    ASSUME NEW b, Environment, BridgeTypeOK(b)
    PROVE  /\ Snapshot(b) \in Snapshots
           /\ Snapshot(b).active = published.active /\ Snapshot(b).session = published.session
           /\ Snapshot(b).catalog = published.catalog /\ Snapshot(b).generation = b.generation
           /\ Snapshot(b).shutting = b.token
BY DEF Snapshot, Snapshots, Environment, Ports, BridgeTypeOK

LEMMA AnsweredLater ==
    ASSUME NEW snap, NEW snap2, NEW ans, NEW id, NEW outcome, ans \subseteq CoordinatorAnswers,
           snap.active \in Nat, snap.session \in Nat, snap.catalog \in Nat,
           snap2.active \in Nat, snap2.session \in Nat, snap2.catalog \in Nat,
           snap.active <= snap2.active, snap.session <= snap2.session, snap.catalog <= snap2.catalog,
           AnsweredBy(snap, ans, id, outcome)
    PROVE  AnsweredBy(snap2, ans, id, outcome)
<1>1. PICK a \in ans : a.id = id /\ a.outcome = outcome /\ Covers(snap, a)
  BY DEF AnsweredBy
<1>2. a.published \in Ports
  BY DEF CoordinatorAnswers
<1>3. Covers(snap2, a)
  BY <1>1, <1>2 DEF Covers, Ports
<1> QED
  BY <1>1, <1>3 DEF AnsweredBy

LEMMA ShowsKeeps ==
    ASSUME NEW b, NEW c, NEW f, NEW ans, NEW cmds, Environment,
           BridgeFacts(b, epoch, published, ans, cmds), Shows(b, c, f, epoch, Snapshot(b)),
           0 \notin cmds
    PROVE  /\ BridgeFacts(c, epoch, published, ans, cmds) /\ Leads(b, c)
           /\ c.resync = b.resync => Retains(b, c)
           /\ \A id : TerminalNoticeOutstanding(b, id) => TerminalNoticeOutstanding(c, id)
<1> DEFINE snap == Snapshot(b)
<1>0. /\ snap \in Snapshots /\ snap.active = published.active /\ snap.session = published.session
      /\ snap.catalog = published.catalog /\ snap.generation = b.generation /\ snap.shutting = b.token
  BY SnapshotFacts DEF BridgeFacts
<1> HIDE DEF snap
<1>s. Shows(b, c, f, epoch, snap)
  BY DEF snap
<1>k. /\ Kept(b, c) /\ Transmits(b, c, f, epoch) /\ IsProjection(b, f, snap)
      /\ c.last = snap /\ c.dirty = FALSE /\ c.unseen = b.unseen /\ c.generation = b.generation
      /\ c.notices = b.notices /\ c.resync \in {b.resync, 0}
  BY <1>s DEF Shows
<1>w. b.wire = <<>>
  BY <1>k DEF BridgeFacts, StreamOK, Transmits
<1>f. f # NoFrame /\ f.kind # "notice"
  BY <1>k DEF Transmits, BridgeFacts, BridgeTypeOK, NoFrame, IsProjection
<1>1. BridgeTypeOK(c)
  <2>1. c.channel = b.channel /\ c.nextRev = b.nextRev + 1
    BY <1>k DEF Transmits
  <2>4. b.resync \in Nat
    BY DEF BridgeFacts, BridgeTypeOK
  <2>2. c.resync \in Nat /\ c.dirty \in BOOLEAN /\ c.last \in Snapshots \cup {NoSnapshot}
    <3>1. c.dirty \in BOOLEAN
      BY <1>k
    <3>2. c.last \in Snapshots
      BY <1>0, <1>k
    <3>3. c.resync \in {b.resync, 0}
      BY <1>k
    <3>4. c.resync \in Nat
      BY <2>4, <3>3
    <3> QED
      BY <3>1, <3>2, <3>4
  <2>3. c.notices = b.notices /\ c.unseen = b.unseen /\ c.generation = b.generation /\ Kept(b, c)
    BY <1>k
  <2> QED
    BY <2>1, <2>2, <2>3 DEF BridgeFacts, BridgeTypeOK, Kept
<1>2. StreamOK(c, epoch)
  <2>1. b.channel # 0 /\ (DeltaBetween(b.last, snap) => b.last \in Snapshots)
    BY <1>k DEF Transmits, BridgeFacts, BridgeTypeOK, DeltaBetween
  <2>2. FrameOK(c)
    BY <1>0, <1>k, <1>f, <2>1 DEF Transmits, FrameOK, IsProjection, BridgeFacts, BridgeTypeOK
  <2>3. c.wire = <<>> \/ (c.wire = <<c.inFlight>> /\ c.inFlight # NoFrame /\ c.channel = epoch)
    BY <1>k, <1>w, <1>f DEF Transmits
  <2> QED
    BY <1>0, <1>k, <2>2, <2>3 DEF Transmits, StreamOK, BridgeFacts
<1>i. ~InFlightNotice(b) /\ ~InFlightNotice(c)
  BY <1>k, <1>f DEF Transmits, InFlightNotice
<1>3. QueueOK(c)
  BY <1>k, <1>i DEF QueueOK, EntryOK, Kept, BridgeFacts
<1>4. FreshOK(c, published)
  BY <1>0, <1>k DEF FreshOK, Kept, BridgeFacts, ShutdownOK, Environment, Ports
<1>5. ShutdownOK(c)
  <2>1. b.token \in BOOLEAN /\ (b.started => snap.shutting)
    BY <1>0 DEF ShutdownOK, BridgeFacts, BridgeTypeOK
  <2>2. c.last \in Snapshots /\ (c.started => c.last.shutting) /\ c.notices = b.notices /\ Kept(b, c)
    BY <1>0, <1>k, <2>1 DEF Kept
  <2>3. c.started => c.resync = 0
    BY <1>k DEF ShutdownOK, Kept, BridgeFacts
  <2> QED
    BY <1>i, <2>2, <2>3 DEF ShutdownOK, Kept, BridgeFacts, Closing
<1>6. CoverOK(c, published, ans, cmds)
  <2>1. ASSUME NEW id, NEW outcome, AnsweredBy(published, ans, id, outcome)
        PROVE  AnsweredBy(snap, ans, id, outcome)
    BY <1>0, <2>1 DEF AnsweredBy, Covers
  <2> QED
    BY <1>0, <1>k, <1>i, <2>1 DEF CoverOK, Kept, BridgeFacts
<1>7. Leads(b, c)
  <2>1. Grows(b.last, c.last)
    BY <1>0, <1>k DEF Grows, BridgeFacts, FreshOK
  <2>2. Sends(b, c)
    BY <1>k, <1>f, <2>1 DEF Sends, Transmits, IsProjection
  <2> QED
    BY <1>k, <1>f, <2>2 DEF Leads, Transmits, TerminalNoticeOutstanding
<1>8. \A id : TerminalNoticeOutstanding(b, id) => TerminalNoticeOutstanding(c, id)
  BY <1>k DEF Transmits, TerminalNoticeOutstanding
<1>9. ASSUME c.resync = b.resync PROVE Retains(b, c)
  BY <1>8, <1>9 DEF Retains
<1> QED
  BY <1>1, <1>2, <1>3, <1>4, <1>5, <1>6, <1>7, <1>8, <1>9 DEF BridgeFacts

LEMMA ClearsKeeps ==
    ASSUME NEW b, NEW c, NEW ans, NEW cmds, Environment,
           BridgeFacts(b, epoch, published, ans, cmds), Clears(b, c, Snapshot(b))
    PROVE  BridgeFacts(c, epoch, published, ans, cmds) /\ Leads(b, c) /\ Retains(b, c)
<1> DEFINE snap == Snapshot(b)
<1>0. /\ snap \in Snapshots /\ snap.active = published.active /\ snap.session = published.session
      /\ snap.catalog = published.catalog /\ snap.generation = b.generation /\ snap.shutting = b.token
  BY SnapshotFacts DEF BridgeFacts
<1> HIDE DEF snap
<1>s. Clears(b, c, snap)
  BY DEF snap
<1> USE <1>s DEF Clears, Kept, SameStream, SameQueue, BridgeFacts
<1>1. BridgeTypeOK(c)
  BY DEF BridgeTypeOK
<1>2. StreamOK(c, epoch)
  BY DEF StreamOK, FrameOK
<1>3. QueueOK(c)
  BY DEF QueueOK, InFlightNotice, EntryOK
<1>4. FreshOK(c, published)
  BY <1>0 DEF FreshOK, ShutdownOK
<1>5. ShutdownOK(c)
  BY DEF ShutdownOK, InFlightNotice
<1>6. CoverOK(c, published, ans, cmds)
  <2>1. ASSUME NEW id, NEW outcome, AnsweredBy(published, ans, id, outcome)
        PROVE  AnsweredBy(snap, ans, id, outcome)
    BY <1>0, <2>1 DEF AnsweredBy, Covers
  <2> QED
    BY <1>0, <2>1 DEF CoverOK, InFlightNotice
<1>7. Leads(b, c) /\ Retains(b, c)
  BY DEF Leads, Retains, Sends, TerminalNoticeOutstanding
<1> QED
  BY <1>1, <1>2, <1>3, <1>4, <1>5, <1>6, <1>7

LEMMA ReadiesFrontKeeps ==
    ASSUME NEW b, NEW c, NEW ans, NEW cmds, Environment,
           BridgeFacts(b, epoch, published, ans, cmds), ReadiesFront(b, c), ~b.dirty
    PROVE  BridgeFacts(c, epoch, published, ans, cmds) /\ Leads(b, c) /\ Retains(b, c)
<1> DEFINE s == b.notices
           t == c.notices
<1>0. /\ s \in Seq(Entries) /\ s # <<>> /\ Len(s) \in Nat /\ Len(s) >= 1 /\ DOMAIN s = 1 .. Len(s)
  BY DEF BridgeFacts, BridgeTypeOK, ReadiesFront
<1>1. /\ t \in Seq(Entries) /\ Len(t) = Len(s) /\ DOMAIN t = DOMAIN s
      /\ \A i \in DOMAIN s : t[i].kind = s[i].kind /\ t[i].id = s[i].id /\ t[i].terminal = s[i].terminal
      /\ \A i \in DOMAIN s : i # 1 => t[i] = s[i]
  <2>0. s[1] \in Entries
    BY <1>0 DEF s
  <2>1. s[1] \in Entries /\ [s[1] EXCEPT !.wait = FALSE] \in Entries
    BY <2>0 DEF Entries
  <2>2. t = [s EXCEPT ![1] = [s[1] EXCEPT !.wait = FALSE]]
    BY DEF ReadiesFront
  <2>3. /\ [s[1] EXCEPT !.wait = FALSE].kind = s[1].kind /\ [s[1] EXCEPT !.wait = FALSE].id = s[1].id
        /\ [s[1] EXCEPT !.wait = FALSE].terminal = s[1].terminal
    BY <2>1 DEF Entries
  <2> QED
    BY <1>0, <2>1, <2>2, <2>3
<1>2. /\ Kept(b, c) /\ SameStream(b, c) /\ SameView(b, c) /\ c.resync = b.resync
  BY DEF ReadiesFront
<1> HIDE DEF s, t
<1> USE <1>2 DEF Kept, SameStream, SameView, BridgeFacts
<1>3. BridgeTypeOK(c)
  BY <1>1 DEF BridgeTypeOK, t
<1>4. StreamOK(c, epoch)
  BY DEF StreamOK, FrameOK
<1>5. QueueOK(c)
  <2>1. \A i \in DOMAIN s : EntryOK(b, s[i]) => EntryOK(c, t[i])
    BY <1>1 DEF EntryOK
  <2>2. \A i \in DOMAIN s : Class(t[i]) = Class(s[i])
    BY <1>1 DEF Class
  <2>3. InFlightNotice(c) = InFlightNotice(b) /\ \A n : EntryOK(b, n) => EntryOK(c, n)
    BY DEF InFlightNotice, EntryOK
  <2> QED
    BY <1>1, <2>1, <2>2, <2>3 DEF QueueOK, s, t
<1>6. FreshOK(c, published)
  BY DEF FreshOK
<1>7. ShutdownOK(c)
  <2>1. ASSUME NEW i \in DOMAIN s, s[i].kind = "ShutdownReady" PROVE b.last \in Snapshots /\ b.last.shutting
    BY <2>1 DEF ShutdownOK, FreshOK, Closing, s, BridgeTypeOK
  <2>2. InFlightNotice(c) = InFlightNotice(b)
    BY DEF InFlightNotice
  <2> QED
    BY <1>0, <1>1, <2>1, <2>2 DEF ShutdownOK, s, t
<1>8. CoverOK(c, published, ans, cmds)
  <2>1. \A i \in DOMAIN s : Outcome(t[i]) = Outcome(s[i])
    BY <1>1 DEF Outcome
  <2>2. InFlightNotice(c) = InFlightNotice(b)
    BY DEF InFlightNotice
  <2> QED
    BY <1>1, <2>1, <2>2 DEF CoverOK, s, t
<1>9. Leads(b, c) /\ Retains(b, c)
  BY <1>1 DEF Leads, Retains, Sends, TerminalNoticeOutstanding, s, t
<1> QED
  BY <1>3, <1>4, <1>5, <1>6, <1>7, <1>8, <1>9

LEMMA IntervalFinite ==
    ASSUME NEW n \in Nat
    PROVE  IsFiniteSet(1 .. n) /\ Cardinality(1 .. n) = n
<1>1. 1 \in Int /\ n \in Int
  OBVIOUS
<1>2. IsFiniteSet(1 .. n) /\ Cardinality(1 .. n) = IF 1 > n THEN 0 ELSE n - 1 + 1
  BY <1>1, FS_Interval, Zenon
<1> QED
  BY <1>2

LEMMA PairFinite ==
    ASSUME NEW x, NEW y, x # y
    PROVE  IsFiniteSet({x, y}) /\ Cardinality({x, y}) = 2
<1>1. IsFiniteSet({x}) /\ Cardinality({x}) = 1
  BY FS_Singleton, Zenon
<1>2. y \notin {x}
  OBVIOUS
<1>3. IsFiniteSet({x} \cup {y}) /\ Cardinality({x} \cup {y}) = 1 + 1
  BY <1>1, <1>2, FS_AddElement, Zenon
<1>4. {x, y} = {x} \cup {y}
  OBVIOUS
<1> QED
  BY <1>3, <1>4

\* One entry of each class: the queue has room for MaxNotices.
LEMMA QueueFits ==
    ASSUME NEW pending, IsFiniteSet(pending), Cardinality(pending) <= MaxPending,
           NEW s \in Seq(Entries),
           \A i \in DOMAIN s : (s[i].kind \in Closing /\ s[i].id = 0) \/ (s[i].kind \notin Closing /\ s[i].id \in pending),
           0 \notin pending,
           \A i, j \in DOMAIN s : Class(s[i]) = Class(s[j]) => i = j
    PROVE  Len(s) <= MaxNotices
<1> DEFINE pairs == pending \X {"authentication", "answer"}
           ends == {<<0, "ShutdownRequested">>, <<0, "ShutdownReady">>}
           f == [i \in 1 .. Len(s) |-> Class(s[i])]
<1>1. Cardinality(pending) \in Nat /\ MaxPending \in Nat /\ Len(s) \in Nat /\ DOMAIN s = 1 .. Len(s)
  BY FS_CardinalityType, CapacityAssumption
<1>2. IsFiniteSet({"authentication", "answer"}) /\ Cardinality({"authentication", "answer"}) = 2
  BY PairFinite
<1>3. IsFiniteSet(pairs) /\ Cardinality(pairs) = Cardinality(pending) * 2
  BY <1>2, FS_Product
<1>4. IsFiniteSet(ends) /\ Cardinality(ends) = 2
  <2>1. <<0, "ShutdownRequested">> # <<0, "ShutdownReady">>
    OBVIOUS
  <2> QED
    BY <2>1, PairFinite, Zenon
<1>5. IsFiniteSet(pairs \cup ends) /\ Cardinality(pairs \cup ends) <= MaxNotices
  <2>1. /\ IsFiniteSet(pairs \cup ends) /\ IsFiniteSet(pairs \cap ends)
        /\ Cardinality(pairs \cup ends) = Cardinality(pairs) + Cardinality(ends) - Cardinality(pairs \cap ends)
    <3>1. IsFiniteSet(pairs \cap ends)
      BY <1>3, FS_Subset
    <3> QED
      BY <1>3, <1>4, <3>1, FS_Union
  <2>2. Cardinality(pairs \cap ends) \in Nat /\ Cardinality(ends) \in Nat
    BY <1>4, <2>1, FS_CardinalityType
  <2> HIDE DEF pairs, ends
  <2> QED
    BY <1>1, <1>3, <1>4, <2>1, <2>2 DEF MaxNotices
<1>6. f \in [1 .. Len(s) -> pairs \cup ends]
  <2>1. ASSUME NEW i \in 1 .. Len(s) PROVE Class(s[i]) \in pairs \cup ends
    <3>1. s[i] \in Entries
      BY <1>1
    <3>2. CASE s[i].kind \in Closing
      BY <1>1, <3>2 DEF Class, Closing, Authentication
    <3>3. CASE s[i].kind \notin Closing
      BY <1>1, <3>3 DEF Class
    <3> QED
      BY <3>2, <3>3
  <2> QED
    BY <2>1
<1>7. IsFiniteSet(1 .. Len(s)) /\ Cardinality(1 .. Len(s)) = Len(s)
  BY <1>1, IntervalFinite
<1>8. SUFFICES ASSUME MaxNotices < Len(s) PROVE FALSE
  BY <1>1, CapacityAssumption DEF MaxNotices
<1>9. Cardinality(pairs \cup ends) < Cardinality(1 .. Len(s))
  <2>1. Cardinality(pairs \cup ends) \in Nat /\ MaxNotices \in Nat
    BY <1>5, FS_CardinalityType, CapacityAssumption DEF MaxNotices
  <2> HIDE DEF pairs, ends
  <2> QED
    BY <1>1, <1>5, <1>7, <1>8, <2>1
<1>10. \E i, j \in 1 .. Len(s) : i # j /\ f[i] = f[j]
  <2> HIDE DEF f, pairs, ends
  <2> QED
    BY <1>5, <1>6, <1>7, <1>9, FS_PigeonHole
<1> QED
  BY <1>1, <1>10

LEMMA PendingFinite ==
    ASSUME NEW b, BridgeTypeOK(b)
    PROVE  IsFiniteSet(b.pending) /\ Cardinality(b.pending) \in Nat /\ 0 \notin b.pending /\ b.pending \subseteq Nat
<1>1. IsFiniteSet(1 .. b.nextId - 1)
  <2>1. b.nextId - 1 \in Nat
    BY DEF BridgeTypeOK
  <2> QED
    BY <2>1, IntervalFinite
<1>2. b.pending \in SUBSET (1 .. b.nextId - 1)
  BY DEF BridgeTypeOK
<1>3. 0 \notin b.pending /\ b.pending \subseteq Nat
  BY <1>2
<1> QED
  BY <1>1, <1>2, <1>3, FS_Subset, FS_CardinalityType

LEMMA EmptyLength ==
    ASSUME NEW S, NEW s \in Seq(S)
    PROVE  s = <<>> <=> Len(s) = 0
BY EmptySeq

LEMMA AnnouncesKeeps ==
    ASSUME NEW b, NEW c, NEW f, NEW ans, NEW cmds, Environment,
           BridgeFacts(b, epoch, published, ans, cmds), Announces(b, c, f, epoch), ~Head(b.notices).wait
    PROVE  BridgeFacts(c, epoch, published, ans, cmds) /\ Leads(b, c) /\ Retains(b, c)
<1> DEFINE s == b.notices
           t == c.notices
           n == f.notice
<1>0. /\ s \in Seq(Entries) /\ s # <<>> /\ Len(s) \in Nat /\ Len(s) >= 1 /\ DOMAIN s = 1 .. Len(s)
  BY DEF BridgeFacts, BridgeTypeOK, Announces
<1>1. /\ t \in Seq(Entries) /\ Len(t) = Len(s) - 1 /\ DOMAIN t = 1 .. Len(s) - 1 /\ n = s[1] /\ n \in Entries
      /\ \A i \in DOMAIN t : t[i] = s[i + 1] /\ i + 1 \in DOMAIN s
      /\ ~n.wait /\ 1 \in DOMAIN s
  BY <1>0 DEF Announces
<1>k. /\ Kept(b, c) /\ Transmits(b, c, f, epoch) /\ SameView(b, c) /\ c.last = b.last /\ c.resync = b.resync
      /\ f.kind = "notice"
  BY DEF Announces
<1>t. t = <<>> <=> Len(s) = 1
  <2>1. t = <<>> <=> Len(t) = 0
    BY <1>1, EmptyLength
  <2> QED
    BY <1>0, <1>1, <2>1
<1>w. b.wire = <<>> /\ b.channel # 0
  BY <1>k DEF BridgeFacts, StreamOK, Transmits
<1>f. f # NoFrame /\ c.inFlight = f /\ f.rev = c.nextRev - 1 /\ f.rev # 0
  BY <1>k DEF Transmits, BridgeFacts, BridgeTypeOK, NoFrame
<1>i. ~InFlightNotice(b) /\ InFlightNotice(c) /\ c.inFlight.notice = n
  BY <1>k, <1>f DEF Transmits, InFlightNotice, n
<1> HIDE DEF s, t, n
<1>2. BridgeTypeOK(c)
  <2>1. c.channel = b.channel /\ c.nextRev = b.nextRev + 1
    BY <1>k DEF Transmits
  <2>2. c.notices \in Seq(Entries)
    BY <1>1 DEF t
  <2> QED
    BY <1>k, <2>1, <2>2 DEF BridgeFacts, BridgeTypeOK, Kept, SameView
<1>3. StreamOK(c, epoch)
  <2>2. FrameOK(c)
    BY <1>1, <1>k, <1>f DEF FrameOK, n
  <2>3. c.wire = <<>> \/ (c.wire = <<c.inFlight>> /\ c.inFlight # NoFrame /\ c.channel = epoch)
    BY <1>k, <1>w, <1>f DEF Transmits
  <2> QED
    BY <1>w, <1>k, <2>2, <2>3 DEF Transmits, StreamOK, BridgeFacts
<1>4. QueueOK(c)
  <2>1. \A m : EntryOK(b, m) => EntryOK(c, m)
    BY <1>k DEF EntryOK, Kept
  <2>2. \A i \in DOMAIN t : EntryOK(c, t[i])
    BY <1>1, <2>1 DEF BridgeFacts, QueueOK, s
  <2>3. \A i, j \in DOMAIN t : Class(t[i]) = Class(t[j]) => i = j
    BY <1>1 DEF BridgeFacts, QueueOK, s
  <2>4. \A i, j \in DOMAIN t : t[i].terminal # 0 /\ i < j => t[j].id # t[i].terminal
    <3>1. \A i, j \in DOMAIN s : s[i].terminal # 0 /\ i < j => s[j].id # s[i].terminal
      BY DEF BridgeFacts, QueueOK, s
    <3> QED
      BY <1>0, <1>1, <3>1
  <2>5. EntryOK(c, n) /\ (n.terminal # 0 => \A i \in DOMAIN t : t[i].id # n.terminal)
    BY <1>0, <1>1, <2>1 DEF BridgeFacts, QueueOK, s
  <2>6. c.resync # 0 => /\ c.resync \in c.pending /\ \A i \in DOMAIN t : t[i].id # c.resync
                        /\ n.id # c.resync
    BY <1>1, <1>k DEF BridgeFacts, QueueOK, s, Kept
  <2> QED
    BY <1>k, <1>i, <2>2, <2>3, <2>4, <2>5, <2>6 DEF BridgeFacts, QueueOK, t, Kept
<1>5. FreshOK(c, published)
  BY <1>k DEF FreshOK, Kept, SameView, BridgeFacts
<1>6. ShutdownOK(c)
  <2>1. ~c.started => n.kind \notin Closing /\ \A i \in DOMAIN t : t[i].kind \notin Closing
    BY <1>1, <1>k DEF ShutdownOK, Kept, BridgeFacts, s
  <2>2. \A i \in DOMAIN t : t[i].kind = "ShutdownReady" =>
          i = Len(t) /\ (~t[i].wait => c.last \in Snapshots /\ c.last.shutting)
    BY <1>0, <1>1, <1>k DEF ShutdownOK, BridgeFacts, s
  <2>3. n.kind = "ShutdownReady" => t = <<>> /\ c.last \in Snapshots /\ c.last.shutting
    BY <1>0, <1>1, <1>k, <1>t DEF ShutdownOK, BridgeFacts, s
  <2>4. ~c.readyAcked
    BY <1>0, <1>k DEF ShutdownOK, Kept, BridgeFacts, s
  <2>5. c.started => c.token /\ c.resync = 0
    BY <1>k DEF ShutdownOK, Kept, BridgeFacts
  <2> QED
    BY <1>i, <2>1, <2>2, <2>3, <2>4, <2>5 DEF ShutdownOK, t
<1>7. CoverOK(c, published, ans, cmds)
  BY <1>1, <1>k, <1>i DEF CoverOK, SameView, BridgeFacts, s, t
<1>8. Leads(b, c) /\ Retains(b, c)
  <2>1. \A id : TerminalNoticeOutstanding(c, id) <=> n.terminal = id \/ \E i \in DOMAIN t : t[i].terminal = id
    BY <1>f, <1>k DEF TerminalNoticeOutstanding, n, t
  <2>2. \A id : TerminalNoticeOutstanding(b, id) <=> \E i \in DOMAIN s : s[i].terminal = id
    BY <1>k DEF TerminalNoticeOutstanding, s, Transmits
  <2>3. \A id : (n.terminal = id \/ \E i \in DOMAIN t : t[i].terminal = id) <=> \E i \in DOMAIN s : s[i].terminal = id
    <3>1. \A i \in DOMAIN s : i = 1 \/ (i - 1 \in DOMAIN t /\ t[i - 1] = s[i])
      BY <1>0, <1>1
    <3> QED
      BY <1>1, <3>1
  <2>4. Sends(b, c)
    BY <1>k, <1>f DEF Sends, Transmits, Grows
  <2> QED
    BY <1>k, <2>1, <2>2, <2>3, <2>4 DEF Leads, Retains
<1> QED
  BY <1>2, <1>3, <1>4, <1>5, <1>6, <1>7, <1>8 DEF BridgeFacts

\* The queue is not closed: ShutdownReady is the last notice there is.
Open(b) ==
    /\ ~b.readyAcked
    /\ \A i \in DOMAIN b.notices : b.notices[i].kind # "ShutdownReady"
    /\ InFlightNotice(b) => b.inFlight.notice.kind # "ShutdownReady"

\* The notice n may join the queue.
Admissible(b, n, ans, cmds) ==
    /\ Open(b)
    /\ \/ /\ n.kind \in Closing /\ n.id = 0 /\ b.started
          /\ \A i \in DOMAIN b.notices : b.notices[i].kind # n.kind
       \/ /\ n.kind \in Authentication \cup Answers
          /\ n.id \in b.pending /\ n.id # b.resync /\ ~TerminalNoticeOutstanding(b, n.id)
          /\ n.id \in cmds =>
                /\ n.kind \in Answers /\ AnsweredBy(published, ans, n.id, Outcome(n))
                /\ b.dirty \/ b.unseen = {}

LEMMA AppendsKeeps ==
    ASSUME NEW b, NEW c, NEW n, NEW ans, NEW cmds, Environment,
           BridgeFacts(b, epoch, published, ans, cmds), Appends(b, c, n), Admissible(b, n, ans, cmds),
           cmds \subseteq Nat \ {0},
           \A i \in DOMAIN b.notices :
              ~(n.kind \in Authentication /\ b.notices[i].kind \in Authentication /\ b.notices[i].id = n.id)
    PROVE  /\ BridgeFacts(c, epoch, published, ans, cmds) /\ Len(c.notices) <= MaxNotices
           /\ Retains(b, c)
           /\ \A id \in Nat \ {0} : TerminalNoticeOutstanding(c, id) <=>
                 TerminalNoticeOutstanding(b, id) \/ id = Terminal(n)
<1> DEFINE s == b.notices
           t == c.notices
           e == Queued(b, n)
           k == Len(s) + 1
<1>e. e = [kind |-> n.kind, id |-> n.id, terminal |-> Terminal(n), wait |-> e.wait]
  BY DEF Queued
<1>v. e.wait = (b.dirty /\ (Terminal(n) # 0 \/ n.kind \in Closing))
  BY DEF Queued, Closing
<1>0. /\ s \in Seq(Entries) /\ Len(s) \in Nat /\ DOMAIN s = 1 .. Len(s) /\ k \in Nat
  BY DEF BridgeFacts, BridgeTypeOK
<1>q. e.kind = n.kind /\ e.id = n.id /\ e.terminal = Terminal(n)
  BY <1>e DEF e
<1>p. /\ b.pending \subseteq Nat /\ 0 \notin b.pending /\ IsFiniteSet(b.pending)
  BY PendingFinite DEF BridgeFacts
<1> HIDE DEF e
<1>n. \/ n.kind \in Closing /\ n.id = 0 /\ e.terminal = 0
      \/ /\ n.kind \in Authentication \cup Answers /\ n.id \in b.pending /\ n.id # 0
         /\ e.terminal = IF n.kind = "BrowserOpened" THEN 0 ELSE n.id
  BY <1>q, <1>p DEF Admissible, Terminal, Closing, Authentication, Answers
<1>y. e \in Entries
  <2>1. n.kind \in Authentication \cup Answers \cup Closing /\ n.id \in Nat /\ Terminal(n) \in Nat
    BY <1>n, <1>q, <1>p
  <2>2. e.wait \in BOOLEAN
    BY <1>v
  <2> QED
    BY <1>e, <2>1, <2>2 DEF Entries, e
<1>1. /\ t \in Seq(Entries) /\ Len(t) = k /\ DOMAIN t = 1 .. k /\ t[k] = e
      /\ \A i \in DOMAIN s : t[i] = s[i] /\ i \in DOMAIN t /\ i < k
      /\ \A i \in DOMAIN t : i = k \/ i \in DOMAIN s
  <2>1. t = Append(s, e)
    BY DEF Appends, e
  <2> QED
    BY <1>0, <1>y, <2>1
<1>2. Kept(b, c) /\ SameStream(b, c) /\ SameView(b, c) /\ c.resync = b.resync
  BY DEF Appends
<1> HIDE DEF s, t, k
<1> USE <1>2 DEF Kept, SameStream, SameView, BridgeFacts
<1>3. BridgeTypeOK(c)
  BY <1>1 DEF BridgeTypeOK, t
<1>4. StreamOK(c, epoch)
  BY DEF StreamOK, FrameOK
<1>i. InFlightNotice(c) = InFlightNotice(b)
  BY DEF InFlightNotice
<1>o. ~TerminalNoticeOutstanding(b, n.id) \/ n.id = 0
  BY DEF Admissible
<1>5. QueueOK(c)
  <2>1. \A m : EntryOK(b, m) <=> EntryOK(c, m)
    BY DEF EntryOK
  <2>2. EntryOK(b, e)
    BY <1>n, <1>q DEF EntryOK, Closing, Authentication, Answers
  <2>3. \A i \in DOMAIN t : EntryOK(c, t[i])
    BY <1>1, <2>1, <2>2 DEF QueueOK, s
  <2>4. \A i \in DOMAIN s : Class(s[i]) # Class(e)
    <3> SUFFICES ASSUME NEW i \in DOMAIN s, Class(s[i]) = Class(e) PROVE FALSE
      OBVIOUS
    <3>1. s[i] \in Entries /\ EntryOK(b, s[i])
      BY <1>0 DEF QueueOK, s
    <3>2. s[i].id = e.id
      BY DEF Class
    <3>3. CASE n.kind \in Authentication
      <4>1. Class(e)[2] = "authentication"
        BY <1>q, <3>3 DEF Class
      <4>2. Class(s[i])[2] # "authentication" \/ s[i].kind \in Authentication
        BY <3>1 DEF Class, Entries, Answers, Closing
      <4> QED
        BY <1>q, <3>2, <3>3, <4>1, <4>2 DEF s
    <3>4. CASE n.kind \in Answers
      <4>1. e.id # 0 /\ Class(e)[2] = "answer"
        BY <1>n, <1>q, <3>4 DEF Class, Answers, Authentication, Closing
      <4>2. s[i].kind \notin Authentication
        BY <4>1 DEF Class
      <4>3. s[i].terminal = n.id
        BY <1>q, <3>1, <3>2, <4>1, <4>2 DEF EntryOK
      <4> QED
        BY <1>o, <1>q, <4>1, <4>3 DEF TerminalNoticeOutstanding, s
    <3>5. CASE n.kind \in Closing
      <4>1. e.id = 0 /\ Class(e)[2] = e.kind
        BY <1>n, <1>q, <1>p, <3>5 DEF Class, Closing, Authentication, Answers
      <4>2. s[i].kind \in Closing
        BY <1>p, <3>1, <3>2, <4>1 DEF EntryOK
      <4>3. Class(s[i])[2] = s[i].kind
        BY <3>2, <4>1, <4>2 DEF Class, Closing, Authentication
      <4>4. s[i].kind = n.kind
        BY <1>q, <4>1, <4>3
      <4> QED
        BY <1>p, <3>5, <4>4 DEF Admissible, s, Closing, Authentication, Answers
    <3> QED
      BY <1>n, <3>3, <3>4, <3>5
  <2>5. \A i, j \in DOMAIN t : Class(t[i]) = Class(t[j]) => i = j
    BY <1>1, <2>4 DEF QueueOK, s
  <2>6. \A i \in DOMAIN s : s[i].terminal # 0 => s[i].terminal # e.id
    BY <1>o, <1>q DEF TerminalNoticeOutstanding, s
  <2>7. \A i, j \in DOMAIN t : t[i].terminal # 0 /\ i < j => t[j].id # t[i].terminal
    <3>1. ASSUME NEW i \in DOMAIN t, NEW j \in DOMAIN t, t[i].terminal # 0, i < j
          PROVE  i \in DOMAIN s
      BY <1>0, <1>1, <3>1 DEF k
    <3> QED
      BY <1>1, <2>6, <3>1 DEF QueueOK, s
  <2>8. InFlightNotice(c) =>
          /\ EntryOK(c, c.inFlight.notice)
          /\ c.inFlight.notice.terminal # 0 => \A i \in DOMAIN t : t[i].id # c.inFlight.notice.terminal
    <3>1. ASSUME InFlightNotice(b), b.inFlight.notice.terminal # 0 PROVE e.id # b.inFlight.notice.terminal
      BY <1>o, <1>q, <3>1 DEF TerminalNoticeOutstanding, InFlightNotice
    <3> QED
      BY <1>1, <1>i, <2>1, <3>1 DEF QueueOK, s
  <2>9. c.resync # 0 => /\ c.resync \in c.pending /\ \A i \in DOMAIN t : t[i].id # c.resync
                        /\ InFlightNotice(c) => c.inFlight.notice.id # c.resync
    <3>1. b.resync # 0 => e.id # b.resync
      BY <1>q DEF Admissible
    <3> QED
      BY <1>1, <1>i, <3>1 DEF QueueOK, s
  <2> QED
    BY <2>3, <2>5, <2>7, <2>8, <2>9 DEF QueueOK, t
<1>6. FreshOK(c, published)
  BY DEF FreshOK
<1>7. ShutdownOK(c)
  <2>1. n.kind \in Closing => b.started
    BY <1>p DEF Admissible, Closing, Authentication, Answers
  <2>2. ~c.started => \A i \in DOMAIN t : t[i].kind \notin Closing
    BY <1>1, <1>q, <2>1 DEF ShutdownOK, s
  <2>3. \A i \in DOMAIN s : s[i].kind # "ShutdownReady"
    BY DEF Admissible, Open, s
  <2>4. n.kind = "ShutdownReady" => (~e.wait => b.last \in Snapshots /\ b.last.shutting)
    BY <1>v, <2>1 DEF FreshOK, Closing, BridgeTypeOK
  <2>5. \A i \in DOMAIN t : t[i].kind = "ShutdownReady" =>
          i = Len(t) /\ (~t[i].wait => c.last \in Snapshots /\ c.last.shutting)
    BY <1>1, <1>q, <2>3, <2>4
  <2>6. ~c.readyAcked /\ (InFlightNotice(c) => c.inFlight.notice.kind # "ShutdownReady")
    BY <1>i DEF Admissible, Open
  <2> QED
    BY <1>i, <2>2, <2>5, <2>6 DEF ShutdownOK, t
<1>8. CoverOK(c, published, ans, cmds)
  <2>1. ASSUME e.id \in cmds
        PROVE  /\ e.kind \in Answers /\ AnsweredBy(published, ans, e.id, Outcome(e))
               /\ ~e.wait \/ ~b.dirty => b.last \in Snapshots /\ AnsweredBy(b.last, ans, e.id, Outcome(e))
    <3>1. n.id # 0 /\ n.kind \in Authentication \cup Answers
      BY <1>n, <1>q, <2>1
    <3>2. n.kind \in Answers /\ AnsweredBy(published, ans, n.id, Outcome(n)) /\ (b.dirty \/ b.unseen = {})
      BY <1>q, <2>1, <3>1 DEF Admissible
    <3>3. Outcome(e) = Outcome(n)
      BY <1>q DEF Outcome
    <3>4. e.wait = b.dirty
      BY <1>v, <3>1, <3>2 DEF Terminal, Answers, BridgeTypeOK
    <3>5. ASSUME ~b.dirty PROVE b.last \in Snapshots /\ AnsweredBy(b.last, ans, n.id, Outcome(n))
      <4>1. /\ b.last \in Snapshots /\ b.last.active = published.active
            /\ b.last.session = published.session /\ b.last.catalog = published.catalog
        BY <3>2, <3>5 DEF FreshOK
      <4> QED
        BY <3>2, <4>1 DEF AnsweredBy, Covers
    <3> QED
      BY <1>q, <3>2, <3>3, <3>4, <3>5
  <2> QED
    BY <1>1, <1>i, <2>1 DEF CoverOK, s, t
<1>9. /\ Retains(b, c)
      /\ \A id \in Nat \ {0} : TerminalNoticeOutstanding(c, id) <=>
            TerminalNoticeOutstanding(b, id) \/ id = Terminal(n)
  <2>1. \A id : (\E i \in DOMAIN t : t[i].terminal = id) <=> (\E i \in DOMAIN s : s[i].terminal = id) \/ id = Terminal(n)
    <3>1. ASSUME NEW id, NEW i \in DOMAIN t, t[i].terminal = id
          PROVE  (\E j \in DOMAIN s : s[j].terminal = id) \/ id = Terminal(n)
      BY <1>1, <1>q, <3>1
    <3>2. ASSUME NEW id, NEW i \in DOMAIN s, s[i].terminal = id PROVE \E j \in DOMAIN t : t[j].terminal = id
      BY <1>1, <3>2
    <3>3. k \in DOMAIN t /\ t[k].terminal = Terminal(n)
      BY <1>0, <1>1, <1>q DEF k
    <3> QED
      BY <3>1, <3>2, <3>3
  <2> QED
    BY <2>1 DEF Retains, TerminalNoticeOutstanding, s, t
<1>10. Len(t) <= MaxNotices
  <2>1. \A i \in DOMAIN t : EntryOK(c, t[i])
    BY <1>5 DEF QueueOK, t
  <2>2. \A i \in DOMAIN t : (t[i].kind \in Closing /\ t[i].id = 0) \/ (t[i].kind \notin Closing /\ t[i].id \in c.pending)
    BY ONLY <2>1 DEF EntryOK
  <2>3. /\ IsFiniteSet(c.pending) /\ Cardinality(c.pending) <= MaxPending /\ 0 \notin c.pending
        /\ \A i, j \in DOMAIN t : Class(t[i]) = Class(t[j]) => i = j
    BY <1>3, <1>5, PendingFinite DEF QueueOK, t
  <2> QED
    BY ONLY <1>1, <2>2, <2>3, QueueFits
<1> QED
  BY <1>3, <1>4, <1>5, <1>6, <1>7, <1>8, <1>9, <1>10 DEF t

LEMMA ReplacesKeeps ==
    ASSUME NEW b, NEW c, NEW n, NEW k, NEW ans, NEW cmds, Environment,
           BridgeFacts(b, epoch, published, ans, cmds), Replaces(b, c, n, k),
           n.kind \in Authentication, b.notices[k].kind \in Authentication
    PROVE  /\ BridgeFacts(c, epoch, published, ans, cmds) /\ Retains(b, c)
           /\ \A id : TerminalNoticeOutstanding(c, id) <=> TerminalNoticeOutstanding(b, id)
<1> DEFINE s == b.notices
           t == c.notices
<1>0. /\ s \in Seq(Entries) /\ Len(s) \in Nat /\ DOMAIN s = 1 .. Len(s) /\ k \in DOMAIN s
  BY DEF BridgeFacts, BridgeTypeOK, Replaces
<1>1. /\ t \in Seq(Entries) /\ Len(t) = Len(s) /\ DOMAIN t = DOMAIN s
      /\ \A i \in DOMAIN s : t[i].wait = s[i].wait /\ t[i].id = s[i].id /\ t[i].terminal = s[i].terminal
      /\ \A i \in DOMAIN s : i # k => t[i] = s[i]
      /\ t[k].kind = n.kind
  <2>0. s[k] \in Entries
    BY <1>0 DEF s
  <2>1. [s[k] EXCEPT !.kind = n.kind] \in Entries
    BY <2>0 DEF Entries
  <2>2. t = [s EXCEPT ![k] = [s[k] EXCEPT !.kind = n.kind]]
    BY DEF Replaces
  <2>3. /\ [s[k] EXCEPT !.kind = n.kind].wait = s[k].wait /\ [s[k] EXCEPT !.kind = n.kind].id = s[k].id
        /\ [s[k] EXCEPT !.kind = n.kind].terminal = s[k].terminal
        /\ [s[k] EXCEPT !.kind = n.kind].kind = n.kind
    BY <2>0 DEF Entries
  <2> QED
    BY <1>0, <2>1, <2>2, <2>3
<1>2. /\ Kept(b, c) /\ SameStream(b, c) /\ SameView(b, c) /\ c.resync = b.resync
  BY DEF Replaces
<1>a. s[k].kind \in Authentication /\ t[k].kind \in Authentication
  BY <1>1
<1> HIDE DEF s, t
<1>b. /\ \A i \in DOMAIN s : t[i].kind \in Closing <=> s[i].kind \in Closing
      /\ \A i \in DOMAIN s : t[i].kind \in Authentication <=> s[i].kind \in Authentication
      /\ \A i \in DOMAIN s : t[i].kind \notin Authentication => t[i] = s[i]
  BY <1>0, <1>1, <1>a DEF Closing, Authentication
<1> USE <1>2 DEF Kept, SameStream, SameView, BridgeFacts
<1>3. BridgeTypeOK(c)
  BY <1>1 DEF BridgeTypeOK, t
<1>4. StreamOK(c, epoch)
  BY DEF StreamOK, FrameOK
<1>i. InFlightNotice(c) = InFlightNotice(b)
  BY DEF InFlightNotice
<1>5. QueueOK(c)
  <2>1. \A i \in DOMAIN s : EntryOK(b, s[i]) => EntryOK(c, t[i])
    BY <1>1, <1>b DEF EntryOK
  <2>2. \A i \in DOMAIN s : Class(t[i]) = Class(s[i])
    BY <1>1, <1>b DEF Class
  <2>3. \A m : EntryOK(b, m) => EntryOK(c, m)
    BY DEF EntryOK
  <2> QED
    BY <1>1, <1>i, <2>1, <2>2, <2>3 DEF QueueOK, s, t
<1>6. FreshOK(c, published)
  BY DEF FreshOK
<1>7. ShutdownOK(c)
  <2>1. t = <<>> <=> s = <<>>
    BY <1>0, <1>1, EmptyLength
  <2>2. \A i \in DOMAIN s : t[i].kind = "ShutdownReady" => t[i] = s[i]
    BY <1>b DEF Authentication
  <2> QED
    BY <1>1, <1>b, <1>i, <2>1, <2>2 DEF ShutdownOK, s, t
<1>8. CoverOK(c, published, ans, cmds)
  <2>1. s[k].id \notin cmds
    BY <1>0, <1>a DEF CoverOK, s, Authentication, Answers
  <2> QED
    BY <1>0, <1>1, <1>i, <2>1 DEF CoverOK, s, t
<1>9. /\ Retains(b, c)
      /\ \A id : TerminalNoticeOutstanding(c, id) <=> TerminalNoticeOutstanding(b, id)
  BY <1>1 DEF Retains, TerminalNoticeOutstanding, s, t
<1> QED
  BY <1>3, <1>4, <1>5, <1>6, <1>7, <1>8, <1>9

\* queue_notice puts an admissible notice into the queue, or into the entry
\* of the same request that still waits.
LEMMA QueueNoticeKeeps ==
    ASSUME NEW b, NEW n, NEW ans, NEW cmds, Environment, 0 \notin cmds, cmds \subseteq Nat,
           BridgeFacts(b, epoch, published, ans, cmds), Admissible(b, n, ans, cmds)
    PROVE  LET c == QueueNotice(b, n) IN
           /\ BridgeFacts(c, epoch, published, ans, cmds) /\ Retains(b, c) /\ ~c.failed
           /\ Kept(b, c) /\ SameStream(b, c) /\ SameView(b, c) /\ c.resync = b.resync
           /\ \A id \in Nat \ {0} : TerminalNoticeOutstanding(c, id) =>
                 TerminalNoticeOutstanding(b, id) \/ id = Terminal(n)
           /\ n.kind \notin Authentication =>
                 c.notices = Append(b.notices, Queued(b, n)) /\ TerminalNoticeOutstanding(c, Terminal(n))
           /\ c.notices # <<>>
<1> DEFINE s == b.notices
           same == {i \in DOMAIN b.notices : n.kind \in Authentication
                       /\ b.notices[i].kind \in Authentication /\ b.notices[i].id = n.id}
           k == CHOOSE i \in same : \A j \in same : i <= j
<1>0. /\ s \in Seq(Entries) /\ Len(s) \in Nat /\ DOMAIN s = 1 .. Len(s) /\ IsBridge(b) /\ BridgeTypeOK(b)
      /\ b.failed \in BOOLEAN
  BY DEF BridgeFacts, BridgeTypeOK
<1>1. CASE same # {}
  <2>1. k \in same
    <3>1. PICK i \in same : TRUE
      BY <1>1
    <3>2. \A j \in same : i = j
      <4>1. \A j \in same : Class(s[j]) = Class(s[i])
        BY DEF Class
      <4> QED
        BY <3>1, <4>1 DEF BridgeFacts, QueueOK
    <3>3. i \in Nat
      BY <1>0
    <3> QED
      BY <3>1, <3>2, <3>3
  <2> DEFINE c == [b EXCEPT !.notices = [s EXCEPT ![k].kind = n.kind], !.failed = FALSE]
  <2>2. QueueNotice(b, n) = c
    BY <1>1, ZenonT(60) DEF QueueNotice
  <2> HIDE DEF k
  <2>3. Replaces(b, c, n, k) /\ ~c.failed
    <3> DEFINE q == [s EXCEPT ![k].kind = n.kind]
    <3>0. c = [b EXCEPT !.notices = q, !.failed = FALSE]
      BY DEF c
    <3>1. /\ Kept(b, c) /\ SameStream(b, c) /\ SameView(b, c) /\ c.resync = b.resync
          /\ c.notices = q /\ c.failed = FALSE
      <4> HIDE DEF c, q, s
      <4> QED
        BY <1>0, <3>0 DEF IsBridge, Kept, SameStream, SameView
    <3> HIDE DEF c
    <3> QED
      BY <2>1, <3>1 DEF Replaces
  <2> HIDE DEF c
  <2>4. n.kind \in Authentication /\ b.notices[k].kind \in Authentication /\ k \in DOMAIN s
    BY <2>1
  <2>5. /\ BridgeFacts(c, epoch, published, ans, cmds) /\ Retains(b, c)
        /\ \A id : TerminalNoticeOutstanding(c, id) <=> TerminalNoticeOutstanding(b, id)
    BY <2>3, <2>4, ReplacesKeeps
  <2>6. c.notices # <<>>
    <3>1. c.notices = [s EXCEPT ![k].kind = n.kind]
      BY <2>3 DEF Replaces
    <3>2. DOMAIN c.notices = DOMAIN s
      BY <3>1
    <3>3. DOMAIN <<>> = {}
      OBVIOUS
    <3> QED
      BY <2>4, <3>2, <3>3
  <2> QED
    BY <2>2, <2>3, <2>4, <2>5, <2>6 DEF Replaces
<1>2. CASE same = {}
  <2> DEFINE c == [b EXCEPT !.notices = Append(s, Queued(b, n)), !.failed = FALSE]
  <2>3. Appends(b, c, n) /\ ~c.failed
    <3> DEFINE q == Append(s, Queued(b, n))
    <3>0. c = [b EXCEPT !.notices = q, !.failed = FALSE]
      BY DEF c
    <3>1. /\ Kept(b, c) /\ SameStream(b, c) /\ SameView(b, c) /\ c.resync = b.resync
          /\ c.notices = q /\ c.failed = FALSE
      <4> HIDE DEF c, q, s
      <4> QED
        BY <1>0, <3>0 DEF IsBridge, Kept, SameStream, SameView
    <3> HIDE DEF c
    <3> QED
      BY <3>1 DEF Appends
  <2>s. c.notices = Append(s, Queued(b, n))
    BY <2>3 DEF Appends
  <2> HIDE DEF c
  <2>4. \A i \in DOMAIN b.notices :
              ~(n.kind \in Authentication /\ b.notices[i].kind \in Authentication /\ b.notices[i].id = n.id)
    BY <1>2
  <2>5. /\ BridgeFacts(c, epoch, published, ans, cmds) /\ Len(c.notices) <= MaxNotices
        /\ Retains(b, c)
        /\ \A id \in Nat \ {0} : TerminalNoticeOutstanding(c, id) <=>
              TerminalNoticeOutstanding(b, id) \/ id = Terminal(n)
    <3>1. cmds \subseteq Nat \ {0}
      OBVIOUS
    <3> QED
      BY <2>3, <2>4, <3>1, AppendsKeeps
  <2>6. ~(Len(s) >= MaxNotices) /\ c.notices # <<>>
    <3>1. c.notices \in Seq(Entries) /\ MaxNotices \in Nat
      BY <2>5, CapacityAssumption DEF BridgeFacts, BridgeTypeOK, MaxNotices
    <3>2. Len(c.notices) = Len(s) + 1
      BY <1>0, <2>s
    <3> QED
      BY <1>0, <2>5, <3>1, <3>2, EmptyLength
  <2>7. QueueNotice(b, n) = c
    BY <1>2, <2>6, ZenonT(60) DEF QueueNotice, c
  <2>8. TerminalNoticeOutstanding(c, Terminal(n))
    <3>1. Queued(b, n).terminal = Terminal(n)
      BY DEF Queued
    <3>2. Len(s) + 1 \in DOMAIN c.notices /\ c.notices[Len(s) + 1] = Queued(b, n)
      BY <1>0, <2>s
    <3> QED
      BY <3>1, <3>2 DEF TerminalNoticeOutstanding
  <2> QED
    BY <2>3, <2>5, <2>6, <2>7, <2>8, <2>s DEF Appends
<1> QED
  BY <1>1, <1>2

-----------------------------------------------------------------------------
(* The bridge's operations, as stages. *)

LEMMA ProjectionFrameFields ==
    ASSUME NEW b, NEW r
    PROVE  LET f == [ProjectionFrame(b) EXCEPT !.rev = r] IN f.rev = r /\ IsProjection(b, f, Snapshot(b))
<1> DEFINE s == Snapshot(b)
           p == [ProjectionFrame(b) EXCEPT !.rev = r]
<1> HIDE DEF s
<1>1. p.rev = r /\ IsProjection(b, p, s)
  <2>1. CASE DeltaBetween(b.last, s)
    <3>1. ProjectionFrame(b) = [rev |-> 0, kind |-> "delta", base |-> b.last, snapshot |-> s]
      BY <2>1 DEF ProjectionFrame, s
    <3>2. p = [rev |-> r, kind |-> "delta", base |-> b.last, snapshot |-> s]
      BY <3>1
    <3> QED
      BY <2>1, <3>2 DEF IsProjection
  <2>2. CASE ~DeltaBetween(b.last, s)
    <3>1. ProjectionFrame(b) = [rev |-> 0, kind |-> "snapshot", reason |-> "projection", snapshot |-> s]
      BY <2>2 DEF ProjectionFrame, SnapshotFrame, s
    <3>2. p = [rev |-> r, kind |-> "snapshot", reason |-> "projection", snapshot |-> s]
      BY <3>1
    <3> QED
      BY <3>2 DEF IsProjection
  <2> QED
    BY <2>1, <2>2
<1> QED
  BY <1>1 DEF s

LEMMA SnapshotFrameFields ==
    ASSUME NEW b, NEW r, NEW reason
    PROVE  LET f == [SnapshotFrame(b, reason) EXCEPT !.rev = r] IN f.rev = r /\ IsProjection(b, f, Snapshot(b))
<1> DEFINE s == Snapshot(b)
           q == [SnapshotFrame(b, reason) EXCEPT !.rev = r]
<1> HIDE DEF s
<1>2. q = [rev |-> r, kind |-> "snapshot", reason |-> reason, snapshot |-> s]
  BY DEF SnapshotFrame, s
<1>3. q.rev = r /\ IsProjection(b, q, s)
  BY <1>2 DEF IsProjection
<1> QED
  BY <1>3 DEF s

LEMMA NoticeFrameFields ==
    ASSUME NEW notice, NEW r
    PROVE  LET f == [NoticeFrame(notice) EXCEPT !.rev = r] IN f.rev = r /\ f.kind = "notice" /\ f.notice = notice
<1> DEFINE m == [NoticeFrame(notice) EXCEPT !.rev = r]
<1>1. m = [rev |-> r, kind |-> "notice", notice |-> notice]
  BY DEF NoticeFrame
<1>2. m.rev = r /\ m.kind = "notice" /\ m.notice = notice
  BY <1>1
<1> QED
  BY <1>2

LEMMA SelfStays ==
    ASSUME NEW b, BridgeTypeOK(b)
    PROVE  Stays(b, b)
BY DEF BridgeTypeOK, Stays, Kept, SameStream, SameQueue, SameView

\* Published after a frame of the current projection was sent.
LEMMA PublishedFields ==
    ASSUME NEW b, BridgeTypeOK(b), NEW f, NEW ok \in BOOLEAN, b.channel # 0, b.inFlight = NoFrame,
           LET g == [f EXCEPT !.rev = b.nextRev] IN g.rev = b.nextRev /\ IsProjection(b, g, Snapshot(b)),
           NEW c, c = Published(b, Send(b, f, ok))
    PROVE  /\ c.failed = ~ok
           /\ ok => Shows(b, c, [f EXCEPT !.rev = b.nextRev], epoch, Snapshot(b)) /\ c.resync = b.resync
           /\ ~ok => Refuses(b, c)
<1> DEFINE x == Send(b, f, ok)
           g == [f EXCEPT !.rev = b.nextRev]
           s == Snapshot(b)
           w == IF b.channel = epoch THEN Append(b.wire, g) ELSE b.wire
<1>1. /\ IsBridge(x) /\ x.failed = ~ok
      /\ ok => /\ SameQueue(b, x) /\ SameView(b, x) /\ Kept(b, x) /\ x.last = b.last
               /\ x.channel = b.channel /\ x.nextRev = b.nextRev + 1
               /\ x.inFlight = g
               /\ x.wire = w
      /\ ~ok => Refuses(b, x)
  BY SendFields
<1>2. c = IF x.failed THEN x ELSE [x EXCEPT !.last = s, !.dirty = FALSE]
  BY DEF Published
<1>3. g.rev = b.nextRev /\ IsProjection(b, g, s)
  OBVIOUS
<1>4. CASE ~ok
  BY <1>1, <1>2, <1>4
<1>5. CASE ok
  <2> HIDE DEF x, g, s, w
  <2>1. c = [x EXCEPT !.last = s, !.dirty = FALSE] /\ b.dirty \in BOOLEAN /\ x.dirty = b.dirty
    BY <1>1, <1>2, <1>5 DEF BridgeTypeOK, SameView
  <2>2. /\ Kept(x, c) /\ c.last = s /\ c.dirty = FALSE /\ c.unseen = x.unseen /\ c.generation = x.generation
        /\ c.notices = x.notices /\ c.resync = x.resync /\ c.channel = x.channel /\ c.nextRev = x.nextRev
        /\ c.inFlight = x.inFlight /\ c.wire = x.wire /\ c.failed = x.failed
    BY <1>1, <1>5, <2>1 DEF IsBridge, Kept
  <2>3. Kept(b, c)
    BY <1>1, <1>5, <2>2 DEF Kept
  <2>4. Transmits(b, c, g, epoch)
    BY <1>1, <1>3, <1>5, <2>2 DEF Transmits, w
  <2>5. Shows(b, c, g, epoch, s) /\ c.resync = b.resync
    BY <1>1, <1>3, <1>5, <2>2, <2>3, <2>4 DEF Shows, SameQueue, SameView
  <2> QED
    BY <1>1, <1>5, <2>2, <2>5 DEF g, s
<1> QED
  BY <1>4, <1>5

\* Only failed differs.
LEMMA FailedOnly ==
    ASSUME NEW b, BridgeTypeOK(b), NEW v \in BOOLEAN, NEW c, c = [b EXCEPT !.failed = v]
    PROVE  Stays(b, c) /\ c.failed = v /\ BridgeTypeOK(c)
<1>1. Stays(b, c) /\ c.failed = v
  BY DEF BridgeTypeOK, IsBridge, Stays, Kept, SameStream, SameQueue, SameView
<1> QED
  BY <1>1 DEF BridgeTypeOK, Stays, Kept, SameStream, SameQueue, SameView

LEMMA LeadsStays ==
    ASSUME NEW b, NEW c, NEW d, Leads(b, c), Stays(c, d)
    PROVE  Leads(b, d) /\ (Retains(b, c) => Retains(b, d))
<1>1. \A id : TerminalNoticeOutstanding(c, id) <=> TerminalNoticeOutstanding(d, id)
  BY DEF Stays, SameStream, SameQueue, TerminalNoticeOutstanding
<1>2. Sends(b, d)
  BY DEF Leads, Stays, SameStream, Sends, Transmits
<1> QED
  BY <1>1, <1>2 DEF Leads, Retains, Stays, Kept, SameQueue

\* What an operation on the bridge keeps.
Keeps(b, c, ans, cmds) == BridgeFacts(c, epoch, published, ans, cmds) /\ Leads(b, c) /\ Retains(b, c)

LEMMA KeepsStays ==
    ASSUME NEW b, NEW c, NEW v \in BOOLEAN, NEW d, NEW ans, NEW cmds, Environment, Keeps(b, c, ans, cmds),
           d = [c EXCEPT !.failed = v]
    PROVE  Keeps(b, d, ans, cmds) /\ Stays(c, d) /\ d.failed = v
<1>1. Stays(c, d) /\ d.failed = v
  BY FailedOnly DEF Keeps, BridgeFacts
<1>2. BridgeFacts(d, epoch, published, ans, cmds)
  BY <1>1, StaysKeeps DEF Keeps
<1> QED
  BY <1>1, <1>2, LeadsStays DEF Keeps

LEMMA KeepsTransitive ==
    ASSUME NEW b, NEW c, NEW d, NEW ans, NEW cmds,
           BridgeTypeOK(b), Keeps(b, c, ans, cmds), Keeps(c, d, ans, cmds)
    PROVE  Keeps(b, d, ans, cmds)
<1>1. Leads(b, d)
  BY LeadsTransitive DEF Keeps, BridgeFacts
<1>2. Retains(b, d)
  BY DEF Keeps, Retains
<1> QED
  BY <1>1, <1>2 DEF Keeps

LEMMA PublishProjectionKeeps ==
    ASSUME NEW b, NEW ok \in BOOLEAN, NEW ans, NEW cmds, Environment, 0 \notin cmds,
           BridgeFacts(b, epoch, published, ans, cmds), b.channel # 0, b.inFlight = NoFrame, ~b.failed
    PROVE  LET c == PublishProjection(b, ok) IN
           /\ Keeps(b, c, ans, cmds) /\ ~c.failed /\ c.notices = b.notices /\ c.resync = b.resync
           /\ ~c.dirty /\ b.dirty => c.channel = b.channel
           /\ c.inFlight # NoFrame => c.nextRev = b.nextRev + 1
           /\ Representable /\ ok => ~c.dirty
<1> DEFINE c == PublishProjection(b, ok)
           f == ProjectionFrame(b)
           x == Published(b, Send(b, f, ok))
<1>0. BridgeTypeOK(b)
  BY DEF BridgeFacts
<1>1. CASE ~Representable
  <2>1. c = b /\ Stays(b, b)
    BY <1>0, <1>1, SelfStays DEF PublishProjection
  <2>2. Keeps(b, b, ans, cmds)
    BY <2>1, StaysKeeps DEF Keeps
  <2> QED
    BY <1>1, <2>1, <2>2
<1>2. CASE Representable /\ b.last = Snapshot(b)
  <2>1. c = [b EXCEPT !.dirty = FALSE] /\ b.dirty \in BOOLEAN
    BY <1>0, <1>2 DEF PublishProjection, BridgeTypeOK
  <2> HIDE DEF c
  <2>2. Clears(b, c, b.last) /\ c.failed = b.failed
    BY <1>0, <2>1 DEF BridgeTypeOK, IsBridge, Clears, Kept, SameStream, SameQueue
  <2>3. Keeps(b, c, ans, cmds)
    BY <1>2, <2>2, ClearsKeeps DEF Keeps
  <2> QED
    BY <2>2, <2>3 DEF Clears, SameStream, SameQueue, c
<1>3. CASE Representable /\ b.last # Snapshot(b)
  <2>1. c = [x EXCEPT !.failed = FALSE]
    BY <1>3 DEF PublishProjection
  <2>2. LET g == [f EXCEPT !.rev = b.nextRev] IN g.rev = b.nextRev /\ IsProjection(b, g, Snapshot(b))
    BY ProjectionFrameFields
  <2>3. /\ x.failed = ~ok
        /\ ok => Shows(b, x, [f EXCEPT !.rev = b.nextRev], epoch, Snapshot(b)) /\ x.resync = b.resync
        /\ ~ok => Refuses(b, x)
    <3> HIDE DEF f
    <3> QED
      BY <1>0, <2>2, PublishedFields
  <2> HIDE DEF c, x
  <2>4. CASE ok
    <3>1. Keeps(b, x, ans, cmds)
      BY <2>3, <2>4, ShowsKeeps DEF Keeps
    <3>2. Keeps(b, c, ans, cmds) /\ Stays(x, c) /\ c.failed = FALSE
      BY <2>1, <3>1, KeepsStays
    <3>3. /\ x.notices = b.notices /\ x.resync = b.resync /\ x.dirty = FALSE /\ x.channel = b.channel
          /\ x.nextRev = b.nextRev + 1
      BY <2>3, <2>4 DEF Shows, Transmits
    <3> QED
      BY <3>2, <3>3 DEF Stays, SameStream, SameQueue, SameView, c
  <2>5. CASE ~ok
    <3>1. Keeps(b, x, ans, cmds)
      BY <2>3, <2>5, RefusesKeeps DEF Keeps
    <3>2. Keeps(b, c, ans, cmds) /\ Stays(x, c) /\ c.failed = FALSE
      BY <2>1, <3>1, KeepsStays
    <3>3. x.notices = b.notices /\ x.resync = b.resync /\ x.dirty = b.dirty /\ x.inFlight = NoFrame
      BY <2>3, <2>5 DEF Refuses, SameQueue, SameView
    <3> QED
      BY <2>5, <3>2, <3>3 DEF Stays, SameStream, SameQueue, SameView, c
  <2> QED
    BY <2>4, <2>5
<1> QED
  BY <1>1, <1>2, <1>3

LEMMA SendFrontKeeps ==
    ASSUME NEW b, NEW ok \in BOOLEAN, NEW ans, NEW cmds, Environment,
           BridgeFacts(b, epoch, published, ans, cmds), b.channel # 0, b.inFlight = NoFrame,
           b.notices # <<>>, ~Head(b.notices).wait
    PROVE  LET c == SendFront(b, ok) IN
           /\ Keeps(b, c, ans, cmds) /\ c.resync = b.resync
           /\ c.nextRev = b.nextRev + 1
<1> DEFINE c == SendFront(b, ok)
           n == Head(b.notices)
           x == Send(b, NoticeFrame(n), ok)
           g == [NoticeFrame(n) EXCEPT !.rev = b.nextRev]
           t == Tail(b.notices)
<1>0. BridgeTypeOK(b)
  BY DEF BridgeFacts
<1>1. /\ IsBridge(x) /\ x.failed = ~ok
      /\ ok => /\ SameQueue(b, x) /\ SameView(b, x) /\ Kept(b, x) /\ x.last = b.last
               /\ x.channel = b.channel /\ x.nextRev = b.nextRev + 1
               /\ x.inFlight = g
               /\ x.wire = IF b.channel = epoch THEN Append(b.wire, x.inFlight) ELSE b.wire
      /\ ~ok => Refuses(b, x)
  BY <1>0, SendFields
<1>2. g.rev = b.nextRev /\ g.kind = "notice" /\ g.notice = n
  BY NoticeFrameFields
<1> HIDE DEF g
<1>3. CASE ok
  <2>1. c = [x EXCEPT !.notices = Tail(x.notices)]
    BY <1>1, <1>3 DEF SendFront
  <2>2. x.notices = b.notices
    BY <1>1, <1>3 DEF SameQueue
  <2>3. c = [x EXCEPT !.notices = t]
    BY <2>1, <2>2
  <2> HIDE DEF c, x, n, t
  <2>4. /\ Kept(x, c) /\ c.notices = t /\ c.last = x.last /\ SameView(x, c) /\ c.resync = x.resync
        /\ c.channel = x.channel /\ c.nextRev = x.nextRev /\ c.inFlight = x.inFlight /\ c.wire = x.wire
    BY <1>1, <1>3, <2>3 DEF IsBridge, Kept, SameView
  <2>5. Transmits(b, c, g, epoch)
    BY <1>1, <1>2, <1>3, <2>4 DEF Transmits
  <2>6. Announces(b, c, g, epoch)
    BY <1>1, <1>2, <1>3, <2>4, <2>5 DEF Announces, Kept, SameView, SameQueue, n, t
  <2>7. Keeps(b, c, ans, cmds)
    BY <2>6, AnnouncesKeeps DEF Keeps
  <2> QED
    BY <2>6, <2>7 DEF Announces, Transmits, c
<1>4. CASE ~ok
  <2>1. c = x
    BY <1>1, <1>4 DEF SendFront
  <2>2. Keeps(b, x, ans, cmds)
    BY <1>1, <1>4, RefusesKeeps DEF Keeps
  <2> QED
    BY <1>1, <1>4, <2>1, <2>2 DEF Refuses, SameQueue
<1> QED
  BY <1>3, <1>4

LEMMA SendResynchronizationKeeps ==
    ASSUME NEW b, NEW ok \in BOOLEAN, NEW ans, NEW cmds, Environment, 0 \notin cmds, cmds \subseteq Nat,
           BridgeFacts(b, epoch, published, ans, cmds), b.channel # 0, b.inFlight = NoFrame, b.resync # 0
    PROVE  LET c == SendResynchronization(b, ok) IN
           /\ Keeps(b, c, ans, cmds)
           /\ c.failed => c.resync = b.resync
           /\ Representable => c.nextRev = b.nextRev + 1
<1> DEFINE c == SendResynchronization(b, ok)
           f == SnapshotFrame(b, "resynchronization")
           x == Send(b, f, ok)
           y == Published(b, x)
           z == [y EXCEPT !.resync = 0]
           n == Notice("Committed", b.resync)
<1>0. BridgeTypeOK(b)
  BY DEF BridgeFacts
<1>1. CASE ~Representable
  <2>1. c = [b EXCEPT !.failed = TRUE]
    BY <1>1 DEF SendResynchronization
  <2>2. Stays(b, c)
    BY <1>0, <2>1, FailedOnly
  <2>3. Keeps(b, c, ans, cmds)
    BY <2>2, StaysKeeps DEF Keeps
  <2> QED
    BY <1>1, <2>2, <2>3 DEF Stays, SameQueue
<1>2. CASE Representable
  <2>1. LET g == [f EXCEPT !.rev = b.nextRev] IN g.rev = b.nextRev /\ IsProjection(b, g, Snapshot(b))
    BY SnapshotFrameFields
  <2>2. /\ y.failed = ~ok
        /\ ok => Shows(b, y, [f EXCEPT !.rev = b.nextRev], epoch, Snapshot(b)) /\ y.resync = b.resync
        /\ ~ok => Refuses(b, y)
    <3> HIDE DEF f
    <3> QED
      BY <1>0, <2>1, PublishedFields
  <2>3. x.failed = ~ok /\ (~ok => Refuses(b, x))
    BY <1>0, SendFields
  <2>4. c = IF x.failed THEN x ELSE QueueNotice(z, n)
    BY <1>2 DEF SendResynchronization
  <2> HIDE DEF c, x, y, f
  <2>5. CASE ~ok
    <3>1. Keeps(b, x, ans, cmds)
      BY <2>3, <2>5, RefusesKeeps DEF Keeps
    <3> QED
      BY <2>3, <2>4, <2>5, <3>1 DEF Refuses, SameQueue, c
  <2>6. CASE ok
    <3> DEFINE g == [f EXCEPT !.rev = b.nextRev]
    <3>1. Shows(b, z, g, epoch, Snapshot(b)) /\ z.resync = 0 /\ z.failed = y.failed
      <4>1. Shows(b, y, g, epoch, Snapshot(b))
        BY <2>2, <2>6
      <4> HIDE DEF g
      <4>2. /\ Kept(y, z) /\ z.notices = y.notices /\ z.last = y.last /\ z.resync = 0
            /\ z.unseen = y.unseen /\ z.generation = y.generation /\ z.dirty = y.dirty
            /\ z.channel = y.channel /\ z.nextRev = y.nextRev /\ z.inFlight = y.inFlight /\ z.wire = y.wire
            /\ z.failed = y.failed
        <5>1. IsBridge(y) /\ y.failed \in BOOLEAN
          BY <4>1 DEF Shows, Kept
        <5>2. z = [y EXCEPT !.resync = 0]
          OBVIOUS
        <5> HIDE DEF z
        <5> QED
          BY <5>1, <5>2 DEF IsBridge, Kept
      <4> HIDE DEF z
      <4>3. Transmits(b, z, g, epoch)
        BY <4>1, <4>2 DEF Shows, Transmits
      <4> QED
        BY <4>1, <4>2, <4>3 DEF Shows, Kept
    <3> HIDE DEF z, g
    <3>2. /\ BridgeFacts(z, epoch, published, ans, cmds) /\ Leads(b, z)
          /\ \A id : TerminalNoticeOutstanding(b, id) => TerminalNoticeOutstanding(z, id)
      BY <3>1, ShowsKeeps
    <3>3. /\ z.notices = b.notices /\ z.inFlight.kind # "notice" /\ Kept(b, z) /\ z.nextRev = b.nextRev + 1
      BY <3>1 DEF Shows, Transmits, IsProjection
    <3>n. n.kind = "Committed" /\ n.id = b.resync /\ Terminal(n) = b.resync
      BY DEF Notice, Terminal
    <3> HIDE DEF n
    <3>4. Admissible(z, n, ans, cmds)
      <4>1. ~b.started
        BY DEF BridgeFacts, ShutdownOK
      <4>2. Open(z)
        BY <3>3, <4>1 DEF Open, InFlightNotice, BridgeFacts, ShutdownOK, Kept, Closing
      <4>3. ~TerminalNoticeOutstanding(z, b.resync)
        <5>1. \A i \in DOMAIN b.notices : EntryOK(b, b.notices[i]) /\ b.notices[i].id # b.resync
          BY DEF BridgeFacts, QueueOK
        <5>2. \A i \in DOMAIN b.notices : b.notices[i].terminal # b.resync
          BY <5>1 DEF EntryOK
        <5> QED
          BY <3>3, <5>2 DEF TerminalNoticeOutstanding
      <4>4. b.resync \in z.pending /\ b.resync \notin cmds
        BY <3>3 DEF BridgeFacts, QueueOK, CoverOK, Kept
      <4> QED
        BY <3>1, <3>n, <4>2, <4>3, <4>4 DEF Admissible, Answers
    <3>5. /\ BridgeFacts(c, epoch, published, ans, cmds) /\ Retains(z, c) /\ ~c.failed
          /\ Kept(z, c) /\ SameStream(z, c) /\ SameView(z, c) /\ c.resync = z.resync
          /\ \A id \in Nat \ {0} : TerminalNoticeOutstanding(c, id) =>
                 TerminalNoticeOutstanding(z, id) \/ id = Terminal(n)
          /\ TerminalNoticeOutstanding(c, Terminal(n))
      <4>1. c = QueueNotice(z, n)
        BY <2>3, <2>4, <2>6
      <4>2. n.kind \notin Authentication
        BY <3>n DEF Authentication
      <4> QED
        BY <3>2, <3>4, <4>1, <4>2, QueueNoticeKeeps
    <3>6. Leads(b, c)
      <4>1. Sends(b, c)
        BY <3>2, <3>5 DEF Leads, Sends, SameStream, Transmits
      <4>2. Kept(b, c) /\ c.resync \in {b.resync, 0}
        BY <3>1, <3>3, <3>5 DEF Kept
      <4>3. \A id \in Nat \ {0} : TerminalNoticeOutstanding(c, id) =>
              TerminalNoticeOutstanding(b, id) \/ id = b.resync
        BY <3>2, <3>5, <3>n DEF Leads
      <4> QED
        BY <4>1, <4>2, <4>3 DEF Leads
    <3>7. Retains(b, c)
      BY <3>2, <3>5, <3>n DEF Retains
    <3> QED
      BY <3>3, <3>5, <3>6, <3>7 DEF Keeps, SameStream, c
  <2> QED
    BY <2>5, <2>6
<1> QED
  BY <1>1, <1>2

LEMMA RevisionGrows ==
    ASSUME NEW b, NEW c, BridgeTypeOK(b), Leads(b, c)
    PROVE  c.nextRev \in Nat /\ b.nextRev \in Nat /\ b.nextRev <= c.nextRev
BY DEF BridgeTypeOK, Leads, Sends, SameStream, Transmits

LEMMA ReadyKeeps ==
    ASSUME NEW b, NEW ans, NEW cmds, Environment,
           BridgeFacts(b, epoch, published, ans, cmds), b.notices # <<>>, ~b.dirty
    PROVE  LET c == Ready(b) IN
           /\ Keeps(b, c, ans, cmds) /\ SameStream(b, c) /\ c.resync = b.resync /\ c.failed = b.failed
           /\ c.notices # <<>> /\ ~Head(c.notices).wait
<1> DEFINE c == Ready(b)
           s == b.notices
           q == [s EXCEPT ![1].wait = FALSE]
<1>0. BridgeTypeOK(b) /\ IsBridge(b) /\ s \in Seq(Entries) /\ s # <<>>
  BY DEF BridgeFacts, BridgeTypeOK
<1>1. c = [b EXCEPT !.notices = q]
  BY DEF Ready
<1>2. ReadiesFront(b, c) /\ c.failed = b.failed
  <2> HIDE DEF c, q
  <2>1. /\ IsBridge(c) /\ c.failed = b.failed /\ c.notices = q
        /\ Kept(b, c) /\ SameStream(b, c) /\ SameView(b, c) /\ c.resync = b.resync
    BY <1>0, <1>1 DEF BridgeTypeOK, IsBridge, Kept, SameStream, SameView
  <2> QED
    BY <2>1 DEF ReadiesFront, q
<1>3. Keeps(b, c, ans, cmds)
  BY <1>2, ReadiesFrontKeeps DEF Keeps
<1>4. c.notices = q
  BY <1>2 DEF ReadiesFront
<1>5. q # <<>> /\ ~Head(q).wait
  <2>1. s[1] \in Entries /\ 1 \in DOMAIN s /\ DOMAIN s = 1 .. Len(s)
    BY <1>0
  <2>2. [s[1] EXCEPT !.wait = FALSE].wait = FALSE
    BY <2>1 DEF Entries
  <2>3. [s[1] EXCEPT !.wait = FALSE] \in Entries
    BY <2>1 DEF Entries
  <2>4. q = [s EXCEPT ![1] = [s[1] EXCEPT !.wait = FALSE]]
    OBVIOUS
  <2>5. q \in Seq(Entries) /\ Len(q) = Len(s) /\ q[1] = [s[1] EXCEPT !.wait = FALSE]
    BY <1>0, <2>1, <2>3, <2>4
  <2>6. q # <<>>
    BY <1>0, <2>5, EmptyLength
  <2>7. q[1].wait = FALSE
    BY <2>2, <2>5
  <2> HIDE DEF q
  <2>8. Head(q) = q[1]
    BY <2>5, <2>6
  <2> QED
    BY <2>6, <2>7, <2>8
<1> QED
  BY <1>2, <1>3, <1>4, <1>5 DEF ReadiesFront

LEMMA SendAfterProjectionKeeps ==
    ASSUME NEW b, NEW ok \in BOOLEAN, NEW ans, NEW cmds, Environment, 0 \notin cmds,
           BridgeFacts(b, epoch, published, ans, cmds), b.channel # 0, b.inFlight = NoFrame, ~b.failed,
           b.notices # <<>>
    PROVE  LET c == SendAfterProjection(b, ok) IN
           /\ Keeps(b, c, ans, cmds) /\ c.resync = b.resync
           /\ Representable /\ ok => c.nextRev > b.nextRev
<1> DEFINE c == SendAfterProjection(b, ok)
           x == IF b.dirty THEN PublishProjection(b, ok) ELSE b
           y == Ready(x)
<1>0. BridgeTypeOK(b)
  BY DEF BridgeFacts
<1>1. /\ Keeps(b, x, ans, cmds) /\ ~x.failed /\ x.notices = b.notices /\ x.resync = b.resync
      /\ ~x.dirty => x.channel = b.channel
      /\ x.inFlight # NoFrame => x.nextRev = b.nextRev + 1
      /\ Representable /\ ok => ~x.dirty
  <2>1. CASE b.dirty
    BY <2>1, PublishProjectionKeeps
  <2>2. CASE ~b.dirty
    <3>1. Keeps(b, b, ans, cmds)
      BY <1>0, SelfStays, StaysKeeps DEF Keeps
    <3> QED
      BY <2>2, <3>1
  <2> QED
    BY <2>1, <2>2
<1>2. c = IF x.dirty THEN x ELSE IF x.inFlight # NoFrame THEN y ELSE SendFront(y, ok)
  BY DEF SendAfterProjection
<1> HIDE DEF c, x
<1>3. CASE x.dirty
  BY <1>1, <1>2, <1>3 DEF c
<1>4. CASE ~x.dirty
  <2>1. /\ Keeps(x, y, ans, cmds) /\ SameStream(x, y) /\ y.resync = x.resync /\ y.failed = x.failed
        /\ y.notices # <<>> /\ ~Head(y.notices).wait
    BY <1>1, <1>4, ReadyKeeps DEF Keeps
  <2>2. Keeps(b, y, ans, cmds)
    BY <1>0, <1>1, <2>1, KeepsTransitive
  <2> HIDE DEF y
  <2>3. CASE x.inFlight # NoFrame
    <3>1. y.nextRev = b.nextRev + 1 /\ b.nextRev \in Nat
      BY <1>0, <1>1, <2>1, <2>3 DEF SameStream, BridgeTypeOK
    <3>2. c = y
      BY <1>2, <1>4, <2>3
    <3> QED
      BY <1>1, <2>1, <2>2, <3>1, <3>2 DEF c
  <2>4. CASE x.inFlight = NoFrame
    <3>1. y.channel # 0 /\ y.inFlight = NoFrame /\ BridgeFacts(y, epoch, published, ans, cmds)
      BY <1>1, <1>4, <2>1, <2>4 DEF SameStream, Keeps
    <3>2. c = SendFront(y, ok)
      BY <1>2, <1>4, <2>4
    <3>3. Keeps(y, c, ans, cmds) /\ c.resync = y.resync /\ c.nextRev = y.nextRev + 1
      BY <2>1, <3>1, <3>2, SendFrontKeeps
    <3>4. Keeps(b, c, ans, cmds)
      BY <1>0, <2>2, <3>3, KeepsTransitive
    <3>5. y.nextRev \in Nat /\ b.nextRev \in Nat /\ b.nextRev <= y.nextRev
      BY <1>0, <2>2, RevisionGrows DEF Keeps
    <3> QED
      BY <1>1, <2>1, <3>3, <3>4, <3>5 DEF c
  <2> QED
    BY <2>3, <2>4
<1> QED
  BY <1>3, <1>4

LEMMA PumpKeeps ==
    ASSUME NEW b, NEW ok \in BOOLEAN, NEW ans, NEW cmds, Environment, 0 \notin cmds, cmds \subseteq Nat,
           BridgeFacts(b, epoch, published, ans, cmds)
    PROVE  LET c == Pump(b, ok) IN
           /\ Keeps(b, c, ans, cmds)
           /\ c.failed => c.resync = b.resync
           /\ Representable /\ ok /\ b.channel # 0 /\ b.inFlight = NoFrame =>
                 /\ b.resync # 0 \/ b.notices # <<>> => c.nextRev > b.nextRev
                 /\ b.resync = 0 /\ b.notices = <<>> => ~c.dirty
<1> DEFINE c == Pump(b, ok)
           x == [b EXCEPT !.failed = FALSE]
<1>0. BridgeTypeOK(b)
  BY DEF BridgeFacts
<1>1. Stays(b, x) /\ x.failed = FALSE /\ BridgeTypeOK(x)
  BY <1>0, FailedOnly
<1>2. Keeps(b, x, ans, cmds)
  BY <1>1, StaysKeeps DEF Keeps
<1>3. /\ x.inFlight = b.inFlight /\ x.channel = b.channel /\ x.resync = b.resync /\ x.notices = b.notices
      /\ x.dirty = b.dirty /\ x.nextRev = b.nextRev /\ b.nextRev \in Nat
      /\ BridgeFacts(x, epoch, published, ans, cmds)
  BY <1>0, <1>1, <1>2 DEF Stays, SameStream, SameQueue, SameView, Keeps, BridgeTypeOK
<1>4. c = IF b.inFlight # NoFrame \/ b.channel = 0 THEN x
          ELSE IF b.resync # 0 THEN SendResynchronization(x, ok)
          ELSE IF b.notices # <<>>
               THEN IF Head(b.notices).wait THEN SendAfterProjection(x, ok) ELSE SendFront(x, ok)
          ELSE IF b.dirty THEN PublishProjection(x, ok)
          ELSE x
  BY DEF Pump
<1> HIDE DEF c, x
<1>5. CASE b.inFlight # NoFrame \/ b.channel = 0
  BY <1>2, <1>3, <1>4, <1>5 DEF c
<1>6. CASE b.inFlight = NoFrame /\ b.channel # 0 /\ b.resync # 0
  <2>1. /\ Keeps(x, c, ans, cmds)
        /\ c.failed => c.resync = x.resync
        /\ Representable => c.nextRev = x.nextRev + 1
    BY <1>3, <1>4, <1>6, SendResynchronizationKeeps
  <2>2. Keeps(b, c, ans, cmds)
    BY <1>0, <1>2, <2>1, KeepsTransitive
  <2> QED
    BY <1>3, <1>6, <2>1, <2>2 DEF c
<1>7. CASE b.inFlight = NoFrame /\ b.channel # 0 /\ b.resync = 0 /\ b.notices # <<>>
  <2>1. /\ Keeps(x, c, ans, cmds) /\ c.resync = x.resync
        /\ Representable /\ ok => c.nextRev > x.nextRev
    <3>1. CASE Head(b.notices).wait
      BY <1>1, <1>3, <1>4, <1>7, <3>1, SendAfterProjectionKeeps
    <3>2. CASE ~Head(b.notices).wait
      BY <1>3, <1>4, <1>7, <3>2, SendFrontKeeps
    <3> QED
      BY <3>1, <3>2
  <2>2. Keeps(b, c, ans, cmds)
    BY <1>0, <1>2, <2>1, KeepsTransitive
  <2> QED
    BY <1>3, <1>7, <2>1, <2>2 DEF c
<1>8. CASE b.inFlight = NoFrame /\ b.channel # 0 /\ b.resync = 0 /\ b.notices = <<>> /\ b.dirty
  <2>1. Keeps(x, c, ans, cmds) /\ c.resync = x.resync /\ (Representable /\ ok => ~c.dirty)
    BY <1>1, <1>3, <1>4, <1>8, PublishProjectionKeeps
  <2>2. Keeps(b, c, ans, cmds)
    BY <1>0, <1>2, <2>1, KeepsTransitive
  <2> QED
    BY <1>3, <1>8, <2>1, <2>2 DEF c
<1>9. CASE b.inFlight = NoFrame /\ b.channel # 0 /\ b.resync = 0 /\ b.notices = <<>> /\ ~b.dirty
  BY <1>2, <1>3, <1>4, <1>9 DEF c
<1> QED
  BY <1>5, <1>6, <1>7, <1>8, <1>9

LEMMA ObserveKeeps ==
    ASSUME NEW b, NEW seen, NEW ans, NEW cmds, Environment,
           BridgeFacts(b, epoch, published, ans, cmds)
    PROVE  LET c == Observe(b, seen) IN
           /\ Keeps(b, c, ans, cmds) /\ SameStream(b, c) /\ SameQueue(b, c) /\ c.failed = b.failed
           /\ (seen # {} => c.dirty) /\ c.unseen = b.unseen \ seen
<1> DEFINE c == Observe(b, seen)
           g == IF "catalog" \in seen THEN b.generation + 1 ELSE b.generation
           u == b.unseen \ seen
<1>0. BridgeTypeOK(b)
  BY DEF BridgeFacts
<1>1. CASE seen = {}
  <2>1. c = b
    BY <1>1 DEF Observe
  <2>2. Keeps(b, b, ans, cmds)
    BY <1>0, SelfStays, StaysKeeps DEF Keeps
  <2> QED
    BY <1>1, <2>1, <2>2 DEF SameStream, SameQueue
<1>2. CASE seen # {}
  <2>1. c = [b EXCEPT !.unseen = u, !.dirty = TRUE, !.generation = g]
    BY <1>2 DEF Observe
  <2>2. g \in Nat /\ u \subseteq b.unseen
    BY <1>0 DEF BridgeTypeOK
  <2> HIDE DEF c, g, u
  <2>3. /\ Kept(b, c) /\ SameStream(b, c) /\ SameQueue(b, c) /\ c.failed = b.failed
        /\ c.unseen = u /\ c.dirty = TRUE /\ c.generation = g
    BY <1>0, <2>1 DEF BridgeTypeOK, IsBridge, Kept, SameStream, SameQueue
  <2>4. Looks(b, c)
    BY <2>2, <2>3 DEF Looks
  <2>5. Keeps(b, c, ans, cmds)
    BY <2>4, LooksKeeps DEF Keeps
  <2> QED
    BY <2>3, <2>5 DEF c, u
<1> QED
  BY <1>1, <1>2

\* A notice the bridge may take next.
NoticeReady(b, n, ans, cmds) ==
    /\ n \in UiNotices /\ n.id # b.resync
    /\ n.kind = "BrowserOpened" => ~TerminalNoticeOutstanding(b, n.id)
    /\ n.id \in cmds => n.kind \in Answers /\ AnsweredBy(published, ans, n.id, Outcome(n))

\* Handling a notice keeps the facts, and settles a request that only it answers.
Handles(b, c, n, ans, cmds) ==
    /\ BridgeFacts(c, epoch, published, ans, cmds) /\ Kept(b, c) /\ Sends(b, c) /\ c.resync \in {b.resync, 0}
    /\ ~c.failed /\ Retains(b, c)
    /\ \A id \in Nat \ {0} : TerminalNoticeOutstanding(c, id) =>
          TerminalNoticeOutstanding(b, id) \/ id = b.resync \/ id = Terminal(n)
    /\ n.kind \in Answers /\ n.id \in b.pending => TerminalNoticeOutstanding(c, n.id)

LEMMA HandleNoticeKeeps ==
    ASSUME NEW b, NEW n, NEW ok \in BOOLEAN, NEW ans, NEW cmds, Environment, 0 \notin cmds, cmds \subseteq Nat,
           BridgeFacts(b, epoch, published, ans, cmds), ~b.started, NoticeReady(b, n, ans, cmds)
    PROVE  Handles(b, HandleNotice(b, n, ok), n, ans, cmds)
<1> DEFINE c == HandleNotice(b, n, ok)
           x == ObservePendingProjections(b)
           y == QueueNotice(x, n)
           z == Pump(y, ok)
<1>0. BridgeTypeOK(b) /\ n.id \in Nat \ {0} /\ n.kind \in Authentication \cup Answers
  BY DEF BridgeFacts, NoticeReady, UiNotices
<1>t. Terminal(n) = (IF n.kind = "BrowserOpened" THEN 0 ELSE n.id)
  BY <1>0 DEF Terminal, Authentication, Answers
<1>1. CASE n.id \notin b.pending \/ (Terminal(n) # 0 /\ TerminalNoticeOutstanding(b, n.id))
  <2>1. c = [b EXCEPT !.failed = FALSE]
    BY <1>1 DEF HandleNotice
  <2> HIDE DEF c
  <2>2. Stays(b, c) /\ c.failed = FALSE
    BY <1>0, <2>1, FailedOnly
  <2>3. BridgeFacts(c, epoch, published, ans, cmds) /\ Leads(b, c) /\ Retains(b, c)
    BY <2>2, StaysKeeps
  <2>4. n.kind \in Answers /\ n.id \in b.pending => TerminalNoticeOutstanding(c, n.id)
    <3>1. n.kind \in Answers /\ n.id \in b.pending => TerminalNoticeOutstanding(b, n.id)
      BY <1>1 DEF Answers
    <3> QED
      BY <2>2, <3>1 DEF Stays, SameStream, SameQueue, TerminalNoticeOutstanding
  <2> QED
    BY <2>2, <2>3, <2>4 DEF Handles, Leads, c
<1>2. CASE n.id \in b.pending /\ ~(Terminal(n) # 0 /\ TerminalNoticeOutstanding(b, n.id))
  <2>1. c = IF y.failed THEN y ELSE [z EXCEPT !.failed = FALSE]
    BY <1>2 DEF HandleNotice
  <2>2. /\ Keeps(b, x, ans, cmds) /\ SameStream(b, x) /\ SameQueue(b, x) /\ (x.dirty \/ x.unseen = {})
    BY ObserveKeeps DEF ObservePendingProjections
  <2>o. \A id : TerminalNoticeOutstanding(b, id) <=> TerminalNoticeOutstanding(x, id)
    BY <2>2 DEF SameStream, SameQueue, TerminalNoticeOutstanding
  <2>k. Kept(b, x) /\ BridgeFacts(x, epoch, published, ans, cmds)
    BY <2>2 DEF Keeps, Leads
  <2> HIDE DEF c, x
  <2>3. Admissible(x, n, ans, cmds)
    <3>1. Open(x)
      BY <2>k DEF Open, Kept, BridgeFacts, ShutdownOK, Closing
    <3>2. ~TerminalNoticeOutstanding(x, n.id)
      BY <1>0, <1>2, <1>t, <2>o DEF NoticeReady
    <3>3. n.id \in x.pending /\ n.id # x.resync
      BY <1>2, <2>2, <2>k DEF Kept, SameQueue, NoticeReady
    <3> QED
      BY <1>0, <2>2, <3>1, <3>2, <3>3 DEF Admissible, NoticeReady
  <2>4. /\ BridgeFacts(y, epoch, published, ans, cmds) /\ Retains(x, y) /\ ~y.failed
        /\ Kept(x, y) /\ SameStream(x, y) /\ y.resync = x.resync
        /\ \A id \in Nat \ {0} : TerminalNoticeOutstanding(y, id) =>
              TerminalNoticeOutstanding(x, id) \/ id = Terminal(n)
        /\ n.kind \notin Authentication => TerminalNoticeOutstanding(y, Terminal(n))
    BY <2>k, <2>3, QueueNoticeKeeps
  <2> HIDE DEF y
  <2>5. Keeps(y, z, ans, cmds)
    BY <2>4, PumpKeeps
  <2> HIDE DEF z
  <2>6. Keeps(y, c, ans, cmds) /\ c.failed = FALSE
    <3>1. c = [z EXCEPT !.failed = FALSE]
      BY <2>1, <2>4
    <3> QED
      BY <2>5, <3>1, KeepsStays
  <2>7. Kept(b, c) /\ c.resync \in {b.resync, 0}
    BY <2>k, <2>2, <2>4, <2>6 DEF Keeps, Leads, Kept, SameQueue
  <2>8. Sends(b, c)
    <3>1. SameStream(b, y)
      BY <2>2, <2>4 DEF SameStream
    <3> QED
      BY <2>6, <3>1 DEF Keeps, Leads, Sends, SameStream, Transmits
  <2>9. \A id \in Nat \ {0} : TerminalNoticeOutstanding(c, id) =>
          TerminalNoticeOutstanding(b, id) \/ id = b.resync \/ id = Terminal(n)
    BY <2>o, <2>2, <2>4, <2>6 DEF Keeps, Leads, SameQueue
  <2>10. Retains(b, c)
    BY <2>2, <2>4, <2>6 DEF Keeps, Retains
  <2>11. n.kind \in Answers /\ n.id \in b.pending => TerminalNoticeOutstanding(c, n.id)
    <3> SUFFICES ASSUME n.kind \in Answers PROVE TerminalNoticeOutstanding(c, n.id)
      OBVIOUS
    <3>1. TerminalNoticeOutstanding(y, n.id)
      BY <1>t, <2>4 DEF Answers, Authentication
    <3>2. c.resync = n.id \/ TerminalNoticeOutstanding(c, n.id)
      BY <1>0, <2>6, <3>1 DEF Keeps, Retains
    <3> QED
      BY <1>0, <2>7, <3>2 DEF NoticeReady
  <2> QED
    BY <2>6, <2>7, <2>8, <2>9, <2>10, <2>11 DEF Handles, Keeps, c
<1> QED
  BY <1>1, <1>2

LEMMA LeastExists ==
    ASSUME NEW T \in SUBSET Nat, T # {}
    PROVE  \E n \in T : \A m \in T : n <= m
<1>1. PICK n \in T : \A m \in T : ~(<<m, n>> \in OpToRel(<, Nat))
  BY NatLessThanWellFounded, WFMin
<1>2. \A m \in T : <<m, n>> \in Nat \X Nat
  OBVIOUS
<1>3. \A m \in T : ~(m < n)
  BY <1>1, <1>2 DEF OpToRel
<1> QED
  BY <1>3

\* The states that draining passes through.
LEMMA DrainRuns ==
    ASSUME NEW b, NEW ok, Len(uiNotices) \in Nat
    PROVE  \E f : /\ f[0] = b
                  /\ \A n \in 1 .. Len(uiNotices) :
                        f[n] = IF f[n - 1].failed THEN f[n - 1] ELSE HandleNotice(f[n - 1], uiNotices[n], ok)
                  /\ DrainAvailableNotices(b, ok) = f[Len(uiNotices)]
<1> DEFINE N == Len(uiNotices)
           G(x, n) == IF x.failed THEN x ELSE HandleNotice(x, uiNotices[n], ok)
           F(f, m) == [n \in 0 .. m |-> IF n = 0 THEN b ELSE G(f[n - 1], n)]
           T == {m \in 0 .. N : ~ \E f : f = F(f, m)}
           r == CHOOSE f : f = F(f, N)
<1>1. DrainAvailableNotices(b, ok) = r[N]
  BY DEF DrainAvailableNotices
<1> HIDE DEF G, r
<1>2. T = {}
  <2> SUFFICES ASSUME T # {} PROVE FALSE
    OBVIOUS
  <2>0. T \in SUBSET Nat
    OBVIOUS
  <2>1. PICK m \in T : \A k \in T : m <= k
    <3> HIDE DEF T
    <3> QED
      BY <2>0, LeastExists
  <2>2. m \in 0 .. N /\ ~ \E f : f = F(f, m)
    OBVIOUS
  <2>3. CASE m = 0
    <3>1. [n \in 0 .. 0 |-> b] = F([n \in 0 .. 0 |-> b], 0)
      OBVIOUS
    <3> QED
      BY <2>2, <2>3, <3>1
  <2>4. CASE m # 0
    <3>1. m - 1 \in 0 .. N /\ m - 1 \notin T
      BY <2>1, <2>2, <2>4
    <3>2. PICK f : f = F(f, m - 1)
      BY <3>1
    <3> DEFINE g == [n \in 0 .. m |-> IF n = m THEN G(f[m - 1], m) ELSE f[n]]
    <3>3. \A n \in 0 .. m - 1 : f[n] = IF n = 0 THEN b ELSE G(f[n - 1], n)
      BY <3>2
    <3>4. ASSUME NEW n \in 0 .. m PROVE g[n] = IF n = 0 THEN b ELSE G(g[n - 1], n)
      <4>1. CASE n = m
        <5>1. m - 1 \in 0 .. m /\ m - 1 # m
          BY <2>2, <2>4
        <5>2. g[m - 1] = f[m - 1] /\ g[m] = G(f[m - 1], m)
          BY <2>2, <5>1
        <5> QED
          BY <2>4, <4>1, <5>2
      <4>2. CASE n # m
        <5>1. n \in 0 .. m - 1 /\ g[n] = f[n]
          BY <2>2, <4>2
        <5>2. n # 0 => n - 1 \in 0 .. m /\ n - 1 # m /\ g[n - 1] = f[n - 1]
          BY <2>2, <5>1
        <5> QED
          BY <3>3, <5>1, <5>2
      <4> QED
        BY <4>1, <4>2
    <3>5. g = F(g, m)
      <4> HIDE DEF g
      <4>1. \A n \in 0 .. m : g[n] = F(g, m)[n]
        BY <3>4
      <4>2. g = [n \in 0 .. m |-> g[n]]
        BY DEF g
      <4> QED
        BY <4>1, <4>2
    <3> QED
      BY <2>2, <3>5
  <2> QED
    BY <2>3, <2>4
<1>3. \E f : f = F(f, N)
  BY <1>2
<1>4. r = F(r, N)
  BY <1>3 DEF r
<1>5. \A n \in 0 .. N : r[n] = IF n = 0 THEN b ELSE G(r[n - 1], n)
  BY <1>4
<1>6. r[0] = b /\ \A n \in 1 .. N : r[n] = G(r[n - 1], n)
  BY <1>5
<1> QED
  BY <1>1, <1>6 DEF G

NoticesReady(b, ans, cmds) ==
    /\ uiNotices \in Seq(UiNotices)
    /\ \A k \in DOMAIN uiNotices :
          /\ uiNotices[k].id # b.resync
          /\ uiNotices[k].kind = "BrowserOpened" =>
                /\ ~TerminalNoticeOutstanding(b, uiNotices[k].id)
                /\ \A j \in 1 .. k - 1 : Terminal(uiNotices[j]) # uiNotices[k].id
          /\ uiNotices[k].id \in cmds =>
                uiNotices[k].kind \in Answers /\ AnsweredBy(published, ans, uiNotices[k].id, Outcome(uiNotices[k]))

\* What draining the first n notices leaves.
Drains(b, c, n, ans, cmds) ==
    /\ BridgeFacts(c, epoch, published, ans, cmds) /\ Kept(b, c) /\ Sends(b, c) /\ c.resync \in {b.resync, 0}
    /\ ~c.failed
    /\ \A id \in Nat \ {0} : TerminalNoticeOutstanding(c, id) =>
          \/ TerminalNoticeOutstanding(b, id) \/ id = b.resync
          \/ \E j \in 1 .. n : Terminal(uiNotices[j]) = id

LEMMA SendsTransitive ==
    ASSUME NEW b, NEW c, NEW d, BridgeTypeOK(b), BridgeTypeOK(c), Sends(b, c), Sends(c, d)
    PROVE  Sends(b, d)
<1>1. CASE SameStream(b, c)
  BY <1>1 DEF Sends, SameStream, Transmits
<1>2. CASE ~SameStream(b, c)
  <2>1. c.channel = 0 \/ c.inFlight # NoFrame
    BY <1>2 DEF Sends, Transmits, NoFrame, BridgeTypeOK
  <2>2. SameStream(c, d)
    BY <2>1 DEF Sends, Transmits
  <2> QED
    BY <1>2, <2>2 DEF Sends, SameStream, Transmits
<1> QED
  BY <1>1, <1>2

LEMMA DrainKeeps ==
    ASSUME NEW b, NEW ok \in BOOLEAN, NEW ans, NEW cmds, Environment, 0 \notin cmds, cmds \subseteq Nat,
           BridgeFacts(b, epoch, published, ans, cmds), ~b.started, ~b.failed, NoticesReady(b, ans, cmds)
    PROVE  Drains(b, DrainAvailableNotices(b, ok), Len(uiNotices), ans, cmds)
<1> DEFINE N == Len(uiNotices)
<1>0. N \in Nat /\ DOMAIN uiNotices = 1 .. N /\ BridgeTypeOK(b)
  BY DEF NoticesReady, BridgeFacts
<1>1. PICK f : /\ f[0] = b
               /\ \A n \in 1 .. N : f[n] = IF f[n - 1].failed THEN f[n - 1] ELSE HandleNotice(f[n - 1], uiNotices[n], ok)
               /\ DrainAvailableNotices(b, ok) = f[N]
  BY <1>0, DrainRuns
<1> DEFINE T == {m \in 0 .. N : ~Drains(b, f[m], m, ans, cmds)}
<1>2. T = {}
  <2> SUFFICES ASSUME T # {} PROVE FALSE
    OBVIOUS
  <2>0. T \in SUBSET Nat
    OBVIOUS
  <2>1. PICK m \in T : \A k \in T : m <= k
    <3> HIDE DEF T
    <3> QED
      BY <2>0, LeastExists
  <2>2. m \in 0 .. N /\ ~Drains(b, f[m], m, ans, cmds)
    OBVIOUS
  <2>3. CASE m = 0
    <3>1. Stays(b, b)
      BY <1>0, SelfStays
    <3>2. BridgeFacts(b, epoch, published, ans, cmds) /\ Leads(b, b)
      BY <3>1, StaysKeeps
    <3>3. Drains(b, b, 0, ans, cmds)
      BY <3>2 DEF Drains, Leads
    <3> QED
      BY <1>1, <2>2, <2>3, <3>3
  <2>4. CASE m # 0
    <3> DEFINE c == f[m - 1]
               n == uiNotices[m]
               d == HandleNotice(c, n, ok)
    <3>1. m - 1 \in 0 .. N /\ m - 1 \notin T /\ m \in 1 .. N /\ m \in Nat
      BY <1>0, <2>1, <2>2, <2>4
    <3>2. Drains(b, c, m - 1, ans, cmds)
      BY <3>1
    <3>3. f[m] = d
      BY <1>1, <3>1, <3>2 DEF Drains
    <3> HIDE DEF c, T
    <3>n. n \in UiNotices
      BY <1>0, <3>1 DEF NoticesReady
    <3>4. NoticeReady(c, n, ans, cmds)
      <4>1. n.id # c.resync
        BY <1>0, <3>1, <3>2, <3>n DEF Drains, NoticesReady, UiNotices
      <4>2. n.kind = "BrowserOpened" => ~TerminalNoticeOutstanding(c, n.id)
        <5>1. n.id \in Nat \ {0}
          BY <3>n DEF UiNotices
        <5> QED
          BY <1>0, <3>1, <3>2, <5>1 DEF Drains, NoticesReady
      <4>3. n.id \in cmds => n.kind \in Answers /\ AnsweredBy(published, ans, n.id, Outcome(n))
        BY <1>0, <3>1 DEF NoticesReady
      <4> QED
        BY <3>n, <4>1, <4>2, <4>3 DEF NoticeReady
    <3>5. Handles(c, d, n, ans, cmds)
      <4>1. BridgeFacts(c, epoch, published, ans, cmds) /\ ~c.started
        BY <3>2 DEF Drains, Kept
      <4> QED
        BY <3>4, <4>1, HandleNoticeKeeps
    <3> HIDE DEF d
    <3>6. Sends(b, d)
      BY <1>0, <3>2, <3>5, SendsTransitive DEF Drains, Handles, BridgeFacts
    <3>7. Kept(b, d) /\ d.resync \in {b.resync, 0}
      BY <3>2, <3>5 DEF Drains, Handles, Kept
    <3>8. ASSUME NEW id \in Nat \ {0}, TerminalNoticeOutstanding(d, id)
          PROVE  \/ TerminalNoticeOutstanding(b, id) \/ id = b.resync
                 \/ \E j \in 1 .. m : Terminal(uiNotices[j]) = id
      <4>1. TerminalNoticeOutstanding(c, id) \/ id = c.resync \/ id = Terminal(n)
        BY <3>5, <3>8 DEF Handles
      <4>2. CASE TerminalNoticeOutstanding(c, id)
        <5>1. \/ TerminalNoticeOutstanding(b, id) \/ id = b.resync
              \/ \E j \in 1 .. m - 1 : Terminal(uiNotices[j]) = id
          BY <3>2, <4>2 DEF Drains
        <5>2. \A j \in 1 .. m - 1 : j \in 1 .. m
          BY <3>1
        <5> QED
          BY <5>1, <5>2
      <4>3. CASE id = c.resync
        BY <3>2, <4>3 DEF Drains
      <4>4. CASE id = Terminal(n)
        <5>1. m \in 1 .. m
          BY <3>1
        <5> QED
          BY <4>4, <5>1
      <4> QED
        BY <4>1, <4>2, <4>3, <4>4
    <3>9. Drains(b, d, m, ans, cmds)
      BY <3>5, <3>6, <3>7, <3>8 DEF Drains, Handles
    <3> QED
      BY <2>2, <3>3, <3>9
  <2> QED
    BY <2>3, <2>4
<1>3. N \in 0 .. N
  BY <1>0
<1> QED
  BY <1>1, <1>2, <1>3

LEMMA OutstandingIsPending ==
    ASSUME NEW b, NEW id \in Nat \ {0}, QueueOK(b), TerminalNoticeOutstanding(b, id)
    PROVE  id \in b.pending
<1>1. CASE \E i \in DOMAIN b.notices : b.notices[i].terminal = id
  <2>1. PICK i \in DOMAIN b.notices : b.notices[i].terminal = id
    BY <1>1
  <2>2. EntryOK(b, b.notices[i])
    BY DEF QueueOK
  <2> QED
    BY <2>1, <2>2 DEF EntryOK
<1>2. CASE InFlightNotice(b) /\ b.inFlight.notice.terminal = id
  <2>1. EntryOK(b, b.inFlight.notice)
    BY <1>2 DEF QueueOK
  <2> QED
    BY <1>2, <2>1 DEF EntryOK
<1> QED
  BY <1>1, <1>2 DEF TerminalNoticeOutstanding, InFlightNotice

\* Shutdown has begun, and its own request, if any, has joined the pending ones.
Begins(b, c, pending) ==
    /\ IsBridge(c) /\ c.failed \in BOOLEAN /\ SameStream(b, c)
    /\ c.nextId = b.nextId /\ c.readyAcked = b.readyAcked /\ c.exited = b.exited /\ c.overflow = b.overflow
    /\ c.notices = b.notices /\ c.unseen = b.unseen /\ c.generation = b.generation
    /\ c.token = TRUE /\ c.started = TRUE /\ c.dirty = TRUE /\ c.resync = 0 /\ c.pending = pending

LEMMA BeginsKeeps ==
    ASSUME NEW b, NEW c, NEW p, NEW ans, NEW cmds, Environment, 0 \notin cmds,
           BridgeFacts(b, epoch, published, ans, cmds), ~b.started, Begins(b, c, p),
           b.pending \subseteq p, p \subseteq 1 .. b.nextId - 1, Cardinality(p) <= MaxPending
    PROVE  BridgeFacts(c, epoch, published, ans, cmds) /\ Open(c)
<1> USE DEF Begins, SameStream, BridgeFacts
<1>1. BridgeTypeOK(c)
  <2>1. c.token \in BOOLEAN /\ c.started \in BOOLEAN /\ c.dirty \in BOOLEAN /\ c.resync \in Nat
    <3>1. c.token \in BOOLEAN /\ c.started \in BOOLEAN /\ c.dirty \in BOOLEAN
      BY ONLY Begins(b, c, p) DEF Begins
    <3>2. c.resync \in Nat
      BY ONLY Begins(b, c, p) DEF Begins
    <3> QED
      BY ONLY <3>1, <3>2
  <2>2. c.pending \subseteq 1 .. c.nextId - 1
    OBVIOUS
  <2>3. /\ IsBridge(c) /\ c.failed \in BOOLEAN /\ c.channel = b.channel /\ c.last = b.last /\ c.nextRev = b.nextRev
        /\ c.nextId = b.nextId /\ c.readyAcked = b.readyAcked /\ c.exited = b.exited
        /\ c.notices = b.notices /\ c.unseen = b.unseen /\ c.generation = b.generation
    OBVIOUS
  <2> QED
    BY ONLY BridgeFacts(b, epoch, published, ans, cmds), <2>1, <2>2, <2>3 DEF BridgeFacts, BridgeTypeOK
<1>2. StreamOK(c, epoch)
  BY DEF StreamOK, FrameOK
<1>i. InFlightNotice(c) = InFlightNotice(b)
  BY DEF InFlightNotice
<1>3. QueueOK(c)
  <2>1. \A n : EntryOK(b, n) => EntryOK(c, n)
    BY DEF EntryOK
  <2> QED
    BY <1>i, <2>1 DEF QueueOK
<1>4. FreshOK(c, published)
  BY DEF FreshOK
<1>5. ShutdownOK(c)
  BY <1>i DEF ShutdownOK, Closing
<1>6. CoverOK(c, published, ans, cmds)
  BY <1>i DEF CoverOK
<1>7. Open(c)
  BY <1>i DEF Open, ShutdownOK, Closing
<1> QED
  BY <1>1, <1>2, <1>3, <1>4, <1>5, <1>6, <1>7

\* A closing notice joins an open queue that has none of its kind.
LEMMA ClosingJoins ==
    ASSUME NEW b, NEW kind \in Closing, NEW ans, NEW cmds, Environment, 0 \notin cmds, cmds \subseteq Nat,
           BridgeFacts(b, epoch, published, ans, cmds), Open(b), b.started,
           \A i \in DOMAIN b.notices : b.notices[i].kind # kind
    PROVE  LET c == QueueNotice(b, Notice(kind, 0)) IN
           /\ BridgeFacts(c, epoch, published, ans, cmds) /\ ~c.failed
           /\ Kept(b, c) /\ SameStream(b, c) /\ c.resync = b.resync
           /\ \A id \in Nat \ {0} : TerminalNoticeOutstanding(c, id) => TerminalNoticeOutstanding(b, id)
           /\ \A i \in DOMAIN c.notices : c.notices[i].kind = kind \/ \E j \in DOMAIN b.notices : c.notices[i].kind = b.notices[j].kind
<1> DEFINE n == Notice(kind, 0)
           c == QueueNotice(b, n)
<1>1. n.kind = kind /\ n.id = 0 /\ Terminal(n) = 0 /\ n.kind \notin Authentication
  BY DEF Notice, Terminal, Closing, Authentication
<1> HIDE DEF n
<1>2. Admissible(b, n, ans, cmds)
  BY <1>1 DEF Admissible
<1>3. /\ BridgeFacts(c, epoch, published, ans, cmds) /\ ~c.failed
      /\ Kept(b, c) /\ SameStream(b, c) /\ c.resync = b.resync
      /\ \A id \in Nat \ {0} : TerminalNoticeOutstanding(c, id) => TerminalNoticeOutstanding(b, id) \/ id = Terminal(n)
      /\ c.notices = Append(b.notices, Queued(b, n))
  BY <1>1, <1>2, QueueNoticeKeeps
<1>4. b.notices \in Seq(Entries) /\ Queued(b, n).kind = kind
  BY <1>1 DEF BridgeFacts, BridgeTypeOK, Queued
<1> HIDE DEF c
<1>5. \A i \in DOMAIN c.notices : c.notices[i].kind = kind \/ \E j \in DOMAIN b.notices : c.notices[i].kind = b.notices[j].kind
  <2> DEFINE e == Queued(b, n)
             s == b.notices
  <2> HIDE DEF e
  <2>1. c.notices = Append(s, e) /\ s \in Seq(Entries)
    BY <1>3, <1>4 DEF e
  <2>2. \A i \in DOMAIN c.notices : c.notices[i] = e \/ \E j \in DOMAIN s : c.notices[i] = s[j]
    <3>1. \A i \in DOMAIN Append(s, e) : Append(s, e)[i] = e \/ (i \in DOMAIN s /\ Append(s, e)[i] = s[i])
      BY <2>1, AppendProperties
    <3> QED
      BY <2>1, <3>1
  <2> QED
    BY <1>4, <2>2 DEF e
<1> QED
  BY <1>1, <1>3, <1>5 DEF c, n

\* What begin_shutdown leaves.
Closes(b, c, id, ans, cmds) ==
    /\ BridgeFacts(c, epoch, published, ans, cmds) /\ Sends(b, c)
    /\ c.nextId = b.nextId /\ c.readyAcked = b.readyAcked /\ c.exited = b.exited
    /\ c.started /\ c.resync = 0
    /\ \A i \in Nat \ {0} : TerminalNoticeOutstanding(c, i) => TerminalNoticeOutstanding(b, i) \/ i = id

LEMMA BeginShutdownKeeps ==
    ASSUME NEW b, NEW ok \in BOOLEAN, NEW id \in Nat, NEW ans, NEW cmds, Environment, 0 \notin cmds, cmds \subseteq Nat,
           BridgeFacts(b, epoch, published, ans, cmds), ~b.started, ~b.failed,
           id # 0 => /\ id \in 1 .. b.nextId - 1 /\ id \notin b.pending /\ id \notin cmds
                     /\ Cardinality(b.pending) < MaxPending
    PROVE  Closes(b, BeginShutdown(b, id, ok), id, ans, cmds)
<1> DEFINE x == [b EXCEPT !.token = TRUE, !.started = TRUE, !.dirty = TRUE, !.resync = 0]
           y == [x EXCEPT !.pending = x.pending \cup {id}]
           n == Notice("Committed", id)
           a == IF id = 0 THEN x ELSE QueueNotice(y, n)
           r == QueueNotice(a, Notice("ShutdownRequested", 0))
           q == QueueNotice(r, Notice("ShutdownReady", 0))
           z == Pump(q, ok)
<1>0. BridgeTypeOK(b)
  BY DEF BridgeFacts
<1>p. /\ IsFiniteSet(b.pending) /\ Cardinality(b.pending) \in Nat /\ b.pending \subseteq 1 .. b.nextId - 1
      /\ Cardinality(b.pending) <= MaxPending /\ MaxPending \in Nat
  BY <1>0, PendingFinite, CapacityAssumption DEF BridgeFacts, BridgeTypeOK, QueueOK
<1>1. BeginShutdown(b, id, ok) = IF a.failed \/ r.failed \/ q.failed THEN [q EXCEPT !.failed = TRUE] ELSE z
  BY DEF BeginShutdown
<1>2. Begins(b, x, b.pending) /\ x.failed = b.failed
  <2>1. x = [b EXCEPT !.token = TRUE, !.started = TRUE, !.dirty = TRUE, !.resync = 0]
    OBVIOUS
  <2> HIDE DEF x
  <2> QED
    BY <1>0, <2>1 DEF BridgeTypeOK, IsBridge, Begins, SameStream
<1> HIDE DEF x
<1>3. Begins(b, y, b.pending \cup {id})
  <2> DEFINE p == x.pending \cup {id}
  <2>1. y = [x EXCEPT !.pending = p]
    OBVIOUS
  <2>2. x.pending = b.pending /\ IsBridge(x)
    BY <1>2 DEF Begins
  <2> HIDE DEF y, p
  <2>3. Begins(b, y, p)
    BY <1>2, <2>1, <2>2 DEF IsBridge, Begins, SameStream
  <2> QED
    BY <2>2, <2>3 DEF p
<1> HIDE DEF y
<1>4. /\ BridgeFacts(a, epoch, published, ans, cmds) /\ Open(a) /\ SameStream(b, a) /\ ~a.failed
      /\ a.nextId = b.nextId /\ a.readyAcked = b.readyAcked /\ a.exited = b.exited
      /\ a.started /\ a.resync = 0
      /\ \A i \in Nat \ {0} : TerminalNoticeOutstanding(a, i) => TerminalNoticeOutstanding(b, i) \/ i = id
      /\ \A i \in DOMAIN a.notices : a.notices[i].kind \notin Closing
  <2>c. \A i \in DOMAIN b.notices : b.notices[i].kind \notin Closing
    BY DEF BridgeFacts, ShutdownOK
  <2>1. CASE id = 0
    <3>1. a = x
      BY <2>1
    <3>2. BridgeFacts(x, epoch, published, ans, cmds) /\ Open(x)
      BY <1>p, <1>2, BeginsKeeps
    <3>3. \A i : TerminalNoticeOutstanding(x, i) => TerminalNoticeOutstanding(b, i)
      BY <1>2 DEF Begins, SameStream, TerminalNoticeOutstanding
    <3> HIDE DEF a
    <3> QED
      BY <1>2, <2>c, <3>1, <3>2, <3>3 DEF Begins, SameStream
  <2>2. CASE id # 0
    <3>1. a = QueueNotice(y, n)
      BY <2>2
    <3>2. BridgeFacts(y, epoch, published, ans, cmds) /\ Open(y)
      <4>1. Cardinality(b.pending \cup {id}) <= MaxPending
        <5>1. Cardinality(b.pending \cup {id}) = Cardinality(b.pending) + 1
          BY <1>p, <2>2, FS_AddElement
        <5> HIDE DEF n, a
        <5> QED
          BY <1>p, <2>2, <5>1
      <4>2. b.pending \cup {id} \subseteq 1 .. b.nextId - 1 /\ b.pending \subseteq b.pending \cup {id}
        BY <1>p, <2>2
      <4> QED
        BY <1>3, <4>1, <4>2, BeginsKeeps
    <3>3. \A i : TerminalNoticeOutstanding(y, i) <=> TerminalNoticeOutstanding(b, i)
      BY <1>3 DEF Begins, SameStream, TerminalNoticeOutstanding
    <3>4. n.kind = "Committed" /\ n.id = id /\ Terminal(n) = id /\ n.kind \notin Authentication
      BY DEF Notice, Terminal, Authentication
    <3> HIDE DEF n, a
    <3>5. Admissible(y, n, ans, cmds)
      <4>1. ~TerminalNoticeOutstanding(y, id)
        BY <2>2, <3>3, OutstandingIsPending DEF BridgeFacts
      <4>2. id \in y.pending /\ y.resync = 0
        BY <1>3 DEF Begins
      <4> QED
        BY <2>2, <3>2, <3>4, <4>1, <4>2 DEF Admissible, Answers
    <3>6. /\ BridgeFacts(a, epoch, published, ans, cmds) /\ ~a.failed
          /\ Kept(y, a) /\ SameStream(y, a) /\ a.resync = y.resync
          /\ \A i \in Nat \ {0} : TerminalNoticeOutstanding(a, i) => TerminalNoticeOutstanding(y, i) \/ i = Terminal(n)
          /\ a.notices = Append(y.notices, Queued(y, n))
      BY <3>1, <3>2, <3>4, <3>5, QueueNoticeKeeps
    <3>7. \A i \in DOMAIN a.notices : a.notices[i].kind \notin Closing
      <4> DEFINE e == Queued(y, n)
                 s == b.notices
      <4>1. e.kind = "Committed" /\ a.notices = Append(s, e) /\ s \in Seq(Entries)
        BY <1>0, <1>3, <3>4, <3>6 DEF Queued, Begins, BridgeTypeOK
      <4> HIDE DEF e, s
      <4>2. \A i \in DOMAIN Append(s, e) : Append(s, e)[i] = e \/ (i \in DOMAIN s /\ Append(s, e)[i] = s[i])
        BY <4>1, AppendProperties
      <4> QED
        BY <2>c, <4>1, <4>2 DEF Closing, s
    <3>8. Open(a)
      BY <1>3, <3>2, <3>6, <3>7 DEF Open, Closing, Kept, SameStream, InFlightNotice
    <3>9. SameStream(b, a) /\ a.nextId = b.nextId /\ a.readyAcked = b.readyAcked /\ a.exited = b.exited /\ a.started /\ a.resync = 0
      BY <1>3, <3>6 DEF Begins, Kept, SameStream
    <3> QED
      BY <3>3, <3>4, <3>6, <3>7, <3>8, <3>9
  <2> QED
    BY <2>1, <2>2
<1> HIDE DEF a
<1>5. /\ BridgeFacts(r, epoch, published, ans, cmds) /\ ~r.failed
      /\ Kept(a, r) /\ SameStream(a, r) /\ r.resync = a.resync
      /\ \A i \in Nat \ {0} : TerminalNoticeOutstanding(r, i) => TerminalNoticeOutstanding(a, i)
      /\ \A i \in DOMAIN r.notices : r.notices[i].kind # "ShutdownReady"
  <2>1. "ShutdownRequested" \in Closing /\ \A i \in DOMAIN a.notices : a.notices[i].kind # "ShutdownRequested" /\ a.notices[i].kind # "ShutdownReady"
    BY <1>4 DEF Closing
  <2>2. /\ BridgeFacts(r, epoch, published, ans, cmds) /\ ~r.failed
        /\ Kept(a, r) /\ SameStream(a, r) /\ r.resync = a.resync
        /\ \A i \in Nat \ {0} : TerminalNoticeOutstanding(r, i) => TerminalNoticeOutstanding(a, i)
        /\ \A i \in DOMAIN r.notices : r.notices[i].kind = "ShutdownRequested"
              \/ \E j \in DOMAIN a.notices : r.notices[i].kind = a.notices[j].kind
    <3>1. /\ BridgeFacts(a, epoch, published, ans, cmds) /\ Open(a) /\ a.started
          /\ \A i \in DOMAIN a.notices : a.notices[i].kind # "ShutdownRequested"
      BY <1>4, <2>1
    <3> QED
      BY <2>1, <3>1, ClosingJoins, Zenon
  <2> HIDE DEF r
  <2> QED
    BY <2>1, <2>2
<1> HIDE DEF r
<1>6. Open(r) /\ r.started
  BY <1>4, <1>5 DEF Open, Kept, SameStream, InFlightNotice
<1>7. /\ BridgeFacts(q, epoch, published, ans, cmds) /\ ~q.failed
      /\ Kept(r, q) /\ SameStream(r, q) /\ q.resync = r.resync
      /\ \A i \in Nat \ {0} : TerminalNoticeOutstanding(q, i) => TerminalNoticeOutstanding(r, i)
  BY <1>5, <1>6, ClosingJoins DEF Closing
<1> HIDE DEF q
<1>8. Keeps(q, z, ans, cmds)
  BY <1>7, PumpKeeps
<1>9. BeginShutdown(b, id, ok) = z
  BY <1>1, <1>4, <1>5, <1>7
<1> HIDE DEF z
<1>10. Sends(b, z)
  <2>1. SameStream(b, q)
    BY <1>4, <1>5, <1>7 DEF SameStream
  <2> QED
    BY <1>8, <2>1 DEF Keeps, Leads, Sends, SameStream, Transmits
<1>11. z.nextId = b.nextId /\ z.readyAcked = b.readyAcked /\ z.exited = b.exited /\ z.started /\ z.resync = 0
  BY <1>4, <1>5, <1>7, <1>8 DEF Keeps, Leads, Kept
<1>12. \A i \in Nat \ {0} : TerminalNoticeOutstanding(z, i) => TerminalNoticeOutstanding(b, i) \/ i = id
  BY <1>4, <1>5, <1>7, <1>8 DEF Keeps, Leads
<1> QED
  BY <1>8, <1>9, <1>10, <1>11, <1>12 DEF Closes, Keeps

-----------------------------------------------------------------------------
(* The parts of the invariant under a step of the bridge. *)

LEMMA CommandIdsBelow ==
    ASSUME CallsOK, bridge.nextId \in Nat, calls \in [Calls -> CallStates]
    PROVE  CommandIds \subseteq 1 .. bridge.nextId - 1
<1>1. ASSUME NEW r \in replies, r.call \in Calls, r.result = "ok" PROVE r.id \in 1 .. bridge.nextId - 1
  BY <1>1 DEF CallsOK
<1>2. ASSUME NEW c \in Calls, calls[c].status = "waiting" PROVE calls[c].id \in 1 .. bridge.nextId - 1
  <2>1. calls[c].id \in Nat /\ calls[c].id < bridge.nextId /\ calls[c].id # 0
    BY <1>2 DEF CallsOK, CallStates
  <2> QED
    BY <2>1
<1> QED
  BY <1>1, <1>2 DEF CommandIds

LEMMA CommandIdsNat ==
    ASSUME IInv
    PROVE  0 \notin CommandIds /\ CommandIds \subseteq Nat /\ CommandIds \subseteq 1 .. bridge.nextId - 1
<1>1. CommandIds \subseteq 1 .. bridge.nextId - 1
  BY CommandIdsBelow DEF IInv, CallFacts, TypeOK, BridgeFacts, BridgeTypeOK
<1> HIDE DEF CommandIds
<1> QED
  BY <1>1

LEMMA CoverFewer ==
    ASSUME NEW b, NEW page, NEW pub, NEW ans, NEW cmds, NEW fewer, fewer \subseteq cmds,
           BridgeFacts(b, page, pub, ans, cmds)
    PROVE  BridgeFacts(b, page, pub, ans, fewer)
<1>1. CoverOK(b, pub, ans, fewer)
  BY DEF BridgeFacts, CoverOK
<1> QED
  BY <1>1 DEF BridgeFacts

LEMMA MirrorSends ==
    ASSUME NEW b, NEW c, NEW k, Environment, BridgeTypeOK(b), StreamOK(b, epoch), Sends(b, c),
           Mirror(b, epoch, k), k.rev \in Nat
    PROVE  Mirror(c, epoch, k)
<1>1. CASE SameStream(b, c)
  BY <1>1 DEF Mirror, SameStream, Delivered
<1>2. CASE c.channel = 0 /\ c.nextRev = b.nextRev + 1
  BY <1>2 DEF Mirror, Environment, BridgeTypeOK
<1>3. CASE Transmits(b, c, c.inFlight, epoch) /\ (c.inFlight.kind = "notice" => c.last = b.last)
           /\ (c.inFlight.kind = "delta" => c.inFlight.base = b.last)
  <2>1. /\ b.inFlight = NoFrame /\ c.channel = b.channel /\ c.nextRev = b.nextRev + 1
        /\ c.wire = IF b.channel = epoch THEN Append(b.wire, c.inFlight) ELSE b.wire
    BY <1>3 DEF Transmits
  <2>2. b.wire = <<>>
    BY <2>1 DEF StreamOK
  <2>3. k.rev < b.nextRev /\ b.nextRev \in Nat
    BY DEF Mirror, BridgeTypeOK
  <2>4. CASE b.channel = epoch
    <3>1. c.wire # <<>> /\ Delivered(c) = Delivered(b)
      BY <2>1, <2>2, <2>3, <2>4 DEF Delivered
    <3> QED
      BY <1>3, <2>1, <2>2, <2>3, <2>4, <3>1 DEF Mirror
  <2>5. CASE b.channel # epoch
    BY <2>1, <2>3, <2>5 DEF Mirror
  <2> QED
    BY <2>4, <2>5
<1> QED
  BY <1>1, <1>2, <1>3 DEF Sends

LEMMA AcksSends ==
    ASSUME NEW b, NEW c, Environment, StreamOK(b, epoch), Sends(b, c), AcksOK(b, epoch, <<>>)
    PROVE  AcksOK(c, epoch, <<>>)
<1>1. CASE SameStream(b, c)
  BY <1>1 DEF AcksOK, SameStream
<1>2. CASE c.channel = 0 /\ c.nextRev = b.nextRev + 1
  BY <1>2 DEF AcksOK, Environment
<1>3. CASE Transmits(b, c, c.inFlight, epoch)
  <2>1. /\ c.channel = b.channel /\ b.wire = <<>>
        /\ c.wire = IF b.channel = epoch THEN Append(b.wire, c.inFlight) ELSE b.wire
    BY <1>3 DEF Transmits, StreamOK
  <2>2. c.channel = epoch => c.wire # <<>>
    BY <2>1
  <2> QED
    BY <2>2 DEF AcksOK
<1> QED
  BY <1>1, <1>2, <1>3 DEF Sends

LEMMA SendsGrows ==
    ASSUME NEW b, NEW c, Sends(b, c)
    PROVE  Grows(b.last, c.last) /\ c.channel \in {b.channel, 0}
BY DEF Sends, SameStream, Transmits, Grows

LEMMA ConnectKeeps ==
    ASSUME TypeOK, ConnectOK, requests' = requests \/ (requests # <<>> /\ requests' = Tail(requests)),
           bridge'.channel \in {bridge.channel, 0}, client'.rev = client.rev, epoch' = epoch
    PROVE  ConnectOK'
<1>0. requests \in Seq(Requests) /\ epoch \in Nat \ {0}
  BY DEF TypeOK
<1>1. CASE requests' = requests
  BY <1>0, <1>1 DEF ConnectOK
<1>2. CASE requests # <<>> /\ requests' = Tail(requests)
  <2>1. \A i \in DOMAIN requests' : i \in Nat /\ i + 1 \in DOMAIN requests /\ requests'[i] = requests[i + 1]
    BY <1>0, <1>2
  <2>2. ASSUME NEW i \in DOMAIN requests', requests'[i].kind = "connect", requests'[i].page = epoch
        PROVE  /\ client'.rev = 0 /\ bridge'.channel # epoch
               /\ \A j \in DOMAIN requests' : requests'[j].kind = "connect" /\ requests'[j].page = epoch => i = j
    <3>1. /\ client.rev = 0 /\ bridge.channel # epoch
          /\ \A j \in DOMAIN requests : requests[j].kind = "connect" /\ requests[j].page = epoch => i + 1 = j
      BY <2>1, <2>2 DEF ConnectOK
    <3>2. \A j \in DOMAIN requests' : requests'[j].kind = "connect" /\ requests'[j].page = epoch => i + 1 = j + 1
      BY <2>1, <3>1
    <3> QED
      BY <1>0, <2>1, <3>1, <3>2
  <2>3. \A i \in DOMAIN requests' : requests'[i].page <= epoch
    BY <2>1 DEF ConnectOK
  <2> QED
    BY <2>2, <2>3 DEF ConnectOK
<1> QED
  BY <1>1, <1>2

LEMMA ReportsKeeps ==
    ASSUME IInv, UNCHANGED <<client, calls, settlements, answers>>, BridgeTypeOK(bridge'),
           Grows(bridge.last, bridge'.last), bridge.nextId <= bridge'.nextId,
           CommandIds' \subseteq CommandIds \cup {bridge.nextId}
    PROVE  ReportsOK'
<1>0. bridge.nextId \in Nat /\ bridge'.nextId \in Nat /\ settlements \in Seq(Settlements) /\ answers \subseteq CoordinatorAnswers
  BY DEF IInv, TypeOK, BridgeFacts, BridgeTypeOK
<1>1. ASSUME NEW id, NEW outcome, Reported(id, outcome) PROVE Reported(id, outcome)'
  <2>1. PICK a \in answers :
          /\ a.id = id /\ a.outcome = outcome /\ Covers(bridge.last, a)
          /\ client.life = "ready" => Covers(client.snap, a)
    BY <1>1 DEF Reported
  <2>2. bridge.last \in Snapshots /\ bridge'.last \in Snapshots
    BY <1>1 DEF Reported, Grows
  <2>3. a.published \in Ports
    BY <1>0 DEF CoordinatorAnswers
  <2>4. Covers(bridge'.last, a)
    BY <2>1, <2>2, <2>3 DEF Covers, Grows, Snapshots, Ports
  <2> QED
    BY <2>1, <2>2, <2>4 DEF Reported
<1>2. \A c \in Calls : calls'[c].status \in Outcomes /\ calls'[c].id # 0 => Reported(calls[c].id, calls[c].status)
  BY DEF IInv, CallFacts, ReportsOK
<1>3. \A i \in DOMAIN settlements : settlements[i].id \in Nat /\ settlements[i].id < bridge.nextId
  <2>1. \A i \in DOMAIN settlements : settlements[i] \in Settlements
    BY <1>0
  <2> QED
    BY <2>1 DEF IInv, CallFacts, ReportsOK, Settlements
<1>4. \A i \in DOMAIN settlements : settlements[i].id \in CommandIds' => Reported(settlements[i].id, settlements[i].outcome)
  <2>1. \A i \in DOMAIN settlements : settlements[i].id \in CommandIds' => settlements[i].id \in CommandIds
    <3> HIDE DEF CommandIds
    <3> QED
      BY <1>0, <1>3
  <2> QED
    BY <2>1 DEF IInv, CallFacts, ReportsOK
<1> QED
  BY <1>0, <1>1, <1>2, <1>3, <1>4 DEF ReportsOK

LEMMA CallsSame ==
    ASSUME CallsOK, UNCHANGED <<requests, calls, epoch>>, bridge.nextId \in Nat, bridge'.nextId \in Nat,
           calls \in [Calls -> CallStates], bridge.nextId <= bridge'.nextId,
           \/ replies' = replies
           \/ \E r : r.call \notin Calls /\ replies' = replies \cup {r}
    PROVE  CallsOK' /\ CommandIds' = CommandIds
<1>1. \A r : r.call \in Calls => (r \in replies' <=> r \in replies)
  OBVIOUS
<1>2. CommandIds' = CommandIds
  BY <1>1 DEF CommandIds
<1>3. \A i \in DOMAIN requests : \A r \in replies' : FromCall(requests[i]) => r.call # requests[i].call
  BY <1>1 DEF CallsOK, FromCall
<1>4. \A r \in replies' : r.call \in Calls =>
          /\ calls[r.call].status = "sent" /\ calls[r.call].id = 0 /\ calls[r.call].kind # "none"
          /\ r.result = "ok" => r.id \in 1 .. bridge.nextId - 1
          /\ \A s \in replies' : s.call = r.call => s = r
  BY <1>1 DEF CallsOK
<1>5. \A c \in Calls : calls[c].id \in Nat /\ calls[c].id < bridge.nextId
  BY DEF CallsOK, CallStates
<1>6. \A r \in replies' : r.call \in Calls /\ r.result = "ok" => r.id \in 1 .. bridge'.nextId - 1
  BY <1>4
<1>7. \A c \in Calls : calls[c].id < bridge'.nextId
  BY <1>5
<1> QED
  BY <1>2, <1>3, <1>4, <1>6, <1>7 DEF CallsOK, FromCall

LEMMA CallsAnswered ==
    ASSUME CallsOK, TypeOK, NEW result, NEW id, UNCHANGED <<calls, epoch>>,
           bridge.nextId \in Nat \ {0}, bridge'.nextId \in Nat, bridge.nextId <= bridge'.nextId,
           requests # <<>>, requests' = Tail(requests), Reply(Head(requests), result, id),
           Head(requests).call \in Calls /\ result = "ok" =>
              id = bridge.nextId /\ bridge'.nextId = bridge.nextId + 1
    PROVE  /\ CallsOK'
           /\ CommandIds' \subseteq CommandIds \cup {bridge.nextId}
           /\ result # "ok" \/ Head(requests).call \notin Calls \/ Head(requests).kind = "login" => CommandIds' = CommandIds
<1> DEFINE h == Head(requests)
           new == [call |-> h.call, result |-> result, id |-> id]
           c == h.call
<1>0. requests \in Seq(Requests) /\ calls \in [Calls -> CallStates]
  BY DEF TypeOK
<1>1. /\ h = requests[1] /\ 1 \in DOMAIN requests
      /\ \A i \in DOMAIN requests' : i \in Nat \ {0} /\ i + 1 \in DOMAIN requests /\ requests'[i] = requests[i + 1]
  BY <1>0
<1>2. \/ replies' = replies
      \/ replies' = replies \cup {new} /\ h.page = epoch
  BY DEF Reply, Answer
<1>3. new.call = c /\ new.result = result /\ new.id = id
  OBVIOUS
<1> HIDE DEF h, new
<1>4. ASSUME c \in Calls, h.page = epoch
      PROVE  /\ calls[c].status = "sent" /\ calls[c].id = 0 /\ calls[c].kind = h.kind /\ calls[c].kind # "none"
             /\ \A j \in DOMAIN requests : FromCall(requests[j]) /\ requests[j].call = c => j = 1
             /\ \A r \in replies : r.call # c
  <2>1. FromCall(requests[1])
    BY <1>1, <1>4 DEF FromCall
  <2>2. h.kind \in CommandKinds \cup {"login"}
    BY <1>1, <1>4 DEF CallsOK
  <2> QED
    BY <1>1, <2>1, <2>2 DEF CallsOK, CommandKinds
<1>5. /\ CommandIds' \subseteq CommandIds \cup {bridge.nextId}
      /\ result # "ok" \/ h.call \notin Calls \/ h.kind = "login" => CommandIds' = CommandIds
  <2>1. CASE replies' = replies
    BY <2>1 DEF CommandIds
  <2>2. CASE replies' = replies \cup {new} /\ h.page = epoch
    <3>1. CASE c \in Calls /\ result = "ok" /\ h.kind # "login"
      <4>1. \A r \in replies' : r \in replies \/ r = new
        BY <2>2
      <4>2. new.id = bridge.nextId
        BY <1>3, <3>1 DEF h
      <4> QED
        BY <3>1, <4>1, <4>2 DEF CommandIds
    <3>2. CASE ~(c \in Calls /\ result = "ok" /\ h.kind # "login")
      <4>1. ~(new.call \in Calls /\ new.result = "ok" /\ calls[new.call].kind # "login")
        BY <1>3, <1>4, <2>2, <3>2
      <4>2. {r \in replies' : r.call \in Calls /\ r.result = "ok" /\ calls[r.call].kind # "login"}
              = {r \in replies : r.call \in Calls /\ r.result = "ok" /\ calls[r.call].kind # "login"}
        BY <2>2, <4>1
      <4> QED
        BY <4>2 DEF CommandIds
    <3> QED
      BY <3>1, <3>2
  <2> QED
    BY <1>2, <2>1, <2>2
<1>6. \A r \in replies' : r \in replies \/ (r = new /\ h.page = epoch)
  BY <1>2
<1>7. ASSUME NEW i \in DOMAIN requests', FromCall(requests[i + 1])
      PROVE  /\ calls[requests'[i].call].status = "sent" /\ calls[requests'[i].call].id = 0
             /\ calls[requests'[i].call].kind = requests'[i].kind
             /\ \A j \in DOMAIN requests' : FromCall(requests[j + 1]) /\ requests'[j].call = requests'[i].call => i = j
             /\ \A r \in replies' : r.call # requests'[i].call
  <2>1. i + 1 \in DOMAIN requests /\ requests'[i] = requests[i + 1] /\ i + 1 # 1
    BY <1>1
  <2>2. /\ calls[requests'[i].call].status = "sent" /\ calls[requests'[i].call].id = 0
        /\ calls[requests'[i].call].kind = requests'[i].kind
    BY <1>7, <2>1 DEF CallsOK
  <2>3. ASSUME NEW j \in DOMAIN requests', FromCall(requests[j + 1]), requests'[j].call = requests'[i].call PROVE i = j
    <3>1. i + 1 = j + 1
      BY <1>1, <1>7, <2>1, <2>3 DEF CallsOK
    <3> QED
      BY <1>1, <3>1
  <2>4. ASSUME NEW r \in replies' PROVE r.call # requests'[i].call
    <3>1. CASE r \in replies
      BY <1>7, <2>1, <3>1 DEF CallsOK
    <3>2. CASE r = new /\ h.page = epoch
      BY <1>3, <1>4, <1>7, <2>1, <3>2 DEF FromCall
    <3> QED
      BY <1>6, <3>1, <3>2
  <2> QED
    BY <2>2, <2>3, <2>4
<1>8. \A i \in DOMAIN requests' : requests'[i].call \in Calls <=> requests'[i].kind \in CommandKinds \cup {"login"}
  BY <1>1 DEF CallsOK
<1>9. ASSUME NEW r \in replies', r.call \in Calls
      PROVE  /\ calls[r.call].status = "sent" /\ calls[r.call].id = 0 /\ calls[r.call].kind # "none"
             /\ r.result = "ok" => r.id \in 1 .. bridge'.nextId - 1
             /\ \A s \in replies' : s.call = r.call => s = r
  <2>1. CASE r \in replies
    <3>1. /\ calls[r.call].status = "sent" /\ calls[r.call].id = 0 /\ calls[r.call].kind # "none"
          /\ r.result = "ok" => r.id \in 1 .. bridge.nextId - 1
          /\ \A s \in replies : s.call = r.call => s = r
      BY <1>9, <2>1 DEF CallsOK
    <3>2. \A s \in replies' : s.call = r.call => s \in replies
      BY <1>3, <1>4, <1>6, <1>9, <2>1
    <3> QED
      BY <3>1, <3>2
  <2>2. CASE r = new /\ h.page = epoch
    <3>1. /\ calls[r.call].status = "sent" /\ calls[r.call].id = 0 /\ calls[r.call].kind # "none"
          /\ \A s \in replies : s.call # r.call
      BY <1>3, <1>4, <1>9, <2>2
    <3>2. r.result = "ok" => r.id \in 1 .. bridge'.nextId - 1
      <4>1. r.result = "ok" => r.id = bridge.nextId /\ bridge'.nextId = bridge.nextId + 1
        BY <1>3, <1>9, <2>2 DEF h
      <4> QED
        BY <4>1
    <3> QED
      BY <1>6, <2>2, <3>1, <3>2
  <2> QED
    BY <1>6, <2>1, <2>2
<1>10. \A k \in Calls : /\ calls[k].id < bridge'.nextId
                        /\ calls[k].status = "waiting" => calls[k].kind # "login" /\ calls[k].id # 0
  <2>1. \A k \in Calls : calls[k].id \in Nat /\ calls[k].id < bridge.nextId
    BY <1>0 DEF CallsOK, CallStates
  <2>2. \A k \in Calls : calls[k].id < bridge'.nextId
    BY <2>1
  <2> QED
    BY <2>2 DEF CallsOK
<1>11. CallsOK'
  <2>1. \A i \in DOMAIN requests' : FromCall(requests[i + 1]) <=> FromCall(requests[i])'
    BY <1>1 DEF FromCall
  <2> QED
    BY <1>1, <1>7, <1>8, <1>9, <1>10, <2>1 DEF CallsOK
<1> QED
  BY <1>5, <1>11 DEF h

-----------------------------------------------------------------------------
(* What a step of the bridge leaves to the page and the coordinator: n of  *)
(* the coordinator's notices are taken, and no terminal notice comes from  *)
(* anywhere else.                                                          *)

Follows(n) ==
    /\ UNCHANGED <<published, epoch, client, calls, settlements, login, answers>>
    /\ bridge.nextId <= bridge'.nextId /\ bridge'.resync \in {bridge.resync, bridge.nextId, 0}
    /\ bridge'.resync = bridge.nextId => bridge.nextId < bridge'.nextId
    /\ Grows(bridge.last, bridge'.last)
    /\ \A id \in 1 .. bridge.nextId - 1 : id # bridge.resync /\ TerminalNoticeOutstanding(bridge', id) =>
          TerminalNoticeOutstanding(bridge, id) \/ \E j \in 1 .. n : Terminal(uiNotices[j]) = id
    /\ uiNotices' \in Seq(UiNotices) /\ n \in 0 .. Len(uiNotices)
    /\ \A k \in DOMAIN uiNotices' : k \in Nat \ {0} /\ k + n \in DOMAIN uiNotices /\ uiNotices'[k] = uiNotices[k + n]
    /\ requests' = requests \/ (requests # <<>> /\ requests' = Tail(requests))
    /\ replies' \subseteq Replies
    /\ \A r \in replies' : r \in replies \/ (r.call \in Calls /\ r.id # 0 =>
                              r.id = bridge.nextId /\ bridge.nextId < bridge'.nextId /\ bridge'.resync # bridge.nextId)

\* The intent x was sent.
Joins(x) ==
    /\ intents' = Append(intents, x) /\ x \in Intents
    /\ \/ x.kind = "cancel" /\ Apart(bridge', x.id)
       \/ /\ x.kind # "cancel" /\ x.id = bridge.nextId /\ Apart(bridge', x.id)
          /\ x.kind = "login" => ~TerminalNoticeOutstanding(bridge', x.id) /\ x.id \notin CommandIds'

LEMMA ApartStays ==
    ASSUME NEW n, IInv, Follows(n), BridgeTypeOK(bridge'), NEW id \in Nat \ {0}, Apart(bridge, id)
    PROVE  Apart(bridge', id)
<1>1. bridge.nextId \in Nat /\ bridge'.nextId \in Nat
  BY DEF IInv, BridgeFacts, BridgeTypeOK
<1> QED
  BY <1>1 DEF Apart, Follows

LEMMA IdsFollow ==
    ASSUME NEW n, IInv, Follows(n), BridgeTypeOK(bridge'), intents' = intents \/ \E x : Joins(x)
    PROVE  IdsOK'
<1>0. TypeOK /\ IdsOK
  BY DEF IInv, LoginFacts
<1>1. \A id \in Nat \ {0} : Apart(bridge, id) => Apart(bridge', id)
  BY ApartStays
<1>2. bridge.nextId \in Nat /\ bridge'.nextId \in Nat
  BY DEF IInv, BridgeFacts, BridgeTypeOK
<1>3. \A i \in DOMAIN intents' : Apart(bridge', intents'[i].id)
  <2>1. \A i \in DOMAIN intents : intents[i].id \in Nat \ {0} /\ Apart(bridge, intents[i].id)
    <3>1. \A i \in DOMAIN intents : intents[i] \in Intents
      BY <1>0 DEF TypeOK
    <3> QED
      BY <1>0, <3>1 DEF Intents, IdsOK
  <2>2. CASE intents' = intents
    BY <1>1, <2>1, <2>2
  <2>3. ASSUME NEW x, Joins(x) PROVE \A i \in DOMAIN intents' : Apart(bridge', intents'[i].id)
    <3>1. \A i \in DOMAIN intents' : (i \in DOMAIN intents /\ intents'[i] = intents[i]) \/ intents'[i] = x
      BY <1>0, <2>3 DEF Joins, TypeOK
    <3>2. Apart(bridge', x.id)
      BY <2>3 DEF Joins
    <3> QED
      BY <1>1, <2>1, <3>1, <3>2
  <2> QED
    BY <2>2, <2>3
<1>4. \A i \in DOMAIN uiNotices' : Apart(bridge', uiNotices'[i].id)
  <2>1. \A i \in DOMAIN uiNotices : uiNotices[i].id \in Nat \ {0} /\ Apart(bridge, uiNotices[i].id)
    <3>1. \A i \in DOMAIN uiNotices : uiNotices[i] \in UiNotices
      BY <1>0 DEF TypeOK
    <3> QED
      BY <1>0, <3>1 DEF UiNotices, IdsOK
  <2> QED
    BY <1>1, <2>1 DEF Follows
<1>5. \A i \in DOMAIN requests' : requests'[i].kind = "cancel" /\ requests'[i].target # 0 => Apart(bridge', requests'[i].target)
  <2>1. \A i \in DOMAIN requests' : \E j \in DOMAIN requests : requests'[i] = requests[j]
    <3>1. CASE requests' = requests
      BY <3>1
    <3>2. CASE requests # <<>> /\ requests' = Tail(requests)
      BY <1>0, <3>2 DEF TypeOK
    <3> QED
      BY <3>1, <3>2 DEF Follows
  <2>2. \A i \in DOMAIN requests : requests[i].target \in Nat
    <3>1. \A i \in DOMAIN requests : requests[i] \in Requests
      BY <1>0 DEF TypeOK
    <3> QED
      BY <1>0, <3>1 DEF Requests
  <2> QED
    BY <1>0, <1>1, <2>1, <2>2 DEF IdsOK
<1>6. \A c \in Calls : calls'[c].id # 0 => Apart(bridge', calls'[c].id)
  <2>1. \A c \in Calls : calls[c].id \in Nat
    BY <1>0 DEF TypeOK, CallStates
  <2> QED
    BY <1>0, <1>1, <2>1 DEF IdsOK, Follows
<1>7. ASSUME NEW r \in replies', r.call \in Calls, r.id # 0 PROVE Apart(bridge', r.id)
  <2>1. CASE r \in replies
    <3>1. r.id \in Nat
      BY <1>0, <2>1 DEF TypeOK, Replies
    <3> QED
      BY <1>0, <1>1, <1>7, <2>1, <3>1 DEF IdsOK
  <2>2. CASE r \notin replies
    BY <1>2, <1>7, <2>2 DEF Apart, Follows
  <2> QED
    BY <2>1, <2>2
<1>8. login'.id # 0 => Apart(bridge', login'.id)
  <2>1. login.id \in Nat
    BY <1>0 DEF TypeOK
  <2> QED
    BY <1>0, <1>1, <2>1 DEF IdsOK, Follows
<1> QED
  BY <1>3, <1>4, <1>5, <1>6, <1>7, <1>8 DEF IdsOK

LEMMA NoticesFollow ==
    ASSUME NEW n, IInv, Follows(n), BridgeTypeOK(bridge'), CommandIds' \subseteq CommandIds \cup {bridge.nextId}
    PROVE  /\ NoticesOK'
           /\ \A id \in 1 .. bridge.nextId - 1 : id # bridge.resync /\ Unanswered(bridge, uiNotices, id) => Unanswered(bridge', uiNotices', id)
<1>0. TypeOK /\ IdsOK /\ NoticesOK /\ bridge.nextId \in Nat /\ uiNotices \in Seq(UiNotices)
  BY DEF IInv, LoginFacts, BridgeFacts, BridgeTypeOK, TypeOK
<1>1. \A k \in DOMAIN uiNotices : uiNotices[k].id \in 1 .. bridge.nextId - 1 /\ uiNotices[k].id # bridge.resync
  <2>1. \A k \in DOMAIN uiNotices : uiNotices[k].id \in Nat \ {0}
    <3>1. \A i \in DOMAIN uiNotices : uiNotices[i] \in UiNotices
      BY <1>0
    <3> QED
      BY <1>0, <3>1 DEF UiNotices
  <2> QED
    BY <1>0, <2>1 DEF IdsOK, Apart
<1>2. ASSUME NEW k \in DOMAIN uiNotices', uiNotices'[k].kind = "BrowserOpened"
      PROVE  /\ ~TerminalNoticeOutstanding(bridge', uiNotices'[k].id)
             /\ \A j \in 1 .. k - 1 : Terminal(uiNotices'[j]) # uiNotices'[k].id
  <2> DEFINE m == k + n
  <2>1. k \in Nat \ {0} /\ n \in Nat /\ m \in DOMAIN uiNotices /\ uiNotices'[k] = uiNotices[m]
    BY DEF Follows
  <2>2. /\ ~TerminalNoticeOutstanding(bridge, uiNotices[m].id)
        /\ \A j \in 1 .. m - 1 : Terminal(uiNotices[j]) # uiNotices[m].id
    BY <1>0, <1>2, <2>1 DEF NoticesOK
  <2>3. 1 .. n \subseteq 1 .. m - 1
    BY <2>1
  <2>4. ~TerminalNoticeOutstanding(bridge', uiNotices[m].id)
    BY <1>1, <2>1, <2>2, <2>3 DEF Follows
  <2>5. ASSUME NEW j \in 1 .. k - 1 PROVE Terminal(uiNotices'[j]) # uiNotices'[k].id
    <3>1. j \in DOMAIN uiNotices' /\ j + n \in 1 .. m - 1
      BY <1>2, <2>1 DEF Follows
    <3>2. uiNotices'[j] = uiNotices[j + n]
      BY <3>1 DEF Follows
    <3> QED
      BY <2>1, <2>2, <3>1, <3>2
  <2> QED
    BY <2>1, <2>4, <2>5
<1>3. ASSUME NEW k \in DOMAIN uiNotices'
      PROVE  /\ uiNotices'[k].kind \in Authentication => uiNotices'[k].id \in login'.ids
             /\ uiNotices'[k].id \in CommandIds' =>
                  /\ uiNotices'[k].kind \in Answers
                  /\ AnsweredBy(published', answers', uiNotices'[k].id, Outcome(uiNotices'[k]))
  <2>1. k + n \in DOMAIN uiNotices /\ uiNotices'[k] = uiNotices[k + n] /\ login' = login /\ published' = published /\ answers' = answers
    BY DEF Follows
  <2>2. uiNotices'[k].id \in CommandIds' => uiNotices[k + n].id \in CommandIds
    <3> HIDE DEF CommandIds
    <3> QED
      BY <1>0, <1>1, <2>1
  <2> QED
    BY <1>0, <2>1, <2>2 DEF NoticesOK
<1>4. NoticesOK'
  BY <1>2, <1>3 DEF NoticesOK
<1>5. ASSUME NEW id \in 1 .. bridge.nextId - 1, id # bridge.resync, Unanswered(bridge, uiNotices, id) PROVE Unanswered(bridge', uiNotices', id)
  <2>1. \A j \in 1 .. n : j \in DOMAIN uiNotices
    BY <1>0 DEF Follows
  <2>2. \A k \in DOMAIN uiNotices' : Terminal(uiNotices'[k]) # id
    BY <1>5 DEF Follows, Unanswered
  <2>3. ~TerminalNoticeOutstanding(bridge', id)
    BY <1>5, <2>1 DEF Follows, Unanswered
  <2> QED
    BY <2>2, <2>3 DEF Unanswered
<1> QED
  BY <1>4, <1>5

LEMMA IntentsFollow ==
    ASSUME NEW n, IInv, Follows(n), BridgeTypeOK(bridge'), intents' = intents \/ \E x : Joins(x),
           CommandIds' \subseteq CommandIds \cup {bridge.nextId}
    PROVE  IntentsOK' /\ intents' \in Seq(Intents)
<1> DEFINE ids == 1 .. bridge.nextId - 1
<1>0. TypeOK /\ IdsOK /\ IntentsOK /\ bridge.nextId \in Nat \ {0} /\ intents \in Seq(Intents) /\ login \in [id : Nat, opened : BOOLEAN, ids : SUBSET Nat]
  BY DEF IInv, LoginFacts, BridgeFacts, BridgeTypeOK, TypeOK
<1>1. \A i \in DOMAIN intents : intents[i].id \in ids /\ intents[i].id # bridge.resync
  <2>1. \A i \in DOMAIN intents : intents[i] \in Intents
    BY <1>0
  <2>2. \A i \in DOMAIN intents : intents[i].id \in Nat \ {0}
    BY <2>1 DEF Intents
  <2> QED
    BY <1>0, <2>2 DEF IdsOK, Apart
<1>2. login.id \in Nat /\ (login.id # 0 => login.id \in ids /\ login.id # bridge.resync)
  BY <1>0 DEF IdsOK, Apart
<1>3. bridge.nextId \notin ids
  BY <1>0
<1>4. \A id \in ids : id \in CommandIds' => id \in CommandIds
  <2> HIDE DEF CommandIds, ids
  <2> QED
    BY <1>3
<1>5. \A id \in ids : id # bridge.resync /\ Unanswered(bridge, uiNotices, id) => Unanswered(bridge', uiNotices', id)
  BY NoticesFollow
<1>6. login' = login
  BY DEF Follows
<1>7. login.id # 0 => Unanswered(bridge', uiNotices', login.id) /\ login.id \notin CommandIds' /\ login.id \in login.ids
  BY <1>0, <1>2, <1>4, <1>5 DEF IntentsOK
<1>8. ASSUME NEW i \in DOMAIN intents, intents[i].kind = "login"
      PROVE  /\ Unanswered(bridge', uiNotices', intents[i].id) /\ intents[i].id \notin CommandIds'
             /\ \A j \in 1 .. i - 1 : intents[j].id # intents[i].id
  BY <1>0, <1>1, <1>4, <1>5, <1>8 DEF IntentsOK
<1> HIDE DEF ids
<1>9. CASE intents' = intents
  BY <1>0, <1>6, <1>7, <1>8, <1>9 DEF IntentsOK
<1>10. ASSUME NEW x, Joins(x) PROVE IntentsOK' /\ intents' \in Seq(Intents)
  <2>1. /\ intents' = Append(intents, x) /\ x \in Intents
        /\ x.kind = "cancel" \/ x.id = bridge.nextId
        /\ x.kind = "login" => ~TerminalNoticeOutstanding(bridge', x.id) /\ x.id \notin CommandIds'
    BY <1>10 DEF Joins
  <2> DEFINE m == Len(intents) + 1
  <2>2. /\ intents' \in Seq(Intents) /\ m \in DOMAIN intents' /\ intents'[m] = x /\ m \notin DOMAIN intents
        /\ \A i \in DOMAIN intents' : (i \in DOMAIN intents /\ intents'[i] = intents[i]) \/ i = m
    BY <1>0, <2>1
  <2>3. \A i \in DOMAIN intents' : intents'[i].kind # "cancel" => intents'[i].id # login'.id
    <3>1. \A i \in DOMAIN intents : intents[i].kind # "cancel" => intents[i].id # login.id
      BY <1>0 DEF IntentsOK
    <3>2. x.kind # "cancel" => x.id # login.id
      BY <1>0, <1>2, <1>3, <2>1
    <3> QED
      BY <1>6, <2>2, <3>1, <3>2
  <2>4. ASSUME NEW i \in DOMAIN intents', NEW j \in DOMAIN intents',
               intents'[i].kind # "cancel", intents'[j].kind # "cancel", intents'[i].id = intents'[j].id
        PROVE  i = j
    <3>1. CASE i \in DOMAIN intents /\ j \in DOMAIN intents
      BY <1>0, <2>2, <2>4, <3>1 DEF IntentsOK
    <3>2. CASE i = m /\ j \in DOMAIN intents
      <4>1. intents'[j].id \in ids /\ intents'[i].id = bridge.nextId
        BY <1>1, <2>1, <2>2, <2>4, <3>2
      <4> QED
        BY <1>3, <2>4, <4>1
    <3>3. CASE j = m /\ i \in DOMAIN intents
      <4>1. intents'[i].id \in ids /\ intents'[j].id = bridge.nextId
        BY <1>1, <2>1, <2>2, <2>4, <3>3
      <4> QED
        BY <1>3, <2>4, <4>1
    <3> QED
      BY <2>2, <3>1, <3>2, <3>3
  <2>5. ASSUME NEW i \in DOMAIN intents', intents'[i].kind = "login"
        PROVE  /\ Unanswered(bridge', uiNotices', intents'[i].id) /\ intents'[i].id \notin CommandIds'
               /\ \A j \in 1 .. i - 1 : intents'[j].id # intents'[i].id
    <3>1. CASE i \in DOMAIN intents
      <4>1. intents'[i] = intents[i] /\ \A j \in 1 .. i - 1 : intents'[j] = intents[j]
        BY <1>0, <2>1, <3>1
      <4> QED
        BY <1>8, <2>5, <3>1, <4>1
    <3>2. CASE i = m
      <4>1. x.id = bridge.nextId /\ ~TerminalNoticeOutstanding(bridge', x.id) /\ x.id \notin CommandIds' /\ intents'[i] = x
        BY <2>1, <2>2, <2>5, <3>2
      <4>2. \A k \in DOMAIN uiNotices' : Terminal(uiNotices'[k]) # bridge.nextId
        <5>1. \A k \in DOMAIN uiNotices : uiNotices[k] \in UiNotices
          BY <1>0 DEF TypeOK
        <5>2. \A k \in DOMAIN uiNotices : uiNotices[k].id \in Nat /\ uiNotices[k].id < bridge.nextId
          BY <1>0, <5>1 DEF UiNotices, IdsOK, Apart
        <5>3. \A k \in DOMAIN uiNotices : Terminal(uiNotices[k]) # bridge.nextId
          BY <1>0, <5>2 DEF Terminal
        <5> QED
          BY <5>3 DEF Follows
      <4>3. \A j \in 1 .. i - 1 : j \in DOMAIN intents /\ intents'[j] = intents[j]
        BY <1>0, <2>1, <3>2
      <4>4. \A j \in 1 .. i - 1 : intents'[j].id # bridge.nextId
        BY <1>1, <1>3, <4>3
      <4> QED
        BY <4>1, <4>2, <4>4 DEF Unanswered
    <3> QED
      BY <2>2, <3>1, <3>2
  <2> HIDE DEF m
  <2> QED
    BY <1>6, <1>7, <2>2, <2>3, <2>4, <2>5 DEF IntentsOK
<1> QED
  BY <1>9, <1>10, <1>0

LEMMA FollowsKeeps ==
    ASSUME NEW n, IInv, Follows(n), BridgeFacts(bridge', epoch, published, answers, CommandIds'),
           intents' = intents \/ \E x : Joins(x), CommandIds' \subseteq CommandIds \cup {bridge.nextId},
           Mirror(bridge', epoch, client), AcksOK(bridge', epoch, acks'), ExitOK', ConnectOK', CallsOK',
           SlotsAwaitAnswers'
    PROVE  IInv'
<1>0. TypeOK /\ BridgeTypeOK(bridge')
  BY DEF IInv, BridgeFacts
<1>1. UNCHANGED <<published, epoch, client, calls, settlements, login, answers>>
  BY DEF Follows
<1>2. IdsOK' /\ NoticesOK' /\ IntentsOK' /\ intents' \in Seq(Intents)
  BY <1>0, IdsFollow, NoticesFollow, IntentsFollow
<1>3. ReportsOK'
  BY <1>0, <1>1, ReportsKeeps DEF Follows
<1>4. TypeOK'
  <2>1. requests' \in Seq(Requests)
    <3>1. CASE requests' = requests
      BY <1>0, <3>1 DEF TypeOK
    <3>2. CASE requests # <<>> /\ requests' = Tail(requests)
      BY <1>0, <3>2 DEF TypeOK
    <3> QED
      BY <3>1, <3>2 DEF Follows
  <2>2. uiNotices' \in Seq(UiNotices) /\ replies' \subseteq Replies
    BY DEF Follows
  <2> QED
    BY <1>0, <1>1, <1>2, <2>1, <2>2 DEF TypeOK, IsClient
<1>5. BridgeFacts(bridge, epoch, published, answers, CommandIds)'
  BY <1>1
<1>6. ClientFacts'
  <2>1. ResyncOK(client)
    BY DEF IInv, ClientFacts
  <2> QED
    BY <1>1, <2>1 DEF ClientFacts
<1>7. CallFacts' /\ LoginFacts'
  BY <1>2, <1>3 DEF CallFacts, LoginFacts
<1> QED
  BY <1>4, <1>5, <1>6, <1>7 DEF IInv

\* Only whether the bridge runs, and whether its last call failed, changed.
Leaves(b, c) ==
    /\ IsBridge(c) /\ c.failed \in BOOLEAN /\ c.exited \in BOOLEAN
    /\ SameStream(b, c) /\ SameQueue(b, c) /\ SameView(b, c)
    /\ c.nextId = b.nextId /\ c.pending = b.pending /\ c.token = b.token /\ c.started = b.started
    /\ c.readyAcked = b.readyAcked /\ c.overflow = b.overflow

LEMMA ExitFields ==
    ASSUME NEW b, BridgeTypeOK(b), NEW v \in BOOLEAN, NEW w \in BOOLEAN, NEW c,
           c = [b EXCEPT !.exited = v, !.failed = w]
    PROVE  Leaves(b, c) /\ c.exited = v /\ c.failed = w
<1>1. IsBridge(b)
  BY DEF BridgeTypeOK
<1> QED
  BY <1>1 DEF IsBridge, Leaves, SameStream, SameQueue, SameView

LEMMA LeavesKeeps ==
    ASSUME NEW b, NEW c, NEW ans, NEW cmds, BridgeFacts(b, epoch, published, ans, cmds), Leaves(b, c)
    PROVE  /\ BridgeFacts(c, epoch, published, ans, cmds)
           /\ \A id : TerminalNoticeOutstanding(c, id) <=> TerminalNoticeOutstanding(b, id)
           /\ \A x : Sends(x, b) => Sends(x, c)
           /\ \A x : Retains(x, b) => Retains(x, c)
<1>1. BridgeTypeOK(c)
  BY DEF BridgeFacts, Leaves, BridgeTypeOK, SameStream, SameQueue, SameView
<1>2. InFlightNotice(c) = InFlightNotice(b)
  BY DEF Leaves, InFlightNotice, SameStream
<1>3. StreamOK(c, epoch)
  BY DEF BridgeFacts, Leaves, StreamOK, FrameOK, SameStream
<1>4. QueueOK(c)
  BY <1>2 DEF BridgeFacts, Leaves, QueueOK, EntryOK, SameStream, SameQueue
<1>5. FreshOK(c, published)
  BY DEF BridgeFacts, Leaves, FreshOK, SameStream, SameView
<1>6. ShutdownOK(c)
  BY <1>2 DEF BridgeFacts, Leaves, ShutdownOK, SameStream, SameQueue
<1>7. CoverOK(c, published, ans, cmds)
  BY <1>2 DEF BridgeFacts, Leaves, CoverOK, SameStream, SameQueue, SameView
<1>8. \A id : TerminalNoticeOutstanding(c, id) <=> TerminalNoticeOutstanding(b, id)
  BY DEF Leaves, TerminalNoticeOutstanding, SameStream, SameQueue
<1>9. \A x : Sends(x, b) => Sends(x, c)
  BY DEF Leaves, Sends, Transmits, SameStream
<1>10. \A x : Retains(x, b) => Retains(x, c)
  BY <1>8 DEF Leaves, Retains, SameQueue
<1> QED
  BY <1>1, <1>3, <1>4, <1>5, <1>6, <1>7, <1>8, <1>9, <1>10 DEF BridgeFacts

\* A step with no request and no acknowledgement to answer.
Silent ==
    /\ UNCHANGED <<published, epoch, client, calls, settlements, login, answers, intents, requests, replies, acks>>
    /\ acks = <<>> /\ Running

LEMMA SilentKeeps ==
    ASSUME IInv, Silent, NEW n \in 0 .. Len(uiNotices),
           BridgeFacts(bridge', epoch, published, answers, CommandIds),
           Sends(bridge, bridge'), bridge'.nextId = bridge.nextId, bridge'.resync \in {bridge.resync, 0},
           \A id \in Nat \ {0} : TerminalNoticeOutstanding(bridge', id) =>
              \/ TerminalNoticeOutstanding(bridge, id) \/ id = bridge.resync
              \/ \E j \in 1 .. n : Terminal(uiNotices[j]) = id,
           uiNotices' \in Seq(UiNotices),
           \A k \in DOMAIN uiNotices' : k \in Nat \ {0} /\ k + n \in DOMAIN uiNotices /\ uiNotices'[k] = uiNotices[k + n],
           ExitOK', SlotsAwaitAnswers'
    PROVE  IInv'
<1>0. /\ TypeOK /\ CallsOK /\ ConnectOK /\ bridge.nextId \in Nat \ {0} /\ calls \in [Calls -> CallStates] /\ replies \subseteq Replies
      /\ Environment /\ client.rev \in Nat
  BY DEF IInv, BridgeFacts, BridgeTypeOK, TypeOK, CallFacts, ClientFacts, Environment
<1>1. CallsOK' /\ CommandIds' = CommandIds
  BY <1>0, CallsSame DEF Silent
<1>2. Mirror(bridge', epoch, client)
  BY <1>0, MirrorSends DEF IInv, BridgeFacts, ClientFacts
<1>3. AcksOK(bridge', epoch, acks')
  BY <1>0, AcksSends DEF IInv, BridgeFacts, ClientFacts, Silent
<1>4. Grows(bridge.last, bridge'.last) /\ bridge'.channel \in {bridge.channel, 0}
  BY SendsGrows
<1>5. ConnectOK'
  BY <1>0, <1>4, ConnectKeeps DEF Silent
<1>6. Follows(n)
  <2>1. bridge'.resync # bridge.nextId
    <3>1. bridge.resync # 0 => bridge.resync \in 1 .. bridge.nextId - 1
      BY DEF IInv, BridgeFacts, BridgeTypeOK, QueueOK
    <3> QED
      BY <1>0, <3>1
  <2>2. \A id \in 1 .. bridge.nextId - 1 : id \in Nat \ {0}
    BY <1>0
  <2>3. \A id \in 1 .. bridge.nextId - 1 : id # bridge.resync /\ TerminalNoticeOutstanding(bridge', id) =>
           TerminalNoticeOutstanding(bridge, id) \/ \E j \in 1 .. n : Terminal(uiNotices[j]) = id
    BY <2>2
  <2> QED
    BY <1>0, <1>4, <2>1, <2>3 DEF Follows, Silent
<1> HIDE DEF Follows
<1> QED
  BY <1>1, <1>2, <1>3, <1>5, <1>6, FollowsKeeps DEF Silent

LEMMA SlotsRetained ==
    ASSUME IInv, Retains(bridge, bridge'), UNCHANGED <<intents, uiNotices, login>>,
           bridge'.pending \subseteq bridge.pending, ~bridge'.started => ~bridge.started
    PROVE  SlotsAwaitAnswers'
<1>1. bridge.pending \subseteq Nat \ {0}
  BY PendingFinite DEF IInv, BridgeFacts
<1>2. SlotsAwaitAnswers
  BY DEF IInv, LoginFacts
<1> SUFFICES ASSUME ~bridge'.started, NEW id \in bridge'.pending, id \notin login.ids PROVE OnItsWay(id)'
  BY DEF SlotsAwaitAnswers
<1>3. OnItsWay(id) /\ id \in Nat \ {0}
  BY <1>1, <1>2 DEF SlotsAwaitAnswers
<1> QED
  BY <1>3 DEF OnItsWay, Retains

LEMMA KeptSilent ==
    ASSUME IInv, Silent, uiNotices' = uiNotices, NEW c, Keeps(bridge, c, answers, CommandIds), Leaves(c, bridge'),
           ~bridge'.failed
    PROVE  IInv'
<1>0. uiNotices \in Seq(UiNotices) /\ bridge.readyAcked = FALSE /\ Len(uiNotices) \in Nat /\ bridge.resync \in Nat
  BY DEF IInv, TypeOK, BridgeFacts, BridgeTypeOK, ClientFacts, ExitOK, Silent, Running
<1>1. /\ BridgeFacts(bridge', epoch, published, answers, CommandIds)
      /\ \A id : TerminalNoticeOutstanding(bridge', id) <=> TerminalNoticeOutstanding(c, id)
      /\ Sends(bridge, bridge') /\ Retains(bridge, bridge')
  BY LeavesKeeps DEF Keeps, Leads
<1>2. /\ bridge'.nextId = bridge.nextId /\ bridge'.resync \in {bridge.resync, 0} /\ bridge'.pending = bridge.pending
      /\ bridge'.started = bridge.started /\ bridge'.readyAcked = bridge.readyAcked
  BY DEF Keeps, Leads, Kept, Leaves, SameQueue
<1>3. \A id \in Nat \ {0} : TerminalNoticeOutstanding(bridge', id) => TerminalNoticeOutstanding(bridge, id) \/ id = bridge.resync
  BY <1>1 DEF Keeps, Leads
<1>4. SlotsAwaitAnswers'
  BY <1>1, <1>2, SlotsRetained DEF Silent
<1>5. ExitOK'
  BY <1>0, <1>2 DEF ExitOK
<1>6. \A k \in DOMAIN uiNotices' : k \in Nat \ {0} /\ k + 0 \in DOMAIN uiNotices /\ uiNotices'[k] = uiNotices[k + 0]
  BY <1>0
<1>7. 0 \in 0 .. Len(uiNotices) /\ uiNotices' \in Seq(UiNotices)
  BY <1>0
<1> HIDE DEF Silent
<1> QED
  BY <1>1, <1>2, <1>3, <1>4, <1>5, <1>6, <1>7, SilentKeeps

LEMMA EnvironmentHolds ==
    ASSUME IInv
    PROVE  Environment /\ BridgeFacts(bridge, epoch, published, answers, CommandIds) /\ BridgeTypeOK(bridge)
BY DEF IInv, TypeOK, Environment, BridgeFacts

LEMMA TickKeeps ==
    ASSUME IInv, NEW ok \in BOOLEAN, Tick(ok) \/ ShutdownTimeout(ok), UNCHANGED <<client, calls, settlements, coordinatorVars>>
    PROVE  IInv'
<1> DEFINE c == Pump(bridge, ok)
<1>1. Environment /\ BridgeFacts(bridge, epoch, published, answers, CommandIds)
  BY EnvironmentHolds
<1>2. Keeps(bridge, c, answers, CommandIds)
  BY <1>1, CommandIdsNat, PumpKeeps
<1>3. BridgeTypeOK(c) /\ c.exited = bridge.exited /\ bridge.exited \in BOOLEAN
  BY <1>1, <1>2 DEF Keeps, BridgeFacts, BridgeTypeOK, Leads, Kept
<1>4. Silent /\ uiNotices' = uiNotices
  BY DEF Tick, ShutdownTimeout, Reading, Silent, coordinatorVars
<1>5. Leaves(c, bridge') /\ ~bridge'.failed
  <2>1. CASE Tick(ok)
    <3>1. bridge' = [c EXCEPT !.failed = FALSE]
      BY <2>1 DEF Tick
    <3>2. Stays(c, bridge') /\ bridge'.failed = FALSE /\ BridgeTypeOK(bridge')
      BY <1>3, <3>1, FailedOnly
    <3>3. bridge'.exited \in BOOLEAN
      BY <3>2 DEF BridgeTypeOK
    <3> HIDE DEF c
    <3> QED
      BY <3>2, <3>3 DEF Stays, Kept, Leaves
  <2>2. CASE ShutdownTimeout(ok)
    <3>1. bridge' = [c EXCEPT !.exited = TRUE, !.failed = FALSE]
      BY <2>2 DEF ShutdownTimeout
    <3> HIDE DEF c
    <3> QED
      BY <1>3, <3>1, ExitFields
  <2> QED
    BY <2>1, <2>2
<1> HIDE DEF c, Silent
<1> QED
  BY <1>2, <1>4, <1>5, KeptSilent

LEMMA WatchChangedKeeps ==
    ASSUME IInv, NEW watch, WatchChanged(watch), UNCHANGED <<client, calls, settlements, coordinatorVars>>
    PROVE  IInv'
<1> DEFINE c == Observe(bridge, {watch})
<1>1. Environment /\ BridgeFacts(bridge, epoch, published, answers, CommandIds)
  BY EnvironmentHolds
<1>2. Keeps(bridge, c, answers, CommandIds) /\ c.failed = bridge.failed
  BY <1>1, ObserveKeeps
<1>3. bridge' = c /\ Silent /\ uiNotices' = uiNotices
  BY DEF WatchChanged, Listening, Reading, Silent, coordinatorVars
<1>4. BridgeTypeOK(c) /\ ~c.failed
  BY <1>2 DEF Keeps, BridgeFacts, IInv, ClientFacts, ExitOK
<1> HIDE DEF c, Silent
<1>5. Leaves(c, bridge')
  BY <1>3, <1>4 DEF Leaves, BridgeTypeOK, SameStream, SameQueue, SameView
<1> QED
  BY <1>2, <1>3, <1>4, <1>5, KeptSilent

LEMMA RequestCloseKeeps ==
    ASSUME IInv, RequestClose, UNCHANGED <<client, calls, settlements, coordinatorVars>>
    PROVE  IInv'
<1>1. Environment /\ BridgeFacts(bridge, epoch, published, answers, CommandIds) /\ BridgeTypeOK(bridge)
  BY EnvironmentHolds
<1> DEFINE b == bridge
           c == bridge'
<1>2. /\ IsBridge(c) /\ SameStream(b, c) /\ SameQueue(b, c) /\ SameView(b, c) /\ c.token = TRUE
      /\ c.nextId = b.nextId /\ c.pending = b.pending /\ c.started = b.started
      /\ c.readyAcked = b.readyAcked /\ c.overflow = b.overflow /\ c.failed = b.failed /\ c.exited = b.exited
  <2>1. IsBridge(b) /\ c = [b EXCEPT !.token = TRUE]
    BY <1>1 DEF BridgeTypeOK, RequestClose
  <2> QED
    BY <2>1 DEF IsBridge, SameStream, SameQueue, SameView
<1> HIDE DEF b, c
<1>3. BridgeTypeOK(c)
  BY <1>1, <1>2 DEF b, BridgeTypeOK, SameStream, SameQueue, SameView
<1>4. InFlightNotice(c) = InFlightNotice(b)
  BY <1>2 DEF InFlightNotice, SameStream
<1>5. StreamOK(c, epoch)
  BY <1>1, <1>2 DEF b, BridgeFacts, StreamOK, FrameOK, SameStream
<1>6. QueueOK(c)
  BY <1>1, <1>2, <1>4 DEF b, BridgeFacts, QueueOK, EntryOK, SameStream, SameQueue
<1>7. FreshOK(c, published)
  BY <1>1, <1>2 DEF b, BridgeFacts, FreshOK, SameStream, SameView
<1>8. ShutdownOK(c)
  BY <1>1, <1>2, <1>4 DEF b, BridgeFacts, ShutdownOK, SameStream, SameQueue
<1>9. CoverOK(c, published, answers, CommandIds)
  <2> HIDE DEF CommandIds
  <2> QED
    BY <1>1, <1>2, <1>4 DEF b, BridgeFacts, CoverOK, SameStream, SameQueue, SameView
<1>10. BridgeFacts(c, epoch, published, answers, CommandIds)
  BY <1>3, <1>5, <1>6, <1>7, <1>8, <1>9 DEF BridgeFacts
<1>11. \A id : TerminalNoticeOutstanding(c, id) <=> TerminalNoticeOutstanding(b, id)
  BY <1>2 DEF TerminalNoticeOutstanding, SameStream, SameQueue
<1>12. /\ UNCHANGED <<published, epoch, client, calls, settlements, login, answers, intents, requests, replies, acks, uiNotices>>
       /\ ~bridge.exited
  BY DEF RequestClose, Running, coordinatorVars
<1>13. SlotsAwaitAnswers'
  <2>1. Retains(b, c)
    BY <1>2, <1>11 DEF Retains, SameQueue
  <2> QED
    BY <1>2, <1>12, <2>1, SlotsRetained DEF b, c
<1>14. Mirror(c, epoch, client) /\ AcksOK(c, epoch, acks')
  <2>1. Mirror(b, epoch, client) /\ AcksOK(b, epoch, acks)
    BY DEF b, IInv, ClientFacts
  <2> QED
    BY <1>2, <1>12, <2>1 DEF Mirror, Delivered, AcksOK, SameStream
<1>15. TypeOK /\ CallsOK /\ ConnectOK /\ ExitOK /\ bridge.nextId \in Nat \ {0} /\ calls \in [Calls -> CallStates]
  BY <1>1 DEF IInv, ClientFacts, CallFacts, TypeOK, BridgeTypeOK
<1>16. CallsOK' /\ CommandIds' = CommandIds
  BY <1>2, <1>12, <1>15, CallsSame DEF b, c
<1>17. ConnectOK' /\ ExitOK'
  <2>1. bridge'.channel \in {bridge.channel, 0}
    BY <1>2 DEF b, c, SameStream
  <2>2. ExitOK'
    BY <1>2, <1>15 DEF ExitOK, b, c
  <2> QED
    BY <1>12, <1>15, <2>1, <2>2, ConnectKeeps
<1>18. Follows(0)
  <2>1. bridge'.resync = bridge.resync /\ bridge'.last = bridge.last /\ bridge'.nextId = bridge.nextId
    BY <1>2 DEF b, c, SameStream, SameQueue
  <2>2. bridge.resync # bridge.nextId
    <3>1. bridge.resync # 0 => bridge.resync \in 1 .. bridge.nextId - 1
      BY DEF IInv, BridgeFacts, BridgeTypeOK, QueueOK
    <3> QED
      BY <1>15, <3>1
  <2>3. \A id : TerminalNoticeOutstanding(bridge', id) => TerminalNoticeOutstanding(bridge, id)
    BY <1>11 DEF b, c
  <2>4. uiNotices \in Seq(UiNotices) /\ replies \subseteq Replies
    BY <1>15 DEF TypeOK
  <2>5. \A k \in DOMAIN uiNotices' : k \in Nat \ {0} /\ k + 0 \in DOMAIN uiNotices /\ uiNotices'[k] = uiNotices[k + 0]
    BY <1>12, <2>4
  <2> QED
    BY <1>12, <1>15, <2>1, <2>2, <2>3, <2>4, <2>5 DEF Follows, Grows
<1>19. CommandIds' \subseteq CommandIds \cup {bridge.nextId}
  BY <1>16
<1> HIDE DEF CommandIds
<1> QED
  BY <1>10, <1>12, <1>13, <1>14, <1>16, <1>17, <1>18, <1>19, FollowsKeeps DEF c

LEMMA NoticesAreReady ==
    ASSUME IInv, NEW b, b.resync = bridge.resync, b.notices = bridge.notices, b.inFlight = bridge.inFlight
    PROVE  NoticesReady(b, answers, CommandIds)
<1>1. \A id : TerminalNoticeOutstanding(b, id) <=> TerminalNoticeOutstanding(bridge, id)
  BY DEF TerminalNoticeOutstanding
<1>2. uiNotices \in Seq(UiNotices) /\ IdsOK /\ NoticesOK
  BY DEF IInv, TypeOK, LoginFacts
<1>3. \A k \in DOMAIN uiNotices : uiNotices[k].id # b.resync
  BY <1>2 DEF IdsOK, Apart
<1> HIDE DEF CommandIds
<1> QED
  BY <1>1, <1>2, <1>3 DEF NoticesOK, NoticesReady

LEMMA ReceiveNoticeKeeps ==
    ASSUME IInv, NEW ok \in BOOLEAN, ReceiveNotice(ok), UNCHANGED <<client, calls, settlements, coordinatorVars>>
    PROVE  IInv'
<1> DEFINE h == Head(uiNotices)
           c == HandleNotice(bridge, h, ok)
<1>1. Environment /\ BridgeFacts(bridge, epoch, published, answers, CommandIds) /\ BridgeTypeOK(bridge)
  BY EnvironmentHolds
<1>2. /\ Silent /\ ~bridge.started /\ uiNotices # <<>> /\ uiNotices' = Tail(uiNotices)
      /\ bridge' = [c EXCEPT !.exited = c.failed]
  BY DEF ReceiveNotice, Listening, Reading, Silent, coordinatorVars
<1>3. uiNotices \in Seq(UiNotices) /\ 1 \in DOMAIN uiNotices /\ h = uiNotices[1] /\ h \in UiNotices
  BY <1>2 DEF IInv, TypeOK
<1>4. NoticeReady(bridge, h, answers, CommandIds)
  <2>1. NoticesReady(bridge, answers, CommandIds)
    BY NoticesAreReady
  <2> HIDE DEF h, CommandIds
  <2> QED
    BY <1>3, <2>1 DEF NoticesReady, NoticeReady
<1>5. Handles(bridge, c, h, answers, CommandIds)
  BY <1>1, <1>2, <1>4, CommandIdsNat, HandleNoticeKeeps
<1>6. bridge.readyAcked = FALSE
  BY <1>1, <1>2 DEF IInv, ClientFacts, ExitOK, Silent, Running, BridgeTypeOK
<1> HIDE DEF c, h, Silent, CommandIds
<1>7. BridgeFacts(c, epoch, published, answers, CommandIds) /\ BridgeTypeOK(c) /\ c.failed = FALSE
  <2>1. BridgeFacts(c, epoch, published, answers, CommandIds) /\ ~c.failed
    BY <1>5 DEF Handles
  <2>2. BridgeTypeOK(c) /\ c.failed \in BOOLEAN
    BY <2>1 DEF BridgeFacts, BridgeTypeOK
  <2> QED
    BY <2>1, <2>2
<1>8. Leaves(c, bridge') /\ bridge'.failed = FALSE
  <2>1. bridge' = [c EXCEPT !.exited = FALSE, !.failed = FALSE]
    <3>1. IsBridge(c)
      BY <1>7 DEF BridgeTypeOK
    <3> QED
      BY <1>2, <1>7, <3>1 DEF IsBridge
  <2> QED
    BY <1>7, <2>1, ExitFields
<1>9. /\ BridgeFacts(bridge', epoch, published, answers, CommandIds)
      /\ \A id : TerminalNoticeOutstanding(bridge', id) <=> TerminalNoticeOutstanding(c, id)
      /\ Sends(bridge, bridge') /\ Retains(bridge, bridge')
  BY <1>5, <1>7, <1>8, LeavesKeeps DEF Handles
<1>10. /\ bridge'.nextId = bridge.nextId /\ bridge'.resync \in {bridge.resync, 0} /\ bridge'.pending = bridge.pending
       /\ bridge'.readyAcked = bridge.readyAcked
  BY <1>5, <1>8 DEF Handles, Kept, Leaves, SameQueue
<1>11. \A id \in Nat \ {0} : TerminalNoticeOutstanding(bridge', id) =>
          \/ TerminalNoticeOutstanding(bridge, id) \/ id = bridge.resync
          \/ \E j \in 1 .. 1 : Terminal(uiNotices[j]) = id
  BY <1>3, <1>5, <1>9 DEF Handles
<1>12. /\ uiNotices' \in Seq(UiNotices) /\ 1 \in 0 .. Len(uiNotices)
       /\ \A k \in DOMAIN uiNotices' : k \in Nat \ {0} /\ k + 1 \in DOMAIN uiNotices /\ uiNotices'[k] = uiNotices[k + 1]
  BY <1>2, <1>3
<1>13. ExitOK'
  BY <1>6, <1>8, <1>10 DEF ExitOK
<1>14. SlotsAwaitAnswers'
  <2> SUFFICES ASSUME NEW id \in bridge'.pending, id \notin login'.ids PROVE OnItsWay(id)'
    BY DEF SlotsAwaitAnswers
  <2>1. id \in bridge.pending /\ id \notin login.ids /\ id \in Nat \ {0}
    BY <1>1, <1>2, <1>10, PendingFinite DEF Silent
  <2>2. OnItsWay(id)
    BY <1>2, <2>1 DEF IInv, LoginFacts, SlotsAwaitAnswers
  <2>3. CASE bridge.resync = id \/ TerminalNoticeOutstanding(bridge, id)
    BY <1>9, <2>1, <2>3 DEF Retains, OnItsWay
  <2>4. CASE \E i \in DOMAIN intents : intents[i].id = id
    BY <1>2, <2>4 DEF Silent, OnItsWay
  <2>5. ASSUME NEW i \in DOMAIN uiNotices, uiNotices[i].id = id PROVE OnItsWay(id)'
    <3>1. CASE i = 1
      <4>1. h.id = id /\ h.kind \notin Authentication
        BY <1>3, <2>1, <2>5, <3>1 DEF IInv, LoginFacts, NoticesOK
      <4>2. TerminalNoticeOutstanding(c, id)
        BY <1>3, <1>5, <2>1, <4>1 DEF Handles, UiNotices
      <4> QED
        BY <1>9, <4>2 DEF OnItsWay
    <3>2. CASE i # 1
      <4>1. i - 1 \in DOMAIN uiNotices' /\ uiNotices'[i - 1] = uiNotices[i]
        BY <1>2, <1>3, <3>2
      <4> QED
        BY <2>5, <4>1 DEF OnItsWay
    <3> QED
      BY <3>1, <3>2
  <2> QED
    BY <2>2, <2>3, <2>4, <2>5 DEF OnItsWay
<1> QED
  BY <1>2, <1>9, <1>10, <1>11, <1>12, <1>13, <1>14, SilentKeeps

LEMMA ShutdownCancelledKeeps ==
    ASSUME IInv, NEW ok \in BOOLEAN, ShutdownCancelled(ok), UNCHANGED <<client, calls, settlements, coordinatorVars>>
    PROVE  IInv'
<1> DEFINE d == DrainAvailableNotices(bridge, ok)
           c == BeginShutdown(d, 0, ok)
<1>1. Environment /\ BridgeFacts(bridge, epoch, published, answers, CommandIds) /\ BridgeTypeOK(bridge)
  BY EnvironmentHolds
<1>2. 0 \notin CommandIds /\ CommandIds \subseteq Nat
  BY CommandIdsNat
<1>3. ~bridge.failed /\ ~bridge.started /\ bridge.readyAcked = FALSE
  BY <1>1 DEF IInv, ClientFacts, ExitOK, ShutdownCancelled, CloseAsked, Running, BridgeTypeOK
<1> HIDE DEF CommandIds
<1>4. Drains(bridge, d, Len(uiNotices), answers, CommandIds)
  BY <1>1, <1>2, <1>3, NoticesAreReady, DrainKeeps
<1>5. BridgeFacts(d, epoch, published, answers, CommandIds) /\ ~d.failed /\ ~d.started /\ BridgeTypeOK(d)
      /\ Kept(bridge, d) /\ Sends(bridge, d)
  BY <1>3, <1>4 DEF Drains, Kept, BridgeFacts
<1>6. Closes(d, c, 0, answers, CommandIds)
  BY <1>1, <1>2, <1>5, BeginShutdownKeeps
<1>7. BridgeFacts(c, epoch, published, answers, CommandIds) /\ BridgeTypeOK(c) /\ c.failed \in BOOLEAN
  BY <1>6 DEF Closes, BridgeFacts, BridgeTypeOK
<1>8. Silent /\ uiNotices' = <<>> /\ bridge' = [c EXCEPT !.exited = c.failed, !.failed = FALSE]
  BY <1>5 DEF ShutdownCancelled, Silent, coordinatorVars
<1>u. uiNotices \in Seq(UiNotices) /\ Len(uiNotices) \in Nat
  BY DEF IInv, TypeOK
<1> HIDE DEF c, d, Silent
<1>9. Leaves(c, bridge') /\ bridge'.failed = FALSE
  <2>1. PICK v \in BOOLEAN : v = c.failed
    BY <1>7
  <2>2. bridge' = [c EXCEPT !.exited = v, !.failed = FALSE]
    BY <1>8, <2>1
  <2> QED
    BY <1>7, <2>2, ExitFields
<1>10. Sends(bridge, c)
  BY <1>1, <1>5, <1>6, SendsTransitive DEF Closes
<1>11. /\ BridgeFacts(bridge', epoch, published, answers, CommandIds)
       /\ \A id : TerminalNoticeOutstanding(bridge', id) <=> TerminalNoticeOutstanding(c, id)
       /\ Sends(bridge, bridge')
  BY <1>7, <1>9, <1>10, LeavesKeeps
<1>12. /\ bridge'.nextId = bridge.nextId /\ bridge'.resync = 0 /\ bridge'.started
       /\ bridge'.readyAcked = FALSE
  BY <1>3, <1>5, <1>6, <1>9 DEF Closes, Kept, Leaves, SameQueue
<1>13. \A id \in Nat \ {0} : TerminalNoticeOutstanding(bridge', id) =>
          \/ TerminalNoticeOutstanding(bridge, id) \/ id = bridge.resync
          \/ \E j \in 1 .. Len(uiNotices) : Terminal(uiNotices[j]) = id
  <2>1. \A id \in Nat \ {0} : TerminalNoticeOutstanding(c, id) => TerminalNoticeOutstanding(d, id)
    BY <1>6 DEF Closes
  <2> QED
    BY <1>4, <1>11, <2>1 DEF Drains
<1>14. ExitOK' /\ SlotsAwaitAnswers'
  BY <1>9, <1>12 DEF ExitOK, SlotsAwaitAnswers
<1>15. /\ uiNotices' \in Seq(UiNotices) /\ Len(uiNotices) \in 0 .. Len(uiNotices)
       /\ \A k \in DOMAIN uiNotices' : k \in Nat \ {0} /\ k + Len(uiNotices) \in DOMAIN uiNotices
                                       /\ uiNotices'[k] = uiNotices[k + Len(uiNotices)]
  BY <1>8, <1>u
<1> QED
  BY <1>8, <1>11, <1>12, <1>13, <1>14, <1>15, SilentKeeps

-----------------------------------------------------------------------------
(* Requests. *)

LEMMA CoverMore ==
    ASSUME NEW b, NEW page, NEW pub, NEW ans, NEW cmds, NEW x, BridgeFacts(b, page, pub, ans, cmds),
           x \notin b.pending, x # 0
    PROVE  BridgeFacts(b, page, pub, ans, cmds \cup {x}) /\ ~TerminalNoticeOutstanding(b, x)
<1>1. b.resync # x
  BY DEF BridgeFacts, QueueOK
<1>2. \A i \in DOMAIN b.notices : b.notices[i].id # x /\ b.notices[i].terminal # x
  BY DEF BridgeFacts, QueueOK, EntryOK
<1>3. InFlightNotice(b) => b.inFlight.notice.id # x /\ b.inFlight.notice.terminal # x
  BY DEF BridgeFacts, QueueOK, EntryOK
<1>4. CoverOK(b, pub, ans, cmds \cup {x})
  BY <1>1, <1>2, <1>3 DEF BridgeFacts, CoverOK
<1>5. ~TerminalNoticeOutstanding(b, x)
  BY <1>2, <1>3 DEF TerminalNoticeOutstanding, InFlightNotice
<1> QED
  BY <1>4, <1>5 DEF BridgeFacts

Results == {"ok", "busy", "invalid", "fatal"}

\* The next request was answered, and n notices were taken with it.
Responds(n, result, id) ==
    /\ UNCHANGED <<published, epoch, acks, client, calls, settlements, login, answers>>
    /\ acks = <<>> /\ Running /\ requests # <<>> /\ requests' = Tail(requests)
    /\ Reply(Head(requests), result, id) /\ result \in Results /\ id \in Nat
    /\ bridge.nextId <= bridge'.nextId
    /\ Head(requests).call \in Calls =>
          \/ result = "ok" /\ id = bridge.nextId /\ bridge'.nextId = bridge.nextId + 1 /\ bridge'.resync # bridge.nextId
          \/ result # "ok" /\ id = 0
    /\ uiNotices' \in Seq(UiNotices) /\ n \in 0 .. Len(uiNotices)
    /\ \A k \in DOMAIN uiNotices' : k \in Nat \ {0} /\ k + n \in DOMAIN uiNotices /\ uiNotices'[k] = uiNotices[k + n]

LEMMA RespondsFacts ==
    ASSUME IInv, NEW n, NEW result, NEW id, Responds(n, result, id), BridgeTypeOK(bridge')
    PROVE  /\ CallsOK' /\ CommandIds' \subseteq CommandIds \cup {bridge.nextId}
           /\ result # "ok" \/ Head(requests).call \notin Calls \/ Head(requests).kind = "login" => CommandIds' = CommandIds
           /\ replies' \subseteq Replies
           /\ \A r \in replies' : r \in replies \/ (r.call \in Calls /\ r.id # 0 =>
                 r.id = bridge.nextId /\ bridge.nextId < bridge'.nextId /\ bridge'.resync # bridge.nextId)
<1>1. TypeOK /\ CallsOK /\ bridge.nextId \in Nat \ {0} /\ bridge'.nextId \in Nat
  BY EnvironmentHolds DEF IInv, CallFacts, BridgeTypeOK
<1>2. /\ CallsOK' /\ CommandIds' \subseteq CommandIds \cup {bridge.nextId}
      /\ result # "ok" \/ Head(requests).call \notin Calls \/ Head(requests).kind = "login" => CommandIds' = CommandIds
  BY <1>1, CallsAnswered DEF Responds
<1> DEFINE h == Head(requests)
           new == [call |-> h.call, result |-> result, id |-> id]
<1>3. h \in Requests
  BY <1>1 DEF TypeOK, Responds
<1>4. replies' = replies \/ replies' = replies \cup {new}
  BY DEF Responds, Reply, Answer
<1>5. new \in Replies
  BY <1>3 DEF Responds, Requests, Replies, Results
<1>6. new.call = h.call /\ new.id = id
  OBVIOUS
<1>7. replies' \subseteq Replies
  BY <1>1, <1>4, <1>5 DEF TypeOK
<1>8. new.call \in Calls /\ new.id # 0 =>
        new.id = bridge.nextId /\ bridge.nextId < bridge'.nextId /\ bridge'.resync # bridge.nextId
  BY <1>1, <1>6 DEF Responds
<1> HIDE DEF new
<1>9. \A r \in replies' : r \in replies \/ (r.call \in Calls /\ r.id # 0 =>
                 r.id = bridge.nextId /\ bridge.nextId < bridge'.nextId /\ bridge'.resync # bridge.nextId)
  BY <1>4, <1>8
<1> QED
  BY <1>2, <1>7, <1>9

LEMMA RespondsKeeps ==
    ASSUME IInv, NEW n, NEW result, NEW id, Responds(n, result, id),
           BridgeFacts(bridge', epoch, published, answers, CommandIds'),
           Grows(bridge.last, bridge'.last), bridge'.resync \in {bridge.resync, bridge.nextId, 0},
           bridge'.resync = bridge.nextId => bridge.nextId < bridge'.nextId,
           \A x \in Nat \ {0} : x # bridge.nextId /\ TerminalNoticeOutstanding(bridge', x) =>
              \/ TerminalNoticeOutstanding(bridge, x) \/ x = bridge.resync
              \/ \E j \in 1 .. n : Terminal(uiNotices[j]) = x,
           Mirror(bridge', epoch, client), AcksOK(bridge', epoch, acks'), ConnectOK',
           intents' = intents \/ \E x : Joins(x), ExitOK', SlotsAwaitAnswers'
    PROVE  IInv'
<1>1. BridgeTypeOK(bridge') /\ bridge.nextId \in Nat \ {0}
  BY EnvironmentHolds DEF BridgeFacts, BridgeTypeOK
<1>2. /\ CallsOK' /\ CommandIds' \subseteq CommandIds \cup {bridge.nextId}
      /\ replies' \subseteq Replies
      /\ \A r \in replies' : r \in replies \/ (r.call \in Calls /\ r.id # 0 =>
            r.id = bridge.nextId /\ bridge.nextId < bridge'.nextId /\ bridge'.resync # bridge.nextId)
  BY <1>1, RespondsFacts
<1>3. \A x \in 1 .. bridge.nextId - 1 : x \in Nat \ {0} /\ x # bridge.nextId
  BY <1>1
<1>4. \A x \in 1 .. bridge.nextId - 1 : x # bridge.resync /\ TerminalNoticeOutstanding(bridge', x) =>
         TerminalNoticeOutstanding(bridge, x) \/ \E j \in 1 .. n : Terminal(uiNotices[j]) = x
  BY <1>3
<1>5. Follows(n)
  BY <1>2, <1>4 DEF Follows, Responds
<1> HIDE DEF Follows, CommandIds
<1> QED
  BY <1>2, <1>5, FollowsKeeps

\* The same when the stream went on.
LEMMA RespondsSending ==
    ASSUME IInv, NEW n, NEW result, NEW id, Responds(n, result, id),
           BridgeFacts(bridge', epoch, published, answers, CommandIds'),
           Sends(bridge, bridge'), bridge'.resync \in {bridge.resync, bridge.nextId, 0},
           bridge'.resync = bridge.nextId => bridge.nextId < bridge'.nextId,
           \A x \in Nat \ {0} : x # bridge.nextId /\ TerminalNoticeOutstanding(bridge', x) =>
              \/ TerminalNoticeOutstanding(bridge, x) \/ x = bridge.resync
              \/ \E j \in 1 .. n : Terminal(uiNotices[j]) = x,
           intents' = intents \/ \E x : Joins(x), ExitOK', SlotsAwaitAnswers'
    PROVE  IInv'
<1>1. Environment /\ BridgeTypeOK(bridge) /\ StreamOK(bridge, epoch) /\ TypeOK /\ ConnectOK /\ client.rev \in Nat
  BY EnvironmentHolds DEF IInv, BridgeFacts, ClientFacts, TypeOK
<1>2. Mirror(bridge', epoch, client) /\ AcksOK(bridge', epoch, acks')
  BY <1>1, MirrorSends, AcksSends DEF IInv, ClientFacts, Responds
<1>3. Grows(bridge.last, bridge'.last) /\ bridge'.channel \in {bridge.channel, 0}
  BY SendsGrows
<1>4. ConnectOK'
  BY <1>1, <1>3, ConnectKeeps DEF Responds
<1> HIDE DEF Responds
<1> QED
  BY <1>2, <1>3, <1>4, RespondsKeeps

\* An identifier was issued; p are the requests now pending, r the one of a resynchronization.
Issues(b, c, p, r) ==
    /\ IsBridge(c) /\ SameStream(b, c) /\ SameView(b, c) /\ c.notices = b.notices
    /\ c.pending = p /\ c.nextId = b.nextId + 1 /\ c.resync = r
    /\ c.token = b.token /\ c.started = b.started /\ c.readyAcked = b.readyAcked
    /\ c.exited = b.exited /\ c.failed = b.failed /\ c.overflow = b.overflow

LEMMA IssuedKeeps ==
    ASSUME IInv, NEW p, NEW r, NEW c, bridge.pending \subseteq p, p \subseteq 1 .. bridge.nextId,
           Cardinality(p) <= MaxPending,
           r = bridge.resync \/ (r = bridge.nextId /\ r \in p /\ ~bridge.started),
           Issues(bridge, c, p, r)
    PROVE  /\ BridgeFacts(c, epoch, published, answers, CommandIds) /\ BridgeTypeOK(c)
           /\ Sends(bridge, c)
           /\ \A x : TerminalNoticeOutstanding(c, x) <=> TerminalNoticeOutstanding(bridge, x)
<1> DEFINE b == bridge
<1>1. /\ BridgeFacts(b, epoch, published, answers, CommandIds) /\ BridgeTypeOK(b)
      /\ b.nextId \in Nat \ {0} /\ b.nextId \notin b.pending /\ b.resync \in Nat
  BY EnvironmentHolds DEF BridgeTypeOK
<1>2. /\ IsBridge(c) /\ SameStream(b, c) /\ SameView(b, c) /\ c.notices = b.notices
      /\ c.pending = p /\ c.nextId = b.nextId + 1 /\ c.resync = r
      /\ c.token = b.token /\ c.started = b.started /\ c.readyAcked = b.readyAcked
      /\ c.exited = b.exited /\ c.failed = b.failed /\ c.overflow = b.overflow
  BY DEF Issues, b
<1>c. b.nextId \notin CommandIds
  <2>1. CommandIds \subseteq 1 .. bridge.nextId - 1
    BY CommandIdsNat
  <2> HIDE DEF CommandIds
  <2> QED
    BY <1>1, <2>1
<1> HIDE DEF b, CommandIds
<1>r. r \in Nat
  BY <1>1 DEF b
<1>i. InFlightNotice(c) = InFlightNotice(b) /\ c.inFlight = b.inFlight
  BY <1>2 DEF InFlightNotice, SameStream
<1>3. BridgeTypeOK(c)
  <2>1. c.pending \subseteq 1 .. c.nextId - 1 /\ c.nextId \in Nat \ {0}
    BY <1>1, <1>2 DEF b
  <2> QED
    BY <1>1, <1>2, <1>r, <2>1 DEF BridgeTypeOK, SameStream, SameView
<1>4. StreamOK(c, epoch)
  BY <1>1, <1>2 DEF BridgeFacts, StreamOK, FrameOK, SameStream
<1>5. QueueOK(c)
  <2>1. \A n : EntryOK(b, n) => EntryOK(c, n)
    BY <1>2 DEF EntryOK, b
  <2>2. \A i \in DOMAIN b.notices : b.notices[i].id # b.nextId
    BY <1>1 DEF BridgeFacts, QueueOK, EntryOK
  <2>3. InFlightNotice(b) => b.inFlight.notice.id # b.nextId
    BY <1>1 DEF BridgeFacts, QueueOK, EntryOK
  <2>4. c.resync # 0 =>
          /\ c.resync \in c.pending
          /\ \A i \in DOMAIN c.notices : c.notices[i].id # c.resync
          /\ InFlightNotice(c) => c.inFlight.notice.id # c.resync
    <3>1. CASE r = b.resync
      BY <1>1, <1>2, <1>i, <3>1 DEF BridgeFacts, QueueOK, b
    <3>2. CASE r = b.nextId /\ r \in p
      BY <1>2, <1>i, <2>2, <2>3, <3>2
    <3> QED
      BY <3>1, <3>2 DEF b
  <2> QED
    BY <1>1, <1>2, <1>i, <2>1, <2>4 DEF BridgeFacts, QueueOK
<1>6. FreshOK(c, published)
  BY <1>1, <1>2 DEF BridgeFacts, FreshOK, SameStream, SameView
<1>7. ShutdownOK(c)
  <2>1. c.started => c.token /\ c.resync = 0
    BY <1>1, <1>2 DEF BridgeFacts, ShutdownOK, b
  <2> QED
    BY <1>1, <1>2, <1>i, <2>1 DEF BridgeFacts, ShutdownOK, SameStream
<1>8. CoverOK(c, published, answers, CommandIds)
  <2>1. c.resync \notin CommandIds
    BY <1>1, <1>2, <1>c DEF BridgeFacts, CoverOK, b
  <2> QED
    BY <1>1, <1>2, <1>i, <2>1 DEF BridgeFacts, CoverOK, SameStream, SameView
<1>9. Sends(b, c)
  BY <1>2 DEF Sends
<1>10. \A x : TerminalNoticeOutstanding(c, x) <=> TerminalNoticeOutstanding(b, x)
  BY <1>2 DEF TerminalNoticeOutstanding, SameStream
<1> QED
  BY <1>2, <1>3, <1>4, <1>5, <1>6, <1>7, <1>8, <1>9, <1>10 DEF BridgeFacts, b

LEMMA IssuedAlone ==
    ASSUME IInv
    PROVE  LET c == Issued IN
           /\ BridgeFacts(c, epoch, published, answers, CommandIds) /\ BridgeTypeOK(c)
           /\ Issues(bridge, c, bridge.pending, bridge.resync)
           /\ Sends(bridge, c) /\ Retains(bridge, c)
           /\ \A x : TerminalNoticeOutstanding(c, x) <=> TerminalNoticeOutstanding(bridge, x)
<1> DEFINE c == Issued
<1>1. BridgeTypeOK(bridge) /\ Cardinality(bridge.pending) <= MaxPending /\ bridge.nextId \in Nat \ {0}
  BY EnvironmentHolds DEF BridgeFacts, QueueOK, BridgeTypeOK
<1>2. bridge.pending \subseteq 1 .. bridge.nextId
  BY <1>1 DEF BridgeTypeOK
<1>3. Issues(bridge, c, bridge.pending, bridge.resync)
  BY <1>1 DEF BridgeTypeOK, IsBridge, Issued, Issues, SameStream, SameView
<1> HIDE DEF c, CommandIds
<1>7. /\ BridgeFacts(c, epoch, published, answers, CommandIds) /\ BridgeTypeOK(c) /\ Sends(bridge, c)
      /\ \A x : TerminalNoticeOutstanding(c, x) <=> TerminalNoticeOutstanding(bridge, x)
  BY <1>1, <1>2, <1>3, IssuedKeeps
<1>9. Retains(bridge, c)
  BY <1>3, <1>7 DEF Retains, Issues
<1> QED
  BY <1>3, <1>7, <1>9 DEF c

LEMMA HeadFacts ==
    ASSUME IInv, requests # <<>>
    PROVE  LET h == Head(requests) IN
           /\ h \in Requests /\ (h.call \in Calls <=> h.kind \in CommandKinds \cup {"login"})
           /\ h.page <= epoch /\ (h.kind = "cancel" /\ h.target # 0 => Apart(bridge, h.target))
           /\ 1 \in DOMAIN requests /\ h = requests[1]
<1>1. requests \in Seq(Requests) /\ CallsOK /\ ConnectOK /\ IdsOK
  BY DEF IInv, TypeOK, CallFacts, ClientFacts, LoginFacts
<1>2. 1 \in DOMAIN requests /\ Head(requests) = requests[1] /\ requests[1] \in Requests
  BY <1>1
<1> QED
  BY <1>1, <1>2 DEF CallsOK, ConnectOK, IdsOK

\* The step answers the next request and takes no notice.
Plain(result, id) ==
    /\ TakeRequest /\ uiNotices' = uiNotices /\ UNCHANGED <<client, calls, settlements, coordinatorVars>>
    /\ Reply(Head(requests), result, id)

LEMMA PlainResponds ==
    ASSUME IInv, NEW result \in Results, NEW id \in Nat, Plain(result, id), bridge.nextId <= bridge'.nextId,
           Head(requests).call \in Calls =>
              \/ result = "ok" /\ id = bridge.nextId /\ bridge'.nextId = bridge.nextId + 1 /\ bridge'.resync # bridge.nextId
              \/ result # "ok" /\ id = 0
    PROVE  Responds(0, result, id)
<1>1. uiNotices \in Seq(UiNotices)
  BY DEF IInv, TypeOK
<1>2. uiNotices' = uiNotices
  BY DEF Plain
<1>3. /\ uiNotices' \in Seq(UiNotices) /\ 0 \in 0 .. Len(uiNotices)
      /\ \A k \in DOMAIN uiNotices' : k \in Nat \ {0} /\ k + 0 \in DOMAIN uiNotices /\ uiNotices'[k] = uiNotices[k + 0]
  BY <1>1, <1>2
<1> QED
  BY <1>3 DEF Responds, Plain, TakeRequest, Reading, coordinatorVars

LEMMA SlotsGain ==
    ASSUME IInv, Retains(bridge, bridge'), UNCHANGED <<uiNotices, login>>, ~bridge'.started => ~bridge.started,
           intents' = intents \/ \E x : intents' = Append(intents, x),
           \A id \in bridge'.pending : id \in bridge.pending \/ OnItsWay(id)'
    PROVE  SlotsAwaitAnswers'
<1>1. bridge.pending \subseteq Nat \ {0} /\ intents \in Seq(Intents)
  BY PendingFinite DEF IInv, BridgeFacts, TypeOK
<1>2. SlotsAwaitAnswers
  BY DEF IInv, LoginFacts
<1> SUFFICES ASSUME ~bridge'.started, NEW id \in bridge'.pending, id \notin login.ids, id \in bridge.pending PROVE OnItsWay(id)'
  BY DEF SlotsAwaitAnswers
<1>3. OnItsWay(id) /\ id \in Nat \ {0}
  BY <1>1, <1>2 DEF SlotsAwaitAnswers
<1>4. \A i \in DOMAIN intents : i \in DOMAIN intents' /\ intents'[i] = intents[i]
  BY <1>1
<1>5. CASE bridge.resync = id \/ TerminalNoticeOutstanding(bridge, id)
  BY <1>3, <1>5 DEF OnItsWay, Retains
<1>6. CASE \E i \in DOMAIN intents : intents[i].id = id
  BY <1>4, <1>6 DEF OnItsWay
<1>7. CASE \E i \in DOMAIN uiNotices : uiNotices[i].id = id
  BY <1>7 DEF OnItsWay
<1> QED
  BY <1>3, <1>5, <1>6, <1>7 DEF OnItsWay

LEMMA ExitStays ==
    ASSUME IInv, bridge'.readyAcked = bridge.readyAcked, bridge'.exited = bridge.exited, ~bridge'.failed
    PROVE  ExitOK'
BY DEF IInv, ClientFacts, ExitOK

LEMMA ResyncBelow ==
    ASSUME IInv
    PROVE  bridge.resync # bridge.nextId /\ bridge.nextId \in Nat \ {0} /\ bridge.nextId \notin bridge.pending
<1>1. bridge.resync # 0 => bridge.resync \in 1 .. bridge.nextId - 1
  BY DEF IInv, BridgeFacts, BridgeTypeOK, QueueOK
<1>2. bridge.nextId \in Nat \ {0} /\ bridge.pending \subseteq 1 .. bridge.nextId - 1
  BY DEF IInv, BridgeFacts, BridgeTypeOK
<1> QED
  BY <1>1, <1>2

LEMMA UnchangedKeeps ==
    ASSUME IInv, NEW result \in Results \ {"ok"}, Plain(result, 0), UNCHANGED <<bridge, intents>>
    PROVE  IInv'
<1>1. BridgeTypeOK(bridge) /\ BridgeFacts(bridge, epoch, published, answers, CommandIds)
  BY EnvironmentHolds
<1>2. Responds(0, result, 0)
  BY <1>1, PlainResponds DEF BridgeTypeOK
<1>3. CommandIds' = CommandIds
  BY <1>1, <1>2, RespondsFacts
<1>4. Sends(bridge, bridge') /\ Retains(bridge, bridge')
  BY DEF Sends, SameStream, Retains
<1>5. ExitOK'
  BY ExitStays DEF IInv, ClientFacts, ExitOK
<1>6. SlotsAwaitAnswers'
  BY <1>4, SlotsGain DEF Plain, coordinatorVars
<1> HIDE DEF CommandIds, Responds
<1> QED
  BY <1>1, <1>2, <1>3, <1>4, <1>5, <1>6, ResyncBelow, RespondsSending

LEMMA RefuseDispatchKeeps ==
    ASSUME IInv, RefuseDispatch, UNCHANGED <<client, calls, settlements, coordinatorVars>>
    PROVE  IInv'
<1>1. \E result \in {"fatal", "invalid"} : Plain(result, 0)
  BY DEF RefuseDispatch, Plain
<1>2. UNCHANGED <<bridge, intents>>
  BY DEF RefuseDispatch
<1> QED
  BY <1>1, <1>2, UnchangedKeeps DEF Results

\* A request that only used up an identifier.
LEMMA IssuedStep ==
    ASSUME IInv, NEW result \in Results, NEW id \in Nat, Plain(result, id), bridge' = Issued,
           (result # "ok" /\ id = 0) \/ Head(requests).call \notin Calls,
           \/ intents' = intents
           \/ \E x : intents' = Append(intents, x) /\ x \in Intents /\ x.kind = "cancel" /\ Apart(bridge, x.id)
    PROVE  IInv'
<1>1. /\ BridgeFacts(bridge', epoch, published, answers, CommandIds) /\ BridgeTypeOK(bridge')
      /\ Issues(bridge, bridge', bridge.pending, bridge.resync)
      /\ Sends(bridge, bridge') /\ Retains(bridge, bridge')
      /\ \A x : TerminalNoticeOutstanding(bridge', x) <=> TerminalNoticeOutstanding(bridge, x)
  BY IssuedAlone
<1>2. /\ bridge'.nextId = bridge.nextId + 1 /\ bridge.nextId \in Nat \ {0} /\ bridge'.resync = bridge.resync
      /\ bridge'.pending = bridge.pending /\ bridge'.started = bridge.started /\ ~bridge'.failed
      /\ bridge.resync # bridge.nextId /\ bridge.nextId <= bridge'.nextId
  BY <1>1, ResyncBelow DEF Issues, IInv, ClientFacts, ExitOK
<1>3. Responds(0, result, id)
  BY <1>2, PlainResponds
<1>4. CommandIds' = CommandIds
  BY <1>1, <1>3, RespondsFacts
<1>5. ExitOK'
  BY <1>1, <1>2, ExitStays DEF Issues
<1>6. SlotsAwaitAnswers'
  BY <1>1, <1>2, SlotsGain DEF Plain, coordinatorVars
<1>7. intents' = intents \/ \E x : Joins(x)
  <2>1. ASSUME NEW x, intents' = Append(intents, x), x \in Intents, x.kind = "cancel", Apart(bridge, x.id) PROVE Joins(x)
    <3>1. x.id \in Nat
      BY <2>1 DEF Intents
    <3>2. Apart(bridge', x.id)
      BY <1>2, <2>1, <3>1 DEF Apart
    <3> QED
      BY <2>1, <3>2 DEF Joins
  <2> QED
    BY <2>1
<1> HIDE DEF CommandIds, Responds, Joins
<1>8. BridgeFacts(bridge', epoch, published, answers, CommandIds')
  BY <1>1, <1>4
<1>9. \A x \in Nat \ {0} : x # bridge.nextId /\ TerminalNoticeOutstanding(bridge', x) =>
              \/ TerminalNoticeOutstanding(bridge, x) \/ x = bridge.resync
              \/ \E j \in 1 .. 0 : Terminal(uiNotices[j]) = x
  BY <1>1
<1> QED
  BY <1>1, <1>2, <1>3, <1>5, <1>6, <1>7, <1>8, <1>9, RespondsSending

LEMMA CancelAuthenticationKeeps ==
    ASSUME IInv, CancelAuthentication, UNCHANGED <<client, calls, settlements, coordinatorVars>>
    PROVE  IInv'
<1> DEFINE h == Head(requests)
           x == [kind |-> "cancel", id |-> h.target, target |-> h.target]
<1>1. TakeRequest /\ uiNotices' = uiNotices /\ bridge' = Issued /\ h.kind = "cancel" /\ requests # <<>>
  BY DEF CancelAuthentication, Dispatch, TakeRequest
<1>2. h \in Requests /\ h.call \notin Calls /\ (h.target # 0 => Apart(bridge, h.target)) /\ h.target \in Nat
  BY <1>1, HeadFacts DEF CommandKinds, Requests
<1>3. CASE h.target \notin bridge.pending
  <2>1. Plain("invalid", 0) /\ intents' = intents
    BY <1>1, <1>3 DEF CancelAuthentication, Plain
  <2> HIDE DEF h, Plain
  <2> QED
    BY <1>1, <2>1, IssuedStep DEF Results
<1>4. CASE h.target \in bridge.pending /\ Len(intents) >= MaxIntents
  <2>1. Plain("busy", 0) /\ intents' = intents
    BY <1>1, <1>4 DEF CancelAuthentication, Plain
  <2> HIDE DEF h, Plain
  <2> QED
    BY <1>1, <2>1, IssuedStep DEF Results
<1>5. CASE h.target \in bridge.pending /\ ~(Len(intents) >= MaxIntents)
  <2>1. Plain("ok", h.target) /\ intents' = Append(intents, x)
    BY <1>1, <1>5 DEF CancelAuthentication, Plain
  <2>2. h.target # 0
    BY <1>5, EnvironmentHolds, PendingFinite
  <2>3. x \in Intents /\ x.kind = "cancel" /\ Apart(bridge, x.id)
    BY <1>2, <2>2 DEF Intents
  <2>4. h.call \notin Calls /\ h.target \in Nat
    BY <1>2
  <2> HIDE DEF Plain, x
  <2> QED
    BY <1>1, <2>1, <2>3, <2>4, IssuedStep DEF Results
<1> QED
  BY <1>3, <1>4, <1>5

LEMMA AddPending ==
    ASSUME IInv, Cardinality(bridge.pending) < MaxPending, NEW p, p = bridge.pending \cup {bridge.nextId}
    PROVE  bridge.pending \subseteq p /\ p \subseteq 1 .. bridge.nextId /\ Cardinality(p) <= MaxPending
<1>1. /\ IsFiniteSet(bridge.pending) /\ Cardinality(bridge.pending) \in Nat /\ bridge.nextId \in Nat \ {0}
      /\ bridge.pending \subseteq 1 .. bridge.nextId - 1
  BY EnvironmentHolds, PendingFinite DEF BridgeTypeOK
<1>2. bridge.nextId \notin bridge.pending
  BY <1>1
<1>3. Cardinality(p) = Cardinality(bridge.pending) + 1
  BY <1>1, <1>2, FS_AddElement
<1> QED
  BY <1>1, <1>3, CapacityAssumption

LEMMA AdmitIntentKeeps ==
    ASSUME IInv, AdmitIntent, UNCHANGED <<client, calls, settlements, coordinatorVars>>
    PROVE  IInv'
<1> DEFINE h == Head(requests)
           new == bridge.nextId
           p == bridge.pending \cup {new}
           x == [kind |-> h.kind, id |-> new, target |-> h.target]
<1>1. TakeRequest /\ uiNotices' = uiNotices /\ h.kind \in CommandKinds \cup {"login"} /\ requests # <<>> /\ ~bridge.started
  BY DEF AdmitIntent, Dispatch, TakeRequest, CommandKinds
<1>2. h \in Requests /\ h.call \in Calls /\ h.target \in Nat /\ new \in Nat \ {0} /\ new # bridge.resync /\ new \notin bridge.pending
  BY <1>1, HeadFacts, ResyncBelow DEF Requests
<1>3. Refusal(h) \in {"none", "invalid", "fatal"}
  BY DEF Refusal
<1>4. CASE Refusal(h) = "fatal"
  <2>1. Plain("fatal", 0) /\ UNCHANGED <<bridge, intents>>
    BY <1>1, <1>4 DEF AdmitIntent, Plain
  <2> HIDE DEF Plain
  <2> QED
    BY <2>1, UnchangedKeeps DEF Results
<1>5. CASE Refusal(h) = "invalid"
  <2>1. Plain("invalid", 0) /\ bridge' = Issued /\ intents' = intents
    BY <1>1, <1>5 DEF AdmitIntent, Plain
  <2> HIDE DEF Plain
  <2> QED
    BY <2>1, IssuedStep DEF Results
<1>6. CASE Refusal(h) = "none" /\ (Cardinality(bridge.pending) >= MaxPending \/ Len(intents) >= MaxIntents)
  <2>1. Plain("busy", 0) /\ bridge' = Issued /\ intents' = intents
    BY <1>1, <1>6 DEF AdmitIntent, Plain
  <2> HIDE DEF Plain
  <2> QED
    BY <2>1, IssuedStep DEF Results
<1>7. CASE Refusal(h) = "none" /\ ~(Cardinality(bridge.pending) >= MaxPending \/ Len(intents) >= MaxIntents)
  <2>1. Plain("ok", new) /\ bridge' = [Issued EXCEPT !.pending = @ \cup {new}] /\ intents' = Append(intents, x)
    BY <1>1, <1>7 DEF AdmitIntent, Plain
  <2>2. Issues(bridge, bridge', p, bridge.resync)
    <3>1. IsBridge(bridge)
      BY EnvironmentHolds DEF BridgeTypeOK
    <3> QED
      BY <2>1, <3>1 DEF IsBridge, Issued, Issues, SameStream, SameView
  <2>3. bridge.pending \subseteq p /\ p \subseteq 1 .. bridge.nextId /\ Cardinality(p) <= MaxPending
    <3>1. Cardinality(bridge.pending) < MaxPending
      BY <1>7, EnvironmentHolds, PendingFinite, CapacityAssumption
    <3> HIDE DEF p
    <3>2. p = bridge.pending \cup {bridge.nextId}
      BY DEF p
    <3> QED
      BY <3>1, <3>2, AddPending
  <2>4. x \in Intents /\ x.id = new /\ x.kind = h.kind
    BY <1>1, <1>2 DEF Intents, CommandKinds
  <2>5. /\ BridgeFacts(bridge, epoch, published, answers, CommandIds \cup {new})
        /\ ~TerminalNoticeOutstanding(bridge, new)
    BY <1>2, EnvironmentHolds, CoverMore
  <2>6. new \notin CommandIds
    <3>1. CommandIds \subseteq 1 .. bridge.nextId - 1
      BY CommandIdsNat
    <3> HIDE DEF CommandIds
    <3> QED
      BY <1>2, <3>1
  <2>i. intents \in Seq(Intents)
    BY DEF IInv, TypeOK
  <2> HIDE DEF x, p, Plain, CommandIds
  <2>7. /\ BridgeFacts(bridge', epoch, published, answers, CommandIds) /\ BridgeTypeOK(bridge')
        /\ Sends(bridge, bridge')
        /\ \A y : TerminalNoticeOutstanding(bridge', y) <=> TerminalNoticeOutstanding(bridge, y)
    BY <2>2, <2>3, IssuedKeeps
  <2>8. /\ bridge'.nextId = new + 1 /\ bridge'.resync = bridge.resync /\ bridge'.started = bridge.started
        /\ bridge'.pending = p /\ new <= bridge'.nextId /\ ~bridge'.failed
    BY <1>2, <2>2 DEF Issues, IInv, ClientFacts, ExitOK
  <2>9. Responds(0, "ok", new)
    <3> HIDE DEF h
    <3>1. h.call \in Calls => "ok" = "ok" /\ new = bridge.nextId /\ bridge'.nextId = bridge.nextId + 1 /\ bridge'.resync # bridge.nextId
      BY <1>2, <2>8
    <3> QED
      BY <1>2, <2>1, <2>8, <3>1, PlainResponds DEF Results, h
  <2>10. CommandIds' \subseteq CommandIds \cup {new} /\ (h.kind = "login" => CommandIds' = CommandIds)
    BY <2>7, <2>9, RespondsFacts
  <2>11. BridgeFacts(bridge', epoch, published, answers, CommandIds')
    <3>1. CoverOK(bridge', published, answers, CommandIds \cup {new})
      <4>1. InFlightNotice(bridge') = InFlightNotice(bridge)
        BY <2>2 DEF Issues, InFlightNotice, SameStream
      <4> QED
        BY <2>2, <2>5, <4>1 DEF BridgeFacts, CoverOK, Issues, SameStream, SameView
    <3>2. BridgeFacts(bridge', epoch, published, answers, CommandIds \cup {new})
      BY <2>7, <3>1 DEF BridgeFacts
    <3> QED
      BY <2>10, <3>2, CoverFewer
  <2>12. Joins(x)
    <3>1. Apart(bridge', x.id)
      BY <1>2, <2>4, <2>8 DEF Apart
    <3>2. x.kind # "cancel"
      BY <1>1, <2>4 DEF CommandKinds
    <3> QED
      BY <2>1, <2>4, <2>5, <2>6, <2>7, <2>10, <3>1, <3>2 DEF Joins
  <2>13. SlotsAwaitAnswers'
    <3>1. Retains(bridge, bridge')
      BY <2>7, <2>8 DEF Retains
    <3>2. ASSUME NEW CONSTANT y, y = new PROVE OnItsWay(y)'
      <4>1. Len(intents) + 1 \in DOMAIN intents' /\ intents'[Len(intents) + 1] = x
        BY <2>1, <2>4, <2>i
      <4> QED
        BY <2>4, <3>2, <4>1 DEF OnItsWay
    <3>3. \A y \in bridge'.pending : y \in bridge.pending \/ OnItsWay(y)'
      BY <2>8, <3>2 DEF p
    <3> QED
      BY <2>1, <2>8, <3>1, <3>3, SlotsGain DEF Plain, coordinatorVars
  <2>14. ExitOK'
    BY <2>2, <2>8, ExitStays DEF Issues
  <2>15. \A y \in Nat \ {0} : y # bridge.nextId /\ TerminalNoticeOutstanding(bridge', y) =>
              \/ TerminalNoticeOutstanding(bridge, y) \/ y = bridge.resync
              \/ \E j \in 1 .. 0 : Terminal(uiNotices[j]) = y
    BY <2>7
  <2> HIDE DEF Responds, Joins
  <2> QED
    BY <1>2, <2>7, <2>8, <2>9, <2>11, <2>12, <2>13, <2>14, <2>15, RespondsSending
<1> QED
  BY <1>3, <1>4, <1>5, <1>6, <1>7

\* A resynchronization that could not be sent is withdrawn.
LEMMA WithdrawKeeps ==
    ASSUME NEW b, NEW c, NEW ans, NEW cmds, BridgeFacts(b, epoch, published, ans, cmds), b.resync # 0, 0 \notin cmds,
           c = [b EXCEPT !.resync = 0, !.pending = b.pending \ {b.resync}, !.failed = FALSE]
    PROVE  /\ BridgeFacts(c, epoch, published, ans, cmds) /\ SameStream(b, c) /\ c.notices = b.notices
           /\ c.nextId = b.nextId /\ c.started = b.started /\ c.readyAcked = b.readyAcked /\ c.exited = b.exited
           /\ c.resync = 0 /\ c.failed = FALSE /\ c.pending = b.pending \ {b.resync}
           /\ \A x : TerminalNoticeOutstanding(c, x) <=> TerminalNoticeOutstanding(b, x)
<1> DEFINE p == b.pending \ {b.resync}
<1>1. BridgeTypeOK(b) /\ IsBridge(b) /\ c = [b EXCEPT !.resync = 0, !.pending = p, !.failed = FALSE]
  BY DEF BridgeFacts, BridgeTypeOK
<1>p. p = b.pending \ {b.resync} /\ Cardinality(p) <= MaxPending
  <2>1. IsFiniteSet(b.pending) /\ Cardinality(b.pending) \in Nat /\ Cardinality(b.pending) <= MaxPending
    BY <1>1, PendingFinite DEF BridgeFacts, QueueOK
  <2>2. Cardinality(p) <= Cardinality(b.pending) /\ Cardinality(p) \in Nat
    BY <2>1, FS_Subset, FS_CardinalityType
  <2> QED
    BY <2>1, <2>2, CapacityAssumption
<1> HIDE DEF p
<1>2. /\ IsBridge(c) /\ SameStream(b, c) /\ SameView(b, c) /\ c.notices = b.notices
      /\ c.pending = p /\ c.nextId = b.nextId /\ c.resync = 0 /\ c.failed = FALSE
      /\ c.token = b.token /\ c.started = b.started /\ c.readyAcked = b.readyAcked
      /\ c.exited = b.exited /\ c.overflow = b.overflow
  BY <1>1 DEF IsBridge, SameStream, SameView
<1>i. InFlightNotice(c) = InFlightNotice(b) /\ c.inFlight = b.inFlight
  BY <1>2 DEF InFlightNotice, SameStream
<1>3. BridgeTypeOK(c)
  BY <1>1, <1>2, <1>p DEF BridgeTypeOK, SameStream, SameView
<1>4. StreamOK(c, epoch)
  BY <1>2 DEF BridgeFacts, StreamOK, FrameOK, SameStream
<1>5. QueueOK(c)
  <2>1. \A n : EntryOK(b, n) /\ n.id # b.resync => EntryOK(c, n)
    BY <1>2, <1>p DEF EntryOK
  <2> QED
    BY <1>2, <1>i, <1>p, <2>1 DEF BridgeFacts, QueueOK
<1>6. FreshOK(c, published)
  BY <1>2 DEF BridgeFacts, FreshOK, SameStream, SameView
<1>7. ShutdownOK(c)
  BY <1>2, <1>i DEF BridgeFacts, ShutdownOK, SameStream
<1>8. CoverOK(c, published, ans, cmds)
  BY <1>2, <1>i DEF BridgeFacts, CoverOK, SameStream, SameView
<1>9. \A x : TerminalNoticeOutstanding(c, x) <=> TerminalNoticeOutstanding(b, x)
  BY <1>2 DEF TerminalNoticeOutstanding, SameStream
<1> QED
  BY <1>2, <1>3, <1>4, <1>5, <1>6, <1>7, <1>8, <1>9, <1>p DEF BridgeFacts

LEMMA ResynchronizeKeeps ==
    ASSUME IInv, NEW ok \in BOOLEAN, Resynchronize(ok), UNCHANGED <<client, calls, settlements, coordinatorVars>>
    PROVE  IInv'
<1> DEFINE h == Head(requests)
           new == bridge.nextId
           p == bridge.pending \cup {new}
           s == [Issued EXCEPT !.pending = @ \cup {new}, !.resync = new]
           c == Pump(s, ok)
<1>1. TakeRequest /\ uiNotices' = uiNotices /\ intents' = intents /\ h.kind = "resync" /\ requests # <<>> /\ ~bridge.started
  BY DEF Resynchronize, Dispatch, TakeRequest
<1>2. h.call \notin Calls /\ new \in Nat \ {0} /\ new # bridge.resync /\ new \notin bridge.pending
  BY <1>1, HeadFacts, ResyncBelow DEF CommandKinds
<1>3. CASE bridge.resync # 0 \/ Cardinality(bridge.pending) >= MaxPending
  <2>1. Plain("busy", 0) /\ bridge' = Issued
    BY <1>1, <1>3 DEF Resynchronize, Plain
  <2> HIDE DEF Plain
  <2> QED
    BY <1>1, <2>1, IssuedStep DEF Results
<1>4. CASE ~(bridge.resync # 0 \/ Cardinality(bridge.pending) >= MaxPending)
  <2>1. /\ ~c.failed => bridge' = c /\ Plain("ok", new)
        /\ c.failed => /\ bridge' = [c EXCEPT !.resync = 0, !.pending = @ \ {new}, !.failed = FALSE]
                       /\ Plain("fatal", 0)
    BY <1>1, <1>4 DEF Resynchronize, Plain
  <2>2. Issues(bridge, s, p, new)
    <3> DEFINE i == Issued
    <3>1. Issues(bridge, i, bridge.pending, bridge.resync)
      BY IssuedAlone
    <3>2. s = [i EXCEPT !.pending = p, !.resync = new]
      BY <3>1 DEF Issues
    <3> HIDE DEF i, p, s
    <3>3. (IsBridge(s) /\ SameStream(i, s) /\ SameView(i, s) /\ s.notices = i.notices
            /\ s.pending = p /\ s.nextId = i.nextId /\ s.resync = new
            /\ s.token = i.token /\ s.started = i.started /\ s.readyAcked = i.readyAcked
            /\ s.exited = i.exited /\ s.failed = i.failed /\ s.overflow = i.overflow)
      BY <3>1, <3>2 DEF Issues, IsBridge, SameStream, SameView
    <3> QED
      BY <3>1, <3>3 DEF Issues, SameStream, SameView
  <2>3. bridge.pending \subseteq p /\ p \subseteq 1 .. bridge.nextId /\ Cardinality(p) <= MaxPending /\ new \in p
    <3>1. Cardinality(bridge.pending) < MaxPending
      BY <1>4, EnvironmentHolds, PendingFinite, CapacityAssumption
    <3> HIDE DEF p
    <3>2. p = bridge.pending \cup {bridge.nextId}
      BY DEF p
    <3> QED
      BY <3>1, <3>2, AddPending
  <2>4. Environment /\ 0 \notin CommandIds /\ CommandIds \subseteq Nat /\ BridgeTypeOK(bridge)
    BY EnvironmentHolds, CommandIdsNat
  <2>q. QueueOK(bridge)
    BY EnvironmentHolds DEF BridgeFacts
  <2>pp. p = bridge.pending \cup {new}
    OBVIOUS
  <2> HIDE DEF s, p, Plain, CommandIds
  <2>5. /\ BridgeFacts(s, epoch, published, answers, CommandIds) /\ BridgeTypeOK(s) /\ Sends(bridge, s)
        /\ \A x : TerminalNoticeOutstanding(s, x) <=> TerminalNoticeOutstanding(bridge, x)
    BY <1>1, <2>2, <2>3, IssuedKeeps
  <2>6. Keeps(s, c, answers, CommandIds) /\ (c.failed => c.resync = s.resync)
    BY <2>4, <2>5, PumpKeeps
  <2> HIDE DEF c
  <2>7. /\ s.nextId = new + 1 /\ s.resync = new /\ s.pending = p /\ s.started = bridge.started
        /\ s.readyAcked = bridge.readyAcked /\ s.exited = bridge.exited
    BY <2>2 DEF Issues
  <2>8. /\ BridgeFacts(c, epoch, published, answers, CommandIds) /\ Kept(s, c) /\ Sends(s, c)
        /\ c.resync \in {new, 0} /\ Retains(s, c) /\ BridgeTypeOK(c)
        /\ \A x \in Nat \ {0} : TerminalNoticeOutstanding(c, x) => TerminalNoticeOutstanding(s, x) \/ x = new
    BY <2>6, <2>7 DEF Keeps, Leads, BridgeFacts
  <2>9. c.nextId = new + 1 /\ c.pending = p /\ c.started = bridge.started /\ c.readyAcked = bridge.readyAcked /\ c.exited = bridge.exited
    BY <2>7, <2>8 DEF Kept
  <2>10. Sends(bridge, c)
    BY <2>4, <2>5, <2>8, SendsTransitive
  <2>11. /\ BridgeFacts(bridge', epoch, published, answers, CommandIds) /\ SameStream(c, bridge')
         /\ bridge'.nextId = new + 1 /\ bridge'.started = bridge.started /\ bridge'.readyAcked = bridge.readyAcked
         /\ bridge'.exited = bridge.exited /\ ~bridge'.failed /\ bridge'.resync \in {new, 0}
         /\ \A x : TerminalNoticeOutstanding(bridge', x) <=> TerminalNoticeOutstanding(c, x)
         /\ bridge'.pending \subseteq p
         /\ new \in bridge'.pending => bridge' = c
         /\ c.failed => c.resync = new
         /\ ~c.failed => bridge' = c
    <3>1. CASE ~c.failed
      BY <2>1, <2>8, <2>9, <3>1 DEF SameStream
    <3>2. CASE c.failed
      <4>1. c.resync = new
        BY <2>6, <2>7, <3>2
      <4>2. bridge' = [c EXCEPT !.resync = 0, !.pending = c.pending \ {c.resync}, !.failed = FALSE]
        BY <2>1, <3>2, <4>1
      <4>3. /\ BridgeFacts(bridge', epoch, published, answers, CommandIds) /\ SameStream(c, bridge') /\ bridge'.notices = c.notices
            /\ bridge'.nextId = c.nextId /\ bridge'.started = c.started /\ bridge'.readyAcked = c.readyAcked
            /\ bridge'.exited = c.exited
            /\ bridge'.resync = 0 /\ bridge'.failed = FALSE /\ bridge'.pending = c.pending \ {c.resync}
            /\ \A x : TerminalNoticeOutstanding(bridge', x) <=> TerminalNoticeOutstanding(c, x)
        BY <1>2, <2>4, <2>8, <4>1, <4>2, WithdrawKeeps, ZenonT(60)
      <4> QED
        BY <2>9, <3>2, <4>1, <4>3
    <3> QED
      BY <3>1, <3>2
  <2>12. Sends(bridge, bridge') /\ BridgeTypeOK(bridge') /\ new <= bridge'.nextId
    <3>1. Sends(c, bridge')
      BY <2>11 DEF Sends
    <3> QED
      BY <1>2, <2>4, <2>8, <2>10, <2>11, <3>1, SendsTransitive DEF BridgeFacts
  <2>13. PICK result \in Results, id \in Nat : Responds(0, result, id)
    <3>1. ASSUME NEW result \in Results, NEW id \in Nat, Plain(result, id) PROVE Responds(0, result, id)
      BY <1>2, <2>12, <3>1, PlainResponds
    <3> HIDE DEF Responds
    <3> QED
      BY <1>2, <2>1, <3>1 DEF Results
  <2>14. CommandIds' = CommandIds
    BY <1>2, <2>12, <2>13, RespondsFacts
  <2>15. ExitOK'
    BY <2>11, ExitStays
  <2>16. SlotsAwaitAnswers'
    <3>1. Retains(bridge, bridge')
      <4> SUFFICES ASSUME NEW x \in Nat \ {0}, TerminalNoticeOutstanding(bridge, x)
                   PROVE  bridge'.resync = x \/ TerminalNoticeOutstanding(bridge', x)
        BY <1>4 DEF Retains
      <4>1. x # new
        BY <1>2, <2>q, OutstandingIsPending
      <4>2. c.resync = x \/ TerminalNoticeOutstanding(c, x)
        BY <2>5, <2>8 DEF Retains
      <4> QED
        BY <1>2, <2>8, <2>11, <4>1, <4>2
    <3>2. ASSUME NEW CONSTANT x \in bridge'.pending, x \notin bridge.pending PROVE OnItsWay(x)'
      <4>1. x = new /\ bridge' = c
        BY <2>11, <2>pp, <3>2
      <4>2. c.resync = x \/ TerminalNoticeOutstanding(c, x)
        BY <1>2, <2>7, <2>8, <4>1 DEF Retains
      <4> QED
        BY <4>1, <4>2 DEF OnItsWay
    <3> QED
      BY <1>1, <2>11, <3>1, <3>2, SlotsGain DEF coordinatorVars
  <2>17. \A y \in Nat \ {0} : y # bridge.nextId /\ TerminalNoticeOutstanding(bridge', y) =>
              \/ TerminalNoticeOutstanding(bridge, y) \/ y = bridge.resync
              \/ \E j \in 1 .. 0 : Terminal(uiNotices[j]) = y
    BY <2>5, <2>8, <2>11
  <2>18. /\ BridgeFacts(bridge', epoch, published, answers, CommandIds')
         /\ bridge'.resync \in {bridge.resync, bridge.nextId, 0}
         /\ bridge'.resync = bridge.nextId => bridge.nextId < bridge'.nextId
    BY <1>2, <2>11, <2>14
  <2> HIDE DEF Responds
  <2> QED
    BY <1>1, <2>12, <2>13, <2>15, <2>16, <2>17, <2>18, RespondsSending
<1> QED
  BY <1>3, <1>4

LEMMA RequestShutdownKeeps ==
    ASSUME IInv, NEW ok \in BOOLEAN, RequestShutdown(ok), UNCHANGED <<client, calls, settlements, coordinatorVars>>
    PROVE  IInv'
<1> DEFINE h == Head(requests)
           new == bridge.nextId
           s == Issued
           d == DrainAvailableNotices(s, ok)
           c == BeginShutdown(d, new, ok)
<1>1. TakeRequest /\ intents' = intents /\ h.kind = "shutdown" /\ requests # <<>> /\ ~bridge.started
  BY DEF RequestShutdown, Dispatch, TakeRequest
<1>2. h.call \notin Calls /\ new \in Nat \ {0} /\ new # bridge.resync /\ new \notin bridge.pending
  BY <1>1, HeadFacts, ResyncBelow DEF CommandKinds
<1>3. CASE Cardinality(bridge.pending) >= MaxPending
  <2>1. Plain("busy", 0) /\ bridge' = Issued
    BY <1>1, <1>3 DEF RequestShutdown, Plain
  <2> HIDE DEF Plain
  <2> QED
    BY <1>1, <2>1, IssuedStep DEF Results
<1>4. CASE ~(Cardinality(bridge.pending) >= MaxPending)
  <2>1. /\ bridge' = [(IF d.failed THEN d ELSE c) EXCEPT !.failed = FALSE] /\ uiNotices' = <<>>
        /\ Reply(h, "fatal", 0) \/ Reply(h, "ok", new)
    BY <1>4 DEF RequestShutdown
  <2>2. /\ BridgeFacts(s, epoch, published, answers, CommandIds) /\ BridgeTypeOK(s)
        /\ Issues(bridge, s, bridge.pending, bridge.resync) /\ Sends(bridge, s)
        /\ \A x : TerminalNoticeOutstanding(s, x) <=> TerminalNoticeOutstanding(bridge, x)
    BY IssuedAlone
  <2>3. /\ s.nextId = new + 1 /\ s.pending = bridge.pending /\ ~s.started /\ ~s.failed /\ s.resync = bridge.resync
        /\ s.notices = bridge.notices /\ s.inFlight = bridge.inFlight /\ s.readyAcked = FALSE /\ s.exited = bridge.exited
    BY <1>1, <2>2, EnvironmentHolds DEF Issues, SameStream, IInv, ClientFacts, ExitOK, TakeRequest, Reading, Running, BridgeTypeOK
  <2>4. Environment /\ 0 \notin CommandIds /\ CommandIds \subseteq Nat /\ BridgeTypeOK(bridge) /\ new \notin CommandIds
    <3>1. Environment /\ 0 \notin CommandIds /\ CommandIds \subseteq 1 .. bridge.nextId - 1 /\ BridgeTypeOK(bridge) /\ CommandIds \subseteq Nat
      BY EnvironmentHolds, CommandIdsNat
    <3> HIDE DEF CommandIds
    <3> QED
      BY <1>2, <3>1
  <2>n. NoticesReady(s, answers, CommandIds)
    BY <2>3, NoticesAreReady
  <2>u. uiNotices \in Seq(UiNotices) /\ Len(uiNotices) \in Nat
    BY DEF IInv, TypeOK
  <2>p. Cardinality(bridge.pending) < MaxPending
    BY <1>4, EnvironmentHolds, PendingFinite, CapacityAssumption
  <2> HIDE DEF s, CommandIds
  <2>5. Drains(s, d, Len(uiNotices), answers, CommandIds)
    BY <2>2, <2>3, <2>4, <2>n, DrainKeeps
  <2> HIDE DEF d
  <2>6. /\ BridgeFacts(d, epoch, published, answers, CommandIds) /\ BridgeTypeOK(d) /\ ~d.failed /\ ~d.started
        /\ d.nextId = new + 1 /\ d.pending = bridge.pending /\ d.readyAcked = FALSE /\ d.exited = bridge.exited /\ Sends(s, d)
    BY <2>3, <2>5 DEF Drains, Kept, BridgeFacts
  <2>7. Closes(d, c, new, answers, CommandIds)
    <3>1. new \in 1 .. d.nextId - 1 /\ new \notin d.pending /\ new \notin CommandIds /\ Cardinality(d.pending) < MaxPending
      BY <1>2, <2>4, <2>6, <2>p
    <3> HIDE DEF new, c
    <3>2. new \in Nat
      BY <1>2
    <3> QED
      BY <2>4, <2>6, <3>1, <3>2, BeginShutdownKeeps DEF c
  <2> HIDE DEF c
  <2>8. bridge' = [c EXCEPT !.failed = FALSE]
    BY <2>1, <2>6
  <2>9. BridgeFacts(c, epoch, published, answers, CommandIds) /\ BridgeTypeOK(c) /\ Sends(d, c)
    BY <2>7 DEF Closes, BridgeFacts
  <2>10. Stays(c, bridge') /\ bridge'.failed = FALSE /\ BridgeTypeOK(bridge')
    BY <2>8, <2>9, FailedOnly
  <2>11. /\ BridgeFacts(bridge', epoch, published, answers, CommandIds)
         /\ \A x : TerminalNoticeOutstanding(bridge', x) <=> TerminalNoticeOutstanding(c, x)
         /\ SameStream(c, bridge')
    <3>1. BridgeFacts(bridge', epoch, published, answers, CommandIds)
      BY <2>4, <2>9, <2>10, StaysKeeps
    <3> QED
      BY <2>10, <3>1 DEF Stays, TerminalNoticeOutstanding, SameStream, SameQueue
  <2>12. Sends(bridge, bridge')
    <3>1. Sends(bridge, d)
      BY <2>2, <2>4, <2>6, SendsTransitive
    <3>2. Sends(bridge, c)
      BY <2>4, <2>6, <2>9, <3>1, SendsTransitive
    <3>3. Sends(c, bridge')
      BY <2>11 DEF Sends
    <3> QED
      BY <2>4, <2>9, <3>2, <3>3, SendsTransitive
  <2>13. /\ bridge'.nextId = new + 1 /\ bridge'.started /\ bridge'.resync = 0 /\ bridge'.readyAcked = FALSE
         /\ bridge'.exited = bridge.exited /\ new <= bridge'.nextId
    BY <1>2, <2>6, <2>7, <2>10 DEF Closes, Stays, Kept, SameQueue
  <2>14. \A y \in Nat \ {0} : y # bridge.nextId /\ TerminalNoticeOutstanding(bridge', y) =>
              \/ TerminalNoticeOutstanding(bridge, y) \/ y = bridge.resync
              \/ \E j \in 1 .. Len(uiNotices) : Terminal(uiNotices[j]) = y
    <3>1. \A y \in Nat \ {0} : y # new /\ TerminalNoticeOutstanding(c, y) => TerminalNoticeOutstanding(d, y)
      BY <2>7 DEF Closes
    <3>2. \A y \in Nat \ {0} : TerminalNoticeOutstanding(d, y) =>
            \/ TerminalNoticeOutstanding(s, y) \/ y = bridge.resync
            \/ \E j \in 1 .. Len(uiNotices) : Terminal(uiNotices[j]) = y
      BY <2>3, <2>5 DEF Drains
    <3> QED
      BY <2>2, <2>11, <3>1, <3>2
  <2>15. PICK result \in Results, id \in Nat : Reply(h, result, id)
    BY <1>2, <2>1 DEF Results
  <2>16. Responds(Len(uiNotices), result, id)
    <3>1. /\ uiNotices' \in Seq(UiNotices) /\ Len(uiNotices) \in 0 .. Len(uiNotices)
          /\ \A k \in DOMAIN uiNotices' : k \in Nat \ {0} /\ k + Len(uiNotices) \in DOMAIN uiNotices
                                          /\ uiNotices'[k] = uiNotices[k + Len(uiNotices)]
      BY <2>1, <2>u
    <3>2. /\ UNCHANGED <<published, epoch, acks, client, calls, settlements, login, answers>>
          /\ acks = <<>> /\ Running /\ requests # <<>> /\ requests' = Tail(requests)
      BY <1>1 DEF TakeRequest, Reading, coordinatorVars
    <3> QED
      BY <1>2, <2>13, <2>15, <3>1, <3>2 DEF Responds
  <2>17. CommandIds' = CommandIds
    BY <1>2, <2>10, <2>16, RespondsFacts
  <2>18. ExitOK' /\ SlotsAwaitAnswers'
    BY <2>10, <2>13 DEF ExitOK, SlotsAwaitAnswers
  <2>19. BridgeFacts(bridge', epoch, published, answers, CommandIds') /\ bridge'.resync \in {bridge.resync, bridge.nextId, 0}
         /\ bridge'.resync # bridge.nextId
    BY <1>2, <2>11, <2>13, <2>17
  <2> HIDE DEF Responds
  <2> QED
    BY <1>1, <2>12, <2>14, <2>16, <2>18, <2>19, RespondsSending
<1> QED
  BY <1>3, <1>4

\* Another channel is held, or none, and no frame of the old one is on its way.
Retargets(b, c, ch) ==
    /\ Kept(b, c) /\ SameQueue(b, c) /\ SameView(b, c) /\ c.last = b.last /\ c.nextRev = b.nextRev
    /\ c.inFlight = b.inFlight /\ c.wire = b.wire /\ c.channel = ch

LEMMA RetargetsKeeps ==
    ASSUME NEW b, NEW c, NEW ch, NEW ans, NEW cmds, BridgeFacts(b, epoch, published, ans, cmds),
           Retargets(b, c, ch), ch \in Nat, ch <= epoch, b.wire = <<>>
    PROVE  /\ BridgeFacts(c, epoch, published, ans, cmds)
           /\ \A x : TerminalNoticeOutstanding(c, x) <=> TerminalNoticeOutstanding(b, x)
<1>i. InFlightNotice(c) = InFlightNotice(b)
  BY DEF InFlightNotice, Retargets
<1>1. BridgeTypeOK(c)
  BY DEF BridgeFacts, BridgeTypeOK, Retargets, Kept, SameQueue, SameView
<1>2. StreamOK(c, epoch)
  BY DEF BridgeFacts, StreamOK, FrameOK, Retargets
<1>3. QueueOK(c)
  BY <1>i DEF BridgeFacts, QueueOK, EntryOK, Retargets, Kept, SameQueue
<1>4. FreshOK(c, published)
  BY DEF BridgeFacts, FreshOK, Retargets, Kept, SameView
<1>5. ShutdownOK(c)
  BY <1>i DEF BridgeFacts, ShutdownOK, Retargets, Kept, SameQueue
<1>6. CoverOK(c, published, ans, cmds)
  BY <1>i DEF BridgeFacts, CoverOK, Retargets, SameQueue, SameView
<1>7. \A x : TerminalNoticeOutstanding(c, x) <=> TerminalNoticeOutstanding(b, x)
  BY DEF TerminalNoticeOutstanding, Retargets, SameQueue
<1> QED
  BY <1>1, <1>2, <1>3, <1>4, <1>5, <1>6, <1>7 DEF BridgeFacts

LEMMA AppendFills ==
    ASSUME NEW x
    PROVE  Append(<<>>, x) # <<>>
<1>1. <<>> \in Seq({x})
  OBVIOUS
<1>2. Append(<<>>, x) \in Seq({x}) /\ Len(Append(<<>>, x)) = 1
  BY <1>1
<1> QED
  BY <1>2

LEMMA DetachFields ==
    ASSUME NEW b, IsBridge(b), NEW c, c = [b EXCEPT !.channel = 0, !.failed = FALSE]
    PROVE  Retargets(b, c, 0) /\ c.failed = FALSE
BY DEF Retargets, IsBridge, Kept, SameQueue, SameView

\* How connecting leaves the stream: on the new page's first frame, or without a channel.
Connects(c, page) ==
    /\ BridgeFacts(c, epoch, published, answers, CommandIds) /\ Kept(bridge, c) /\ ~c.failed
    /\ c.resync = bridge.resync /\ Grows(bridge.last, c.last) /\ Retains(bridge, c)
    /\ bridge.nextRev <= c.nextRev
    /\ \A x \in Nat \ {0} : TerminalNoticeOutstanding(c, x) => TerminalNoticeOutstanding(bridge, x) \/ x = bridge.resync
    /\ c.channel = 0 \/ (c.channel = page /\ (page = epoch => c.wire # <<>>))

LEMMA ConnectMoves ==
    ASSUME IInv, NEW ok \in BOOLEAN, NEW page \in Nat \ {0}, page <= epoch, bridge.inFlight = NoFrame
    PROVE  LET held == [bridge EXCEPT !.channel = page]
               sent == Published(held, Send(held, SnapshotFrame(held, "initial"), ok))
           IN  /\ ok => Connects(sent, page)
               /\ ~ok => Connects([sent EXCEPT !.channel = 0, !.failed = FALSE], page)
               /\ Connects([held EXCEPT !.channel = 0, !.failed = FALSE], page)
<1> DEFINE held == [bridge EXCEPT !.channel = page]
           frame == SnapshotFrame(held, "initial")
           sent == Published(held, Send(held, frame, ok))
<1>1. /\ Environment /\ BridgeFacts(bridge, epoch, published, answers, CommandIds) /\ BridgeTypeOK(bridge)
      /\ 0 \notin CommandIds /\ ~bridge.failed
  BY EnvironmentHolds, CommandIdsNat DEF IInv, ClientFacts, ExitOK
<1>2. bridge.wire = <<>> /\ IsBridge(bridge) /\ bridge.failed \in BOOLEAN /\ bridge.nextRev \in Nat /\ epoch \in Nat \ {0}
  BY <1>1 DEF BridgeFacts, BridgeTypeOK, StreamOK, Environment
<1>3. Retargets(bridge, held, page) /\ held.failed = bridge.failed
  BY <1>2 DEF Retargets, IsBridge, Kept, SameQueue, SameView
<1>f. LET g == [frame EXCEPT !.rev = held.nextRev] IN g.rev = held.nextRev /\ IsProjection(held, g, Snapshot(held))
  BY SnapshotFrameFields
<1> HIDE DEF held, frame, CommandIds
<1>4. /\ BridgeFacts(held, epoch, published, answers, CommandIds) /\ BridgeTypeOK(held)
      /\ \A x : TerminalNoticeOutstanding(held, x) <=> TerminalNoticeOutstanding(bridge, x)
  BY <1>1, <1>2, <1>3, RetargetsKeeps DEF BridgeFacts
<1>5. /\ held.channel = page /\ held.channel # 0 /\ held.inFlight = NoFrame /\ held.nextRev = bridge.nextRev
      /\ held.last = bridge.last /\ held.resync = bridge.resync /\ held.notices = bridge.notices /\ Kept(bridge, held)
      /\ held.wire = <<>>
  BY <1>2, <1>3 DEF Retargets, SameQueue
<1>6. /\ sent.failed = ~ok
      /\ ok => Shows(held, sent, [frame EXCEPT !.rev = held.nextRev], epoch, Snapshot(held)) /\ sent.resync = held.resync
      /\ ~ok => Refuses(held, sent)
  BY <1>4, <1>5, <1>f, PublishedFields
<1> HIDE DEF sent
<1>7. BridgeFacts(sent, epoch, published, answers, CommandIds) /\ Leads(held, sent) /\ Retains(held, sent) /\ sent.resync = held.resync
  <2>1. CASE ok
    BY <1>1, <1>4, <1>6, <2>1, ShowsKeeps
  <2>2. CASE ~ok
    BY <1>1, <1>4, <1>6, <2>2, RefusesKeeps DEF Refuses, SameQueue
  <2> QED
    BY <2>1, <2>2
<1>8. /\ Kept(bridge, sent) /\ Grows(bridge.last, sent.last) /\ sent.resync = bridge.resync /\ Retains(bridge, sent)
      /\ \A x \in Nat \ {0} : TerminalNoticeOutstanding(sent, x) => TerminalNoticeOutstanding(bridge, x) \/ x = bridge.resync
      /\ bridge.nextRev <= sent.nextRev
  <2>1. Sends(held, sent) /\ Kept(held, sent)
    BY <1>7 DEF Leads
  <2>2. Grows(held.last, sent.last)
    BY <2>1, SendsGrows
  <2>3. Kept(bridge, sent)
    BY <1>5, <2>1 DEF Kept
  <2>4. Retains(bridge, sent)
    BY <1>4, <1>5, <1>7 DEF Retains
  <2>5. held.nextRev <= sent.nextRev
    BY <1>4, <1>7, RevisionGrows
  <2> QED
    BY <1>4, <1>5, <1>7, <2>2, <2>3, <2>4, <2>5 DEF Leads
<1>9. ok => Connects(sent, page)
  <2> SUFFICES ASSUME ok PROVE Connects(sent, page)
    OBVIOUS
  <2> DEFINE g == [frame EXCEPT !.rev = held.nextRev]
  <2>1. Transmits(held, sent, g, epoch) /\ ~sent.failed
    BY <1>6 DEF Shows
  <2> HIDE DEF g
  <2>2. sent.channel = page /\ (page = epoch => sent.wire = Append(held.wire, g))
    BY <1>5, <2>1 DEF Transmits
  <2>3. page = epoch => sent.wire # <<>>
    BY <1>5, <2>2, AppendFills
  <2> QED
    BY <1>7, <1>8, <2>1, <2>2, <2>3 DEF Connects
<1>10. ASSUME NEW x, BridgeFacts(x, epoch, published, answers, CommandIds), x.wire = <<>>, Kept(bridge, x),
              Grows(bridge.last, x.last), x.resync = bridge.resync, Retains(bridge, x), bridge.nextRev <= x.nextRev,
              \A y \in Nat \ {0} : TerminalNoticeOutstanding(x, y) => TerminalNoticeOutstanding(bridge, y) \/ y = bridge.resync
       PROVE  Connects([x EXCEPT !.channel = 0, !.failed = FALSE], page)
  <2> DEFINE c == [x EXCEPT !.channel = 0, !.failed = FALSE]
  <2>1. IsBridge(x) /\ 0 <= epoch
    BY <1>2, <1>10 DEF BridgeFacts, BridgeTypeOK
  <2>2. Retargets(x, c, 0) /\ c.failed = FALSE
    BY <2>1, DetachFields
  <2> HIDE DEF c
  <2>3. /\ BridgeFacts(c, epoch, published, answers, CommandIds)
        /\ \A y : TerminalNoticeOutstanding(c, y) <=> TerminalNoticeOutstanding(x, y)
    BY <1>10, <2>1, <2>2, RetargetsKeeps
  <2>4. Kept(bridge, c) /\ c.resync = x.resync /\ c.last = x.last /\ c.nextRev = x.nextRev /\ c.channel = 0
    BY <1>10, <2>2 DEF Retargets, Kept, SameQueue
  <2>5. Retains(bridge, c)
    BY <1>10, <2>3, <2>4 DEF Retains
  <2>6. Connects(c, page)
    BY <1>10, <2>2, <2>3, <2>4, <2>5 DEF Connects
  <2> QED
    BY <2>6 DEF c
<1>11. Connects([held EXCEPT !.channel = 0, !.failed = FALSE], page)
  <2>1. Grows(bridge.last, held.last) /\ Retains(bridge, held) /\ bridge.nextRev <= held.nextRev
    BY <1>2, <1>4, <1>5 DEF Grows, Retains
  <2> QED
    BY <1>4, <1>5, <1>10, <2>1
<1>12. ASSUME ~ok PROVE Connects([sent EXCEPT !.channel = 0, !.failed = FALSE], page)
  <2>1. sent.wire = <<>>
    BY <1>5, <1>6, <1>12 DEF Refuses
  <2> QED
    BY <1>7, <1>8, <1>10, <2>1
<1> QED
  BY <1>9, <1>11, <1>12 DEF sent, held, frame

LEMMA ConnectStep ==
    ASSUME IInv, NEW ok \in BOOLEAN, Connect(ok), UNCHANGED <<client, calls, settlements, coordinatorVars>>
    PROVE  IInv'
<1> DEFINE h == Head(requests)
           page == h.page
           held == [bridge EXCEPT !.channel = h.page]
           sent == Published(held, Send(held, SnapshotFrame(held, "initial"), ok))
<1>1. TakeRequest /\ uiNotices' = uiNotices /\ intents' = intents /\ h.kind = "connect" /\ requests # <<>>
  BY DEF Connect, TakeRequest
<1>2. /\ h.call \notin Calls /\ page \in Nat \ {0} /\ page <= epoch /\ 1 \in DOMAIN requests /\ h = requests[1]
      /\ requests \in Seq(Requests)
  BY <1>1, HeadFacts DEF CommandKinds, Requests, IInv, TypeOK
<1>3. CASE bridge.inFlight # NoFrame
  <2>1. Plain("fatal", 0) /\ bridge' = bridge
    BY <1>1, <1>3 DEF Connect, Plain
  <2> HIDE DEF Plain
  <2> QED
    BY <1>1, <2>1, UnchangedKeeps DEF Results
<1>4. CASE bridge.inFlight = NoFrame
  <2>1. /\ \E result \in {"ok", "fatal"} : Plain(result, 0)
        /\ \/ ok /\ bridge' = sent
           \/ ~ok /\ bridge' = [sent EXCEPT !.channel = 0, !.failed = FALSE]
           \/ bridge' = [held EXCEPT !.channel = 0, !.failed = FALSE]
    <3>1. \E result \in {"ok", "fatal"} : Reply(h, result, 0)
      BY <1>4 DEF Connect
    <3>2. CASE Representable /\ ok
      BY <1>1, <1>4, <3>1, <3>2 DEF Connect, Plain
    <3>3. CASE Representable /\ ~ok
      BY <1>1, <1>4, <3>1, <3>3 DEF Connect, Plain
    <3>4. CASE ~Representable
      BY <1>1, <1>4, <3>1, <3>4 DEF Connect, Plain
    <3> QED
      BY <3>2, <3>3, <3>4
  <2>2. Connects(bridge', page)
    BY <1>2, <1>4, <2>1, ConnectMoves, ZenonT(60)
  <2>3. /\ BridgeFacts(bridge', epoch, published, answers, CommandIds) /\ BridgeTypeOK(bridge') /\ Kept(bridge, bridge') /\ ~bridge'.failed
        /\ bridge'.resync = bridge.resync /\ Grows(bridge.last, bridge'.last) /\ Retains(bridge, bridge')
        /\ bridge.nextRev <= bridge'.nextRev
        /\ \A x \in Nat \ {0} : TerminalNoticeOutstanding(bridge', x) => TerminalNoticeOutstanding(bridge, x) \/ x = bridge.resync
        /\ bridge'.channel = 0 \/ (bridge'.channel = page /\ (page = epoch => bridge'.wire # <<>>))
    BY <2>2 DEF Connects, BridgeFacts
  <2>4. /\ bridge'.nextId = bridge.nextId /\ bridge'.pending = bridge.pending /\ bridge'.started = bridge.started
        /\ bridge'.readyAcked = bridge.readyAcked /\ bridge'.exited = bridge.exited
    BY <2>3 DEF Kept
  <2>5. bridge.nextId \in Nat \ {0} /\ bridge.resync # bridge.nextId /\ bridge.nextId <= bridge'.nextId
    BY <2>4, ResyncBelow
  <2>6. PICK result \in {"ok", "fatal"} : Plain(result, 0)
    BY <2>1
  <2>7. Responds(0, result, 0)
    <3>1. result \in Results
      BY DEF Results
    <3> QED
      BY <1>2, <2>5, <2>6, <3>1, PlainResponds
  <2>8. CommandIds' = CommandIds
    BY <1>2, <2>3, <2>7, RespondsFacts
  <2>9. client' = client /\ epoch' = epoch /\ acks' = acks /\ acks = <<>> /\ requests' = Tail(requests) /\ epoch \in Nat \ {0} /\ uiNotices' = uiNotices /\ login' = login
    BY <2>7, EnvironmentHolds, <1>1 DEF Responds, Environment
  <2>10. page = epoch => client.rev = 0 /\ \A j \in DOMAIN requests : requests[j].kind = "connect" /\ requests[j].page = epoch => j = 1
    BY <1>1, <1>2 DEF IInv, ClientFacts, ConnectOK
  <2>11. Mirror(bridge', epoch, client)
    <3>1. Mirror(bridge, epoch, client) /\ client.rev \in Nat /\ bridge.nextRev \in Nat /\ bridge'.nextRev \in Nat
      BY <2>3, EnvironmentHolds DEF IInv, ClientFacts, TypeOK, BridgeTypeOK
    <3>2. client.rev < bridge'.nextRev /\ (client.rev # 0 => client.snap \in Snapshots) /\ (client.life = "ready" => client.rev # 0)
      BY <2>3, <3>1 DEF Mirror
    <3>3. bridge'.channel = epoch => client.rev = 0
      BY <2>3, <2>9, <2>10
    <3> QED
      BY <3>2, <3>3 DEF Mirror
  <2>12. AcksOK(bridge', epoch, acks')
    BY <2>3, <2>9 DEF AcksOK
  <2>13. ConnectOK'
    <3>1. ConnectOK
      BY DEF IInv, ClientFacts
    <3>2. \A i \in DOMAIN requests' : i \in Nat \ {0} /\ i + 1 \in DOMAIN requests /\ requests'[i] = requests[i + 1]
      BY <1>1, <1>2, <2>9
    <3>3. ASSUME NEW i \in DOMAIN requests', requests'[i].kind = "connect", requests'[i].page = epoch
          PROVE  /\ client.rev = 0 /\ bridge'.channel # epoch
                 /\ \A j \in DOMAIN requests' : requests'[j].kind = "connect" /\ requests'[j].page = epoch => i = j
      <4>1. /\ client.rev = 0
            /\ \A j \in DOMAIN requests : requests[j].kind = "connect" /\ requests[j].page = epoch => i + 1 = j
        BY <3>1, <3>2, <3>3 DEF ConnectOK
      <4>2. page # epoch
        BY <2>10, <3>2, <3>3
      <4>3. bridge'.channel # epoch
        BY <2>3, <2>9, <4>2
      <4>4. \A j \in DOMAIN requests' : requests'[j].kind = "connect" /\ requests'[j].page = epoch => i + 1 = j + 1
        BY <3>2, <4>1
      <4> QED
        BY <3>2, <4>1, <4>3, <4>4
    <3>4. \A i \in DOMAIN requests' : requests'[i].page <= epoch
      BY <3>1, <3>2 DEF ConnectOK
    <3> QED
      BY <2>9, <3>3, <3>4 DEF ConnectOK
  <2>14. ExitOK'
    BY <2>3, <2>4, ExitStays
  <2>15. SlotsAwaitAnswers'
    BY <1>1, <2>3, <2>4, <2>9, SlotsGain
  <2>16. BridgeFacts(bridge', epoch, published, answers, CommandIds') /\ bridge'.resync \in {bridge.resync, bridge.nextId, 0}
         /\ bridge'.resync # bridge.nextId
    BY <2>3, <2>5, <2>8
  <2>17. \A y \in Nat \ {0} : y # bridge.nextId /\ TerminalNoticeOutstanding(bridge', y) =>
              \/ TerminalNoticeOutstanding(bridge, y) \/ y = bridge.resync
              \/ \E j \in 1 .. 0 : Terminal(uiNotices[j]) = y
    BY <2>3
  <2> HIDE DEF Responds, CommandIds
  <2> QED
    BY <1>1, <2>3, <2>7, <2>11, <2>12, <2>13, <2>14, <2>15, <2>16, <2>17, RespondsKeeps
<1> QED
  BY <1>3, <1>4

-----------------------------------------------------------------------------
(* An acknowledgement. *)

\* The frame in flight was acknowledged; t is the request it settles.
Settles(b, c, t) ==
    /\ IsBridge(c) /\ c.readyAcked \in BOOLEAN /\ c.inFlight = NoFrame /\ c.pending = b.pending \ {t}
    /\ c.channel = b.channel /\ c.last = b.last /\ c.nextRev = b.nextRev /\ c.wire = b.wire
    /\ SameQueue(b, c) /\ SameView(b, c)
    /\ c.nextId = b.nextId /\ c.token = b.token /\ c.started = b.started /\ c.exited = b.exited
    /\ c.overflow = b.overflow /\ c.failed = b.failed
    /\ InFlightNotice(b) => t = b.inFlight.notice.terminal
    /\ ~InFlightNotice(b) => t = 0
    /\ c.readyAcked <=> b.readyAcked \/ (InFlightNotice(b) /\ b.inFlight.notice.kind = "ShutdownReady")

LEMMA SettlesKeeps ==
    ASSUME NEW b, NEW c, NEW t, NEW ans, NEW cmds, BridgeFacts(b, epoch, published, ans, cmds), Settles(b, c, t),
           b.wire = <<>>
    PROVE  /\ BridgeFacts(c, epoch, published, ans, cmds)
           /\ \A x : TerminalNoticeOutstanding(c, x) => TerminalNoticeOutstanding(b, x)
           /\ \A x \in c.pending : TerminalNoticeOutstanding(b, x) => TerminalNoticeOutstanding(c, x)
<1>i. ~InFlightNotice(c)
  BY DEF InFlightNotice, Settles
<1>p. /\ BridgeTypeOK(b) /\ IsFiniteSet(b.pending) /\ Cardinality(b.pending) \in Nat /\ 0 \notin b.pending
      /\ Cardinality(b.pending) <= MaxPending
  BY PendingFinite DEF BridgeFacts, QueueOK
<1>t. /\ \A i \in DOMAIN b.notices : b.notices[i].id \in b.pending => b.notices[i].id # t
      /\ b.resync \in b.pending => b.resync # t
  <2>1. CASE t = 0
    BY <1>p, <2>1
  <2>2. CASE t # 0
    <3>1. InFlightNotice(b) /\ t = b.inFlight.notice.terminal
      BY <2>2 DEF Settles
    <3>2. EntryOK(b, b.inFlight.notice) /\ \A i \in DOMAIN b.notices : b.notices[i].id # t
      BY <2>2, <3>1 DEF BridgeFacts, QueueOK
    <3>3. t = b.inFlight.notice.id
      BY <2>2, <3>1, <3>2 DEF EntryOK
    <3>4. b.resync # 0 => b.resync # t
      BY <3>1, <3>3 DEF BridgeFacts, QueueOK
    <3> QED
      BY <1>p, <3>2, <3>4
  <2> QED
    BY <2>1, <2>2
<1>1. BridgeTypeOK(c)
  BY DEF BridgeFacts, BridgeTypeOK, Settles, SameQueue, SameView
<1>2. StreamOK(c, epoch)
  BY DEF BridgeFacts, StreamOK, Settles
<1>3. QueueOK(c)
  <2>1. Cardinality(c.pending) <= MaxPending
    <3>1. c.pending \subseteq b.pending
      BY DEF Settles
    <3>2. Cardinality(c.pending) <= Cardinality(b.pending) /\ Cardinality(c.pending) \in Nat
      BY <1>p, <3>1, FS_Subset, FS_CardinalityType
    <3> QED
      BY <1>p, <3>2, CapacityAssumption
  <2>2. \A i \in DOMAIN c.notices : EntryOK(c, c.notices[i])
    <3>1. \A i \in DOMAIN b.notices : EntryOK(b, b.notices[i])
      BY DEF BridgeFacts, QueueOK
    <3> QED
      BY <1>t, <3>1 DEF EntryOK, Settles, SameQueue
  <2>3. c.resync # 0 => c.resync \in c.pending /\ \A i \in DOMAIN c.notices : c.notices[i].id # c.resync
    BY <1>t DEF BridgeFacts, QueueOK, Settles, SameQueue
  <2> QED
    BY <1>i, <2>1, <2>2, <2>3 DEF BridgeFacts, QueueOK, Settles, SameQueue
<1>4. FreshOK(c, published)
  BY DEF BridgeFacts, FreshOK, Settles, SameView
<1>5. ShutdownOK(c)
  <2>1. c.readyAcked => c.started /\ c.notices = <<>> /\ c.last \in Snapshots /\ c.last.shutting
    BY DEF BridgeFacts, ShutdownOK, Settles, SameQueue, Closing
  <2> QED
    BY <1>i, <2>1 DEF BridgeFacts, ShutdownOK, Settles, SameQueue
<1>6. CoverOK(c, published, ans, cmds)
  BY <1>i DEF BridgeFacts, CoverOK, Settles, SameQueue, SameView
<1>7. \A x : TerminalNoticeOutstanding(c, x) => TerminalNoticeOutstanding(b, x)
  BY DEF TerminalNoticeOutstanding, Settles, SameQueue
<1>8. \A x \in c.pending : TerminalNoticeOutstanding(b, x) => TerminalNoticeOutstanding(c, x)
  BY DEF TerminalNoticeOutstanding, Settles, SameQueue, InFlightNotice
<1> QED
  BY <1>1, <1>2, <1>3, <1>4, <1>5, <1>6, <1>7, <1>8 DEF BridgeFacts

LEMMA AcknowledgeFrameKeeps ==
    ASSUME IInv, NEW ok \in BOOLEAN, AcknowledgeFrame(ok), UNCHANGED <<client, calls, settlements, coordinatorVars>>
    PROVE  IInv'
<1> DEFINE frame == bridge.inFlight
           notice == IF frame # NoFrame /\ frame.kind = "notice"
                     THEN frame.notice ELSE [kind |-> "none", terminal |-> 0]
           t == notice.terminal
           s == [bridge EXCEPT !.inFlight = NoFrame, !.pending = @ \ {notice.terminal},
                               !.readyAcked = @ \/ notice.kind = "ShutdownReady"]
           c == Pump(s, ok)
<1>1. /\ Environment /\ BridgeFacts(bridge, epoch, published, answers, CommandIds) /\ BridgeTypeOK(bridge)
      /\ 0 \notin CommandIds /\ CommandIds \subseteq Nat /\ bridge.nextId \in Nat \ {0} /\ bridge.resync # bridge.nextId
  BY EnvironmentHolds, CommandIdsNat, ResyncBelow
<1>2. /\ AcksOK(bridge, epoch, acks) /\ Mirror(bridge, epoch, client) /\ ConnectOK /\ CallsOK /\ TypeOK /\ client.rev \in Nat
      /\ uiNotices \in Seq(UiNotices) /\ replies \subseteq Replies /\ calls \in [Calls -> CallStates]
  BY DEF IInv, ClientFacts, CallFacts, TypeOK
<1>3. bridge.wire = <<>> /\ frame.rev = Head(acks).rev /\ Tail(acks) = <<>>
  <2>1. acks # <<>>
    BY DEF AcknowledgeFrame
  <2>2. acks = <<[rev |-> frame.rev, page |-> acks[1].page]>> /\ bridge.wire = <<>>
    BY <1>2, <2>1 DEF AcksOK
  <2> DEFINE a == [rev |-> frame.rev, page |-> acks[1].page]
  <2>3. a.rev = frame.rev /\ acks = <<a>>
    BY <2>2
  <2> HIDE DEF a
  <2>4. Head(acks) = a /\ Tail(acks) = <<>>
    BY <2>3
  <2> QED
    BY <2>2, <2>3, <2>4
<1>4. /\ bridge' = [c EXCEPT !.exited = c.readyAcked, !.failed = FALSE] /\ acks' = <<>>
      /\ UNCHANGED <<published, intents, uiNotices, requests, epoch, client, calls, settlements, login, answers>>
      /\ \/ replies' = replies
         \/ replies' = replies \cup {[call |-> "ack", result |-> "fatal", id |-> 0]}
  BY <1>3 DEF AcknowledgeFrame, Answer, coordinatorVars
<1>5. Settles(bridge, s, t)
  <2> DEFINE v == bridge.readyAcked \/ notice.kind = "ShutdownReady"
             p == bridge.pending \ {t}
  <2>1. v \in BOOLEAN /\ IsBridge(bridge)
    BY <1>1 DEF BridgeTypeOK
  <2>2. s = [bridge EXCEPT !.inFlight = NoFrame, !.pending = p, !.readyAcked = v]
    OBVIOUS
  <2>3. /\ InFlightNotice(bridge) => t = bridge.inFlight.notice.terminal
        /\ ~InFlightNotice(bridge) => t = 0
        /\ v <=> bridge.readyAcked \/ (InFlightNotice(bridge) /\ bridge.inFlight.notice.kind = "ShutdownReady")
    BY DEF InFlightNotice
  <2>4. p = bridge.pending \ {t}
    OBVIOUS
  <2> HIDE DEF v, p, t, notice, s
  <2>5. /\ IsBridge(s) /\ s.readyAcked = v /\ s.inFlight = NoFrame /\ s.pending = p
        /\ s.channel = bridge.channel /\ s.last = bridge.last /\ s.nextRev = bridge.nextRev /\ s.wire = bridge.wire
        /\ SameQueue(bridge, s) /\ SameView(bridge, s)
        /\ s.nextId = bridge.nextId /\ s.token = bridge.token /\ s.started = bridge.started /\ s.exited = bridge.exited
        /\ s.overflow = bridge.overflow /\ s.failed = bridge.failed
    BY <2>1, <2>2 DEF IsBridge, SameQueue, SameView
  <2> QED
    BY <2>1, <2>3, <2>4, <2>5 DEF Settles
<1> HIDE DEF s, t, CommandIds
<1>6. /\ BridgeFacts(s, epoch, published, answers, CommandIds) /\ BridgeTypeOK(s) /\ StreamOK(s, epoch)
      /\ \A x : TerminalNoticeOutstanding(s, x) => TerminalNoticeOutstanding(bridge, x)
      /\ \A x \in s.pending : TerminalNoticeOutstanding(bridge, x) => TerminalNoticeOutstanding(s, x)
  BY <1>1, <1>3, <1>5, SettlesKeeps DEF BridgeFacts
<1>7. Keeps(s, c, answers, CommandIds)
  BY <1>1, <1>6, PumpKeeps
<1> HIDE DEF c
<1>8. /\ BridgeFacts(c, epoch, published, answers, CommandIds) /\ BridgeTypeOK(c) /\ Kept(s, c) /\ Sends(s, c)
      /\ c.resync \in {s.resync, 0} /\ Retains(s, c)
      /\ \A x \in Nat \ {0} : TerminalNoticeOutstanding(c, x) => TerminalNoticeOutstanding(s, x) \/ x = s.resync
  BY <1>7 DEF Keeps, Leads, BridgeFacts
<1>9. Leaves(c, bridge') /\ bridge'.failed = FALSE /\ bridge'.exited = c.readyAcked
  <2>1. PICK v \in BOOLEAN : v = c.readyAcked
    BY <1>8 DEF BridgeTypeOK
  <2>2. bridge' = [c EXCEPT !.exited = v, !.failed = FALSE]
    BY <1>4, <2>1
  <2> QED
    BY <1>8, <2>1, <2>2, ExitFields
<1>10. /\ BridgeFacts(bridge', epoch, published, answers, CommandIds) /\ BridgeTypeOK(bridge')
       /\ \A x : TerminalNoticeOutstanding(bridge', x) <=> TerminalNoticeOutstanding(c, x)
       /\ Sends(s, bridge') /\ Retains(s, bridge')
  BY <1>8, <1>9, LeavesKeeps DEF BridgeFacts
<1>11. /\ s.nextId = bridge.nextId /\ s.resync = bridge.resync /\ s.last = bridge.last /\ s.channel = bridge.channel
       /\ s.pending \subseteq bridge.pending /\ s.started = bridge.started /\ s.inFlight = NoFrame
       /\ s.wire = <<>> /\ s.nextRev = bridge.nextRev
  BY <1>3, <1>5 DEF Settles, SameQueue
<1>12. /\ bridge'.nextId = bridge.nextId /\ bridge'.resync \in {bridge.resync, 0} /\ bridge'.pending = s.pending
       /\ bridge'.started = bridge.started /\ bridge'.readyAcked = c.readyAcked
  BY <1>8, <1>9, <1>11 DEF Kept, Leaves, SameQueue
<1>13. Mirror(bridge', epoch, client)
  <2>1. Mirror(s, epoch, client)
    BY <1>2, <1>3, <1>11 DEF Mirror, Delivered
  <2> QED
    BY <1>1, <1>2, <1>6, <1>10, <2>1, MirrorSends
<1>14. AcksOK(bridge', epoch, acks')
  <2>1. AcksOK(s, epoch, <<>>)
    BY <1>11 DEF AcksOK
  <2> QED
    BY <1>1, <1>4, <1>6, <1>10, <2>1, AcksSends
<1>15. ExitOK'
  BY <1>9, <1>12 DEF ExitOK
<1>16. Grows(bridge.last, bridge'.last) /\ bridge'.channel \in {bridge.channel, 0}
  BY <1>10, <1>11, SendsGrows
<1>17. ConnectOK'
  BY <1>2, <1>4, <1>16, ConnectKeeps
<1>18. /\ replies' \subseteq Replies
       /\ \A r \in replies' : r \in replies \/ r.call \notin Calls
       /\ replies' = replies \/ \E r : r.call \notin Calls /\ replies' = replies \cup {r}
  <2> DEFINE a == [call |-> "ack", result |-> "fatal", id |-> 0]
  <2>1. a \in Replies /\ a.call \notin Calls
    BY CallsAssumption DEF Replies, OtherCalls
  <2>2. replies' = replies \/ replies' = replies \cup {a}
    BY <1>4
  <2> HIDE DEF a
  <2> QED
    BY <1>2, <2>1, <2>2
<1>19. CallsOK' /\ CommandIds' = CommandIds
  BY <1>1, <1>2, <1>4, <1>12, <1>18, CallsSame
<1>20. SlotsAwaitAnswers'
  <2> SUFFICES ASSUME ~bridge'.started, NEW id \in bridge'.pending, id \notin login'.ids PROVE OnItsWay(id)'
    BY DEF SlotsAwaitAnswers
  <2>1. id \in s.pending /\ id \in bridge.pending /\ id \notin login.ids /\ ~bridge.started /\ id \in Nat \ {0}
    BY <1>1, <1>4, <1>11, <1>12, PendingFinite
  <2>2. OnItsWay(id)
    BY <2>1 DEF IInv, LoginFacts, SlotsAwaitAnswers
  <2>3. CASE bridge.resync = id \/ TerminalNoticeOutstanding(bridge, id)
    <3>1. s.resync = id \/ TerminalNoticeOutstanding(s, id)
      BY <1>6, <1>11, <2>1, <2>3
    <3> QED
      BY <1>10, <2>1, <3>1 DEF Retains, OnItsWay
  <2>4. CASE (\E i \in DOMAIN intents : intents[i].id = id) \/ \E i \in DOMAIN uiNotices : uiNotices[i].id = id
    BY <1>4, <2>4 DEF OnItsWay
  <2> QED
    BY <2>2, <2>3, <2>4 DEF OnItsWay
<1>21. Follows(0)
  <2>1. \A k \in DOMAIN uiNotices' : k \in Nat \ {0} /\ k + 0 \in DOMAIN uiNotices /\ uiNotices'[k] = uiNotices[k + 0]
    BY <1>2, <1>4
  <2>2. \A x \in 1 .. bridge.nextId - 1 : x \in Nat \ {0}
    BY <1>1
  <2>3. \A x \in 1 .. bridge.nextId - 1 : x # bridge.resync /\ TerminalNoticeOutstanding(bridge', x) =>
          TerminalNoticeOutstanding(bridge, x) \/ \E j \in 1 .. 0 : Terminal(uiNotices[j]) = x
    BY <1>6, <1>8, <1>10, <1>11, <2>2
  <2>4. bridge.nextId <= bridge'.nextId /\ bridge'.resync # bridge.nextId /\ 0 \in 0 .. Len(uiNotices)
    BY <1>1, <1>2, <1>12
  <2> QED
    BY <1>2, <1>4, <1>12, <1>16, <1>18, <2>1, <2>3, <2>4 DEF Follows
<1>22. BridgeFacts(bridge', epoch, published, answers, CommandIds') /\ CommandIds' \subseteq CommandIds \cup {bridge.nextId}
  BY <1>10, <1>19
<1> HIDE DEF Follows
<1> QED
  BY <1>4, <1>13, <1>14, <1>15, <1>17, <1>19, <1>20, <1>21, <1>22, FollowsKeeps

-----------------------------------------------------------------------------
(* The coordinator. *)

LEMMA AnsweredMore ==
    ASSUME NEW snap, NEW ans, NEW more, ans \subseteq more, NEW id, NEW outcome, AnsweredBy(snap, ans, id, outcome)
    PROVE  AnsweredBy(snap, more, id, outcome)
BY DEF AnsweredBy

LEMMA MoreAnswers ==
    ASSUME NEW b, NEW page, NEW pub, NEW ans, NEW more, NEW cmds, ans \subseteq more, BridgeFacts(b, page, pub, ans, cmds)
    PROVE  BridgeFacts(b, page, pub, more, cmds)
<1>1. CoverOK(b, pub, more, cmds)
  BY AnsweredMore DEF BridgeFacts, CoverOK
<1> QED
  BY <1>1 DEF BridgeFacts

LEMMA CoordinatorFollows ==
    ASSUME IInv, UNCHANGED <<bridge, published, requests, acks, replies, epoch, clientVars>>,
           answers \subseteq answers', answers' \subseteq CoordinatorAnswers,
           uiNotices' \in Seq(UiNotices), intents' \in Seq(Intents), login' \in [id : Nat, opened : BOOLEAN, ids : SUBSET Nat],
           \A i \in DOMAIN intents' : Apart(bridge, intents'[i].id),
           \A i \in DOMAIN uiNotices' : Apart(bridge, uiNotices'[i].id),
           login'.id # 0 => Apart(bridge, login'.id),
           NoticesOK', IntentsOK', SlotsAwaitAnswers'
    PROVE  IInv'
<1>1. UNCHANGED <<client, calls, settlements, CommandIds>>
  BY DEF clientVars, CommandIds
<1>2. TypeOK'
  BY <1>1 DEF IInv, TypeOK, IsClient
<1>3. BridgeFacts(bridge, epoch, published, answers, CommandIds)'
  <2>1. BridgeFacts(bridge, epoch, published, answers', CommandIds)
    BY EnvironmentHolds, MoreAnswers
  <2> QED
    BY <1>1, <2>1
<1>4. ClientFacts'
  BY <1>1 DEF IInv, ClientFacts, ExitOK, ConnectOK
<1>5. CallsOK'
  BY <1>1 DEF IInv, CallFacts, CallsOK, FromCall
<1>6. ReportsOK'
  <2>1. \A id, outcome : Reported(id, outcome) => Reported(id, outcome)'
    BY <1>1 DEF Reported
  <2>2. ReportsOK
    BY DEF IInv, CallFacts
  <2> HIDE DEF CommandIds
  <2>3. \A c \in Calls : calls[c].status \in Outcomes /\ calls[c].id # 0 => Reported(calls[c].id, calls[c].status)
    BY <2>2 DEF ReportsOK
  <2>4. \A i \in DOMAIN settlements : settlements[i].id \in CommandIds => Reported(settlements[i].id, settlements[i].outcome)
    BY <2>2 DEF ReportsOK
  <2>5. \A c \in Calls : calls'[c].status \in Outcomes /\ calls'[c].id # 0 => Reported(calls[c].id, calls[c].status)'
    BY <1>1, <2>3 DEF Reported
  <2>6. \A i \in DOMAIN settlements' : settlements'[i].id \in CommandIds' => Reported(settlements[i].id, settlements[i].outcome)'
    BY <1>1, <2>4 DEF Reported
  <2> QED
    BY <1>1, <2>2, <2>5, <2>6 DEF ReportsOK
<1>7. IdsOK'
  BY <1>1 DEF IInv, LoginFacts, IdsOK
<1> QED
  BY <1>2, <1>3, <1>4, <1>5, <1>6, <1>7 DEF IInv, CallFacts, LoginFacts

\* What Notify adds to the port and to the history.
LEMMA NotifyFacts ==
    ASSUME IInv, NEW kind \in {"BrowserOpened", "Committed", "Rejected", "Completed"}, NEW id \in Nat \ {0},
           Notify(kind, id), Apart(bridge, id), login'.ids = login.ids \/ login.ids \subseteq login'.ids,
           UNCHANGED <<bridge, published, replies, calls>>,
           kind \in Authentication => id \in login'.ids /\ id \notin CommandIds,
           kind = "BrowserOpened" => Unanswered(bridge, uiNotices, id)
    PROVE  /\ answers \subseteq answers' /\ answers' \subseteq CoordinatorAnswers /\ uiNotices' \in Seq(UiNotices)
           /\ \A i \in DOMAIN uiNotices' : Apart(bridge, uiNotices'[i].id)
           /\ NoticesOK'
           /\ \E i \in DOMAIN uiNotices' : uiNotices'[i].id = id
           /\ \A x \in Nat \ {0} : Unanswered(bridge, uiNotices, x) /\ (x # id \/ kind = "BrowserOpened") => Unanswered(bridge, uiNotices', x)
           /\ \A i \in DOMAIN uiNotices : i \in DOMAIN uiNotices' /\ uiNotices'[i] = uiNotices[i]
<1> DEFINE n == Notice(kind, id)
           m == Len(uiNotices) + 1
           a == [id |-> id, outcome |-> Outcome(n), published |-> published]
<1>1. uiNotices \in Seq(UiNotices) /\ IdsOK /\ NoticesOK /\ published \in Ports /\ answers \subseteq CoordinatorAnswers
  BY DEF IInv, LoginFacts, TypeOK
<1>2. n.kind = kind /\ n.id = id /\ n \in UiNotices
  BY DEF Notice, UiNotices, Authentication, Answers
<1>3. Terminal(n) = IF kind = "BrowserOpened" THEN 0 ELSE id
  BY <1>2 DEF Terminal
<1>4. kind # "BrowserOpened" => Outcome(n) \in Outcomes
  BY <1>2 DEF Outcome, Outcomes
<1>5. /\ uiNotices' = Append(uiNotices, n)
      /\ answers' = IF kind = "BrowserOpened" THEN answers ELSE answers \cup {a}
  BY DEF Notify
<1>6. a.id = id /\ a.outcome = Outcome(n) /\ a.published = published /\ (kind # "BrowserOpened" => a \in CoordinatorAnswers)
  BY <1>1, <1>4 DEF CoordinatorAnswers
<1> HIDE DEF n, a
<1>7. answers \subseteq answers' /\ answers' \subseteq CoordinatorAnswers
  BY <1>1, <1>5, <1>6
<1>8. /\ uiNotices' \in Seq(UiNotices) /\ m \in DOMAIN uiNotices' /\ uiNotices'[m] = n
      /\ \A i \in DOMAIN uiNotices : i \in DOMAIN uiNotices' /\ uiNotices'[i] = uiNotices[i]
      /\ \A i \in DOMAIN uiNotices' : i \in DOMAIN uiNotices \/ i = m
      /\ 1 .. m - 1 = DOMAIN uiNotices
      /\ \A i \in DOMAIN uiNotices : \A j \in 1 .. i - 1 : j \in DOMAIN uiNotices
  BY <1>1, <1>2, <1>5
<1>9. \A i \in DOMAIN uiNotices' : Apart(bridge, uiNotices'[i].id)
  BY <1>1, <1>2, <1>8 DEF IdsOK
<1>10. \A x \in Nat \ {0} : Unanswered(bridge, uiNotices, x) /\ (x # id \/ kind = "BrowserOpened") => Unanswered(bridge, uiNotices', x)
  BY <1>3, <1>8 DEF Unanswered
<1>c. CommandIds' = CommandIds
  BY DEF CommandIds
<1> HIDE DEF m, CommandIds
<1>11. ASSUME NEW k \in DOMAIN uiNotices'
       PROVE  /\ uiNotices'[k].kind \in Authentication => uiNotices'[k].id \in login'.ids
              /\ uiNotices'[k].kind = "BrowserOpened" =>
                    /\ ~TerminalNoticeOutstanding(bridge, uiNotices'[k].id)
                    /\ \A j \in 1 .. k - 1 : Terminal(uiNotices'[j]) # uiNotices'[k].id
              /\ uiNotices'[k].id \in CommandIds =>
                    /\ uiNotices'[k].kind \in Answers
                    /\ AnsweredBy(published, answers', uiNotices'[k].id, Outcome(uiNotices'[k]))
  <2>1. CASE k \in DOMAIN uiNotices
    <3>1. uiNotices'[k] = uiNotices[k] /\ \A j \in 1 .. k - 1 : uiNotices'[j] = uiNotices[j]
      BY <1>8, <2>1
    <3>2. /\ uiNotices[k].kind \in Authentication => uiNotices[k].id \in login'.ids
          /\ uiNotices[k].kind = "BrowserOpened" =>
                /\ ~TerminalNoticeOutstanding(bridge, uiNotices[k].id)
                /\ \A j \in 1 .. k - 1 : Terminal(uiNotices[j]) # uiNotices[k].id
          /\ uiNotices[k].id \in CommandIds =>
                /\ uiNotices[k].kind \in Answers
                /\ AnsweredBy(published, answers, uiNotices[k].id, Outcome(uiNotices[k]))
      BY <1>1, <2>1 DEF NoticesOK
    <3> QED
      BY <1>7, <3>1, <3>2, AnsweredMore
  <2>2. CASE k = m
    <3>1. uiNotices'[k] = n /\ \A j \in 1 .. k - 1 : j \in DOMAIN uiNotices /\ uiNotices'[j] = uiNotices[j]
      BY <1>8, <2>2
    <3>2. kind = "BrowserOpened" =>
            /\ ~TerminalNoticeOutstanding(bridge, id)
            /\ \A j \in 1 .. k - 1 : Terminal(uiNotices'[j]) # id
      BY <3>1 DEF Unanswered
    <3>3. id \in CommandIds => kind \in Answers /\ AnsweredBy(published, answers', id, Outcome(n))
      <4> SUFFICES ASSUME id \in CommandIds PROVE kind \in Answers /\ AnsweredBy(published, answers', id, Outcome(n))
        OBVIOUS
      <4>1. kind \in Answers /\ kind # "BrowserOpened"
        BY DEF Authentication, Answers
      <4>2. a \in answers'
        BY <1>5, <4>1
      <4>3. Covers(published, a)
        BY <1>1, <1>6 DEF Covers, Ports
      <4> QED
        BY <1>6, <4>1, <4>2, <4>3 DEF AnsweredBy
    <3> QED
      BY <1>2, <3>1, <3>2, <3>3
  <2> QED
    BY <1>8, <2>1, <2>2
<1>12. NoticesOK'
  BY <1>11, <1>c DEF NoticesOK
<1> QED
  BY <1>2, <1>7, <1>8, <1>9, <1>10, <1>12

LEMMA IntentsTaken ==
    ASSUME IInv, intents # <<>>, intents' = Tail(intents), UNCHANGED <<bridge, CommandIds>>,
           \/ login'.id = 0 \/ login'.id = login.id
           \/ login'.id = Head(intents).id /\ Head(intents).kind = "login",
           \A x \in Nat \ {0} : Unanswered(bridge, uiNotices, x) /\ x # Head(intents).id => Unanswered(bridge, uiNotices', x),
           login'.id # 0 => Unanswered(bridge, uiNotices', login'.id) /\ login'.id \notin CommandIds /\ login'.id \in login'.ids
    PROVE  IntentsOK' /\ intents' \in Seq(Intents) /\ \A i \in DOMAIN intents' : Apart(bridge, intents'[i].id)
<1>1. intents \in Seq(Intents) /\ IntentsOK /\ IdsOK
  BY DEF IInv, TypeOK, LoginFacts
<1>2. /\ intents' \in Seq(Intents)
      /\ \A i \in DOMAIN intents' : i \in Nat \ {0} /\ i + 1 \in DOMAIN intents /\ intents'[i] = intents[i + 1]
      /\ 1 \in DOMAIN intents /\ Head(intents) = intents[1]
  BY <1>1
<1>3. \A i \in DOMAIN intents : intents[i] \in Intents
  BY <1>1
<1>4. \A i \in DOMAIN intents : intents[i].id \in Nat \ {0}
  BY <1>3 DEF Intents
<1> HIDE DEF CommandIds
<1>5. \A i \in DOMAIN intents' : intents'[i].kind # "cancel" => intents'[i].id # login'.id
  <2> SUFFICES ASSUME NEW i \in DOMAIN intents', intents'[i].kind # "cancel" PROVE intents'[i].id # login'.id
    OBVIOUS
  <2>1. i + 1 \in DOMAIN intents /\ intents'[i] = intents[i + 1] /\ i + 1 # 1
    BY <1>2
  <2>2. intents[i + 1].id # login.id /\ intents[i + 1].id # 0
    BY <1>1, <1>4, <2>1 DEF IntentsOK
  <2>3. Head(intents).kind = "login" => intents[i + 1].id # Head(intents).id
    BY <1>1, <1>2, <2>1 DEF IntentsOK
  <2> QED
    BY <2>1, <2>2, <2>3
<1>6. \A i, j \in DOMAIN intents' :
          intents'[i].kind # "cancel" /\ intents'[j].kind # "cancel" /\ intents'[i].id = intents'[j].id => i = j
  <2> SUFFICES ASSUME NEW i \in DOMAIN intents', NEW j \in DOMAIN intents',
                      intents'[i].kind # "cancel", intents'[j].kind # "cancel", intents'[i].id = intents'[j].id
               PROVE  i = j
    OBVIOUS
  <2>1. i + 1 = j + 1
    BY <1>1, <1>2 DEF IntentsOK
  <2> QED
    BY <1>2, <2>1
<1>7. ASSUME NEW i \in DOMAIN intents', intents'[i].kind = "login"
      PROVE  /\ Unanswered(bridge, uiNotices', intents'[i].id) /\ intents'[i].id \notin CommandIds
             /\ \A j \in 1 .. i - 1 : intents'[j].id # intents'[i].id
  <2>1. i + 1 \in DOMAIN intents /\ intents'[i] = intents[i + 1] /\ 1 \in 1 .. (i + 1) - 1
    BY <1>2
  <2>2. /\ Unanswered(bridge, uiNotices, intents[i + 1].id) /\ intents[i + 1].id \notin CommandIds
        /\ \A j \in 1 .. (i + 1) - 1 : intents[j].id # intents[i + 1].id
    BY <1>1, <1>7, <2>1 DEF IntentsOK
  <2>3. intents[i + 1].id # Head(intents).id /\ intents[i + 1].id \in Nat \ {0}
    BY <1>2, <1>4, <2>1, <2>2
  <2>4. \A j \in 1 .. i - 1 : j \in DOMAIN intents' /\ j + 1 \in 1 .. (i + 1) - 1
    BY <1>2
  <2> QED
    BY <1>2, <2>1, <2>2, <2>3, <2>4
<1>8. IntentsOK'
  BY <1>5, <1>6, <1>7 DEF IntentsOK
<1> QED
  BY <1>1, <1>2, <1>8 DEF IdsOK

LEMMA SlotsTaken ==
    ASSUME IInv, UNCHANGED bridge, login.ids \subseteq login'.ids,
           \A i \in DOMAIN uiNotices : i \in DOMAIN uiNotices' /\ uiNotices'[i] = uiNotices[i],
           \A i \in DOMAIN intents :
              \/ \E j \in DOMAIN intents' : intents'[j] = intents[i]
              \/ \E j \in DOMAIN uiNotices' : uiNotices'[j].id = intents[i].id
              \/ intents[i].id \in login'.ids
    PROVE  SlotsAwaitAnswers'
<1> SUFFICES ASSUME ~bridge.started, NEW id \in bridge.pending PROVE OnItsWay(id)' \/ id \in login'.ids
  BY DEF SlotsAwaitAnswers
<1>1. OnItsWay(id) \/ id \in login.ids
  BY DEF IInv, LoginFacts, SlotsAwaitAnswers
<1>2. CASE bridge.resync = id \/ TerminalNoticeOutstanding(bridge, id)
  BY <1>2 DEF OnItsWay
<1>3. CASE \E i \in DOMAIN intents : intents[i].id = id
  <2>1. PICK i \in DOMAIN intents : intents[i].id = id
    BY <1>3
  <2> QED
    BY <2>1 DEF OnItsWay
<1>4. CASE \E i \in DOMAIN uiNotices : uiNotices[i].id = id
  BY <1>4 DEF OnItsWay
<1> QED
  BY <1>1, <1>2, <1>3, <1>4 DEF OnItsWay

LEMMA HandleIntentKeeps ==
    ASSUME IInv, HandleIntent
    PROVE  IInv'
<1> DEFINE h == Head(intents)
<1>1. /\ intents \in Seq(Intents) /\ IdsOK /\ NoticesOK /\ IntentsOK /\ uiNotices \in Seq(UiNotices)
      /\ login \in [id : Nat, opened : BOOLEAN, ids : SUBSET Nat] /\ answers \subseteq CoordinatorAnswers
  BY DEF IInv, TypeOK, LoginFacts
<1>2. /\ intents # <<>> /\ intents' = Tail(intents)
      /\ UNCHANGED <<bridge, published, requests, acks, replies, epoch, clientVars>>
      /\ UNCHANGED <<bridge, published, replies, calls>>
  BY DEF HandleIntent, clientVars
<1>3. h = intents[1] /\ 1 \in DOMAIN intents /\ h \in Intents
  BY <1>1, <1>2
<1>4. h.id \in Nat \ {0} /\ Apart(bridge, h.id)
  BY <1>1, <1>3 DEF Intents, IdsOK
<1>5. UNCHANGED CommandIds
  BY <1>2 DEF CommandIds
<1>6. \A i \in DOMAIN intents : i = 1 \/ \E j \in DOMAIN intents' : intents'[j] = intents[i]
  <2> SUFFICES ASSUME NEW i \in DOMAIN intents, i # 1 PROVE \E j \in DOMAIN intents' : intents'[j] = intents[i]
    OBVIOUS
  <2>1. i - 1 \in DOMAIN intents' /\ intents'[i - 1] = intents[i]
    BY <1>1, <1>2
  <2> QED
    BY <2>1
<1>7. login.id # 0 => Unanswered(bridge, uiNotices, login.id) /\ login.id \notin CommandIds /\ login.id \in login.ids
  BY <1>1 DEF IntentsOK
<1>8. h.kind # "cancel" => h.id # login.id
  BY <1>1, <1>3 DEF IntentsOK
<1>9. login.id \in Nat /\ login'.id # 0 /\ login'.id = login.id => login.id \in Nat \ {0}
  BY <1>1
<1>a. login.id \in Nat /\ login.ids \in SUBSET Nat
  BY <1>1
<1> HIDE DEF h, CommandIds
\* The intent is answered.
<1>10. ASSUME NEW kind \in {"Committed", "Rejected"}, Notify(kind, h.id), login'.ids = login.ids,
              login' \in [id : Nat, opened : BOOLEAN, ids : SUBSET Nat],
              login'.id = 0 \/ (login'.id = login.id /\ h.id # login.id)
       PROVE  IInv'
  <2>1. kind \in {"BrowserOpened", "Committed", "Rejected", "Completed"} /\ kind \notin Authentication /\ kind # "BrowserOpened"
    BY DEF Authentication
  <2>2. /\ answers \subseteq answers' /\ answers' \subseteq CoordinatorAnswers /\ uiNotices' \in Seq(UiNotices)
        /\ \A i \in DOMAIN uiNotices' : Apart(bridge, uiNotices'[i].id)
        /\ NoticesOK'
        /\ \E i \in DOMAIN uiNotices' : uiNotices'[i].id = h.id
        /\ \A x \in Nat \ {0} : Unanswered(bridge, uiNotices, x) /\ (x # h.id \/ kind = "BrowserOpened") => Unanswered(bridge, uiNotices', x)
        /\ \A i \in DOMAIN uiNotices : i \in DOMAIN uiNotices' /\ uiNotices'[i] = uiNotices[i]
    BY <1>2, <1>4, <1>10, <2>1, NotifyFacts
  <2>3. login'.id # 0 => Unanswered(bridge, uiNotices', login'.id) /\ login'.id \notin CommandIds /\ login'.id \in login'.ids
    BY <1>7, <1>9, <1>a, <1>10, <2>2
  <2>4. IntentsOK' /\ intents' \in Seq(Intents) /\ \A i \in DOMAIN intents' : Apart(bridge, intents'[i].id)
    BY <1>2, <1>5, <1>10, <2>2, <2>3, IntentsTaken DEF h
  <2>5. SlotsAwaitAnswers'
    BY <1>2, <1>3, <1>6, <1>10, <2>2, SlotsTaken
  <2>6. login'.id # 0 => Apart(bridge, login'.id)
    BY <1>1, <1>10 DEF IdsOK
  <2> QED
    BY <1>2, <1>10, <2>2, <2>4, <2>5, <2>6, CoordinatorFollows
<1>11. CASE \E kind \in {"Committed", "Rejected"} : h.kind \in CommandKinds /\ Notify(kind, h.id) /\ UNCHANGED login
  BY <1>1, <1>8, <1>10, <1>11 DEF CommandKinds
<1>12. CASE h.kind = "login" /\ login.id # 0 /\ Notify("Rejected", h.id) /\ UNCHANGED login
  BY <1>1, <1>8, <1>10, <1>12
<1>13. CASE /\ h.kind = "cancel" /\ Notify("Committed", h.id)
            /\ login' = IF login.id = h.id THEN [login EXCEPT !.id = 0] ELSE login
  <2>1. login'.ids = login.ids /\ login' \in [id : Nat, opened : BOOLEAN, ids : SUBSET Nat]
    BY <1>1, <1>13
  <2>2. login'.id = 0 \/ (login'.id = login.id /\ h.id # login.id)
    BY <1>1, <1>13
  <2> QED
    BY <1>10, <1>13, <2>1, <2>2
<1>14. CASE /\ h.kind = "login" /\ login.id = 0 /\ UNCHANGED <<uiNotices, answers>>
            /\ login' = [id |-> h.id, opened |-> FALSE, ids |-> login.ids \cup {h.id}]
  <2>1. /\ login'.id = h.id /\ login'.ids = login.ids \cup {h.id}
        /\ login' \in [id : Nat, opened : BOOLEAN, ids : SUBSET Nat]
    BY <1>1, <1>4, <1>14
  <2>2. Unanswered(bridge, uiNotices', h.id) /\ h.id \notin CommandIds /\ h.id \in login'.ids
    BY <1>1, <1>3, <1>14, <2>1 DEF IntentsOK
  <2>3. IntentsOK' /\ intents' \in Seq(Intents) /\ \A i \in DOMAIN intents' : Apart(bridge, intents'[i].id)
    BY <1>2, <1>5, <1>14, <2>1, <2>2, IntentsTaken DEF h
  <2>4. NoticesOK'
    BY <1>1, <1>2, <1>5, <1>14, <2>1 DEF NoticesOK
  <2>5. SlotsAwaitAnswers'
    BY <1>2, <1>3, <1>6, <1>14, <2>1, SlotsTaken
  <2>6. \A i \in DOMAIN uiNotices' : Apart(bridge, uiNotices'[i].id)
    BY <1>1, <1>14 DEF IdsOK
  <2>7. uiNotices' \in Seq(UiNotices) /\ answers \subseteq answers' /\ answers' \subseteq CoordinatorAnswers
    BY <1>1, <1>14
  <2> QED
    BY <1>2, <1>4, <2>1, <2>3, <2>4, <2>5, <2>6, <2>7, CoordinatorFollows
<1> QED
  BY <1>11, <1>12, <1>13, <1>14 DEF HandleIntent, CommandKinds, h

\* The sign-in under way reports.
LEMMA LoginReports ==
    ASSUME IInv, NEW kind \in {"BrowserOpened", "Rejected", "Completed"}, login.id # 0, Notify(kind, login.id),
           UNCHANGED <<bridge, published, intents, requests, acks, replies, epoch, clientVars>>,
           login'.ids = login.ids, login' \in [id : Nat, opened : BOOLEAN, ids : SUBSET Nat],
           login'.id = IF kind = "BrowserOpened" THEN login.id ELSE 0
    PROVE  IInv'
<1>1. /\ intents \in Seq(Intents) /\ IdsOK /\ NoticesOK /\ IntentsOK
      /\ login \in [id : Nat, opened : BOOLEAN, ids : SUBSET Nat]
  BY DEF IInv, TypeOK, LoginFacts
<1>2. login.id \in Nat \ {0} /\ Apart(bridge, login.id)
  BY <1>1 DEF IdsOK
<1>3. UNCHANGED CommandIds /\ UNCHANGED <<bridge, published, replies, calls>>
  BY DEF CommandIds, clientVars
<1> HIDE DEF CommandIds
<1>4. Unanswered(bridge, uiNotices, login.id) /\ login.id \notin CommandIds /\ login.id \in login.ids
  BY <1>1 DEF IntentsOK
<1>5. kind \in {"BrowserOpened", "Committed", "Rejected", "Completed"}
  OBVIOUS
<1>6. /\ answers \subseteq answers' /\ answers' \subseteq CoordinatorAnswers /\ uiNotices' \in Seq(UiNotices)
      /\ \A i \in DOMAIN uiNotices' : Apart(bridge, uiNotices'[i].id)
      /\ NoticesOK'
      /\ \A x \in Nat \ {0} : Unanswered(bridge, uiNotices, x) /\ (x # login.id \/ kind = "BrowserOpened") => Unanswered(bridge, uiNotices', x)
      /\ \A i \in DOMAIN uiNotices : i \in DOMAIN uiNotices' /\ uiNotices'[i] = uiNotices[i]
  BY <1>2, <1>3, <1>4, <1>5, NotifyFacts
<1>7. \A i \in DOMAIN intents : intents[i] \in Intents
  BY <1>1
<1>8. \A i \in DOMAIN intents : intents[i].id \in Nat \ {0}
  BY <1>7 DEF Intents
<1>9. IntentsOK'
  <2>1. \A i \in DOMAIN intents : intents[i].kind # "cancel" => intents[i].id # login'.id
    BY <1>1, <1>8 DEF IntentsOK
  <2>2. ASSUME NEW i \in DOMAIN intents, intents[i].kind = "login"
        PROVE  /\ Unanswered(bridge, uiNotices', intents[i].id) /\ intents[i].id \notin CommandIds
               /\ \A j \in 1 .. i - 1 : intents[j].id # intents[i].id
    <3>1. intents[i].id # login.id
      BY <1>1, <2>2 DEF IntentsOK
    <3>2. /\ Unanswered(bridge, uiNotices, intents[i].id) /\ intents[i].id \notin CommandIds
          /\ \A j \in 1 .. i - 1 : intents[j].id # intents[i].id
      BY <1>1, <2>2 DEF IntentsOK
    <3> QED
      BY <1>6, <1>8, <3>1, <3>2
  <2>3. login'.id # 0 => Unanswered(bridge, uiNotices', login'.id) /\ login'.id \notin CommandIds /\ login'.id \in login'.ids
    BY <1>2, <1>4, <1>6
  <2> QED
    BY <1>1, <1>3, <2>1, <2>2, <2>3 DEF IntentsOK
<1>10. SlotsAwaitAnswers'
  BY <1>6, SlotsTaken
<1>11. login'.id # 0 => Apart(bridge, login'.id)
  BY <1>2
<1>12. intents' \in Seq(Intents) /\ \A i \in DOMAIN intents' : Apart(bridge, intents'[i].id)
  BY <1>1 DEF IdsOK
<1> QED
  BY <1>6, <1>9, <1>10, <1>11, <1>12, CoordinatorFollows

LEMMA CoordinatorKeeps ==
    ASSUME IInv, CoordinatorStep
    PROVE  IInv'
<1>1. login \in [id : Nat, opened : BOOLEAN, ids : SUBSET Nat]
  BY DEF IInv, TypeOK
<1>2. CASE HandleIntent
  BY <1>2, HandleIntentKeeps
<1>3. CASE BrowserOpened
  <2>1. /\ login.id # 0 /\ Notify("BrowserOpened", login.id) /\ login' = [login EXCEPT !.opened = TRUE]
        /\ UNCHANGED <<bridge, published, intents, requests, acks, replies, epoch, clientVars>>
    BY <1>3 DEF BrowserOpened
  <2>2. login'.ids = login.ids /\ login'.id = login.id /\ login' \in [id : Nat, opened : BOOLEAN, ids : SUBSET Nat]
    BY <1>1, <2>1
  <2> QED
    BY <2>1, <2>2, LoginReports
<1>4. CASE LoginFinished
  <2>1. /\ login.id # 0 /\ login' = [login EXCEPT !.id = 0]
        /\ UNCHANGED <<bridge, published, intents, requests, acks, replies, epoch, clientVars>>
    BY <1>4 DEF LoginFinished
  <2>2. PICK kind \in {"Completed", "Rejected"} : Notify(kind, login.id)
    BY <1>4 DEF LoginFinished
  <2>3. login'.ids = login.ids /\ login'.id = 0 /\ login' \in [id : Nat, opened : BOOLEAN, ids : SUBSET Nat]
    BY <1>1, <2>1
  <2> QED
    BY <2>1, <2>2, <2>3, LoginReports
<1> QED
  BY <1>2, <1>3, <1>4 DEF CoordinatorStep

\* The ports move on, and the bridge has yet to look at one of them.
Stirs(b, c) ==
    /\ Kept(b, c) /\ SameStream(b, c) /\ SameQueue(b, c)
    /\ c.failed = b.failed /\ c.generation = b.generation /\ c.dirty = b.dirty
    /\ b.unseen \subseteq c.unseen /\ c.unseen \subseteq Watches

Later(pub, new, unseen) ==
    /\ pub \in Ports /\ new \in Ports
    /\ pub.active <= new.active /\ pub.session <= new.session /\ pub.catalog <= new.catalog
    /\ "session" \notin unseen => pub.active = new.active /\ pub.session = new.session
    /\ "catalog" \notin unseen => pub.catalog = new.catalog

LEMMA StirsKeeps ==
    ASSUME NEW b, NEW c, NEW page, NEW pub, NEW new, NEW ans, NEW cmds, ans \subseteq CoordinatorAnswers,
           BridgeFacts(b, page, pub, ans, cmds), Stirs(b, c), Later(pub, new, c.unseen)
    PROVE  BridgeFacts(c, page, new, ans, cmds)
<1>1. BridgeTypeOK(c)
  BY DEF BridgeFacts, Stirs, BridgeTypeOK, SameStream, SameQueue, Kept
<1>2. InFlightNotice(c) = InFlightNotice(b)
  BY DEF Stirs, InFlightNotice, SameStream
<1>3. StreamOK(c, page)
  BY DEF BridgeFacts, Stirs, StreamOK, FrameOK, SameStream
<1>4. QueueOK(c)
  BY <1>2 DEF BridgeFacts, Stirs, QueueOK, EntryOK, SameStream, SameQueue, Kept
<1>p. /\ pub.active \in Nat /\ pub.session \in Nat /\ pub.catalog \in Nat
      /\ new.active \in Nat /\ new.session \in Nat /\ new.catalog \in Nat
      /\ pub.active <= new.active /\ pub.session <= new.session /\ pub.catalog <= new.catalog
  BY DEF Later, Ports
<1>5. FreshOK(c, new)
  <2>0. FreshOK(b, pub) /\ BridgeTypeOK(b)
    BY DEF BridgeFacts
  <2>1. c.last = b.last /\ c.token = b.token /\ c.dirty = b.dirty /\ c.started = b.started /\ c.generation = b.generation
    BY DEF Stirs, SameStream, Kept
  <2>2. b.last \in Snapshots => b.last.active \in Nat /\ b.last.session \in Nat /\ b.last.catalog \in Nat
    BY DEF Snapshots
  <2>3. c.last \in Snapshots =>
          /\ c.last.active <= new.active /\ c.last.session <= new.session /\ c.last.catalog <= new.catalog
          /\ c.last.shutting => c.token
    BY <1>p, <2>0, <2>1, <2>2 DEF FreshOK
  <2>4. ("session" \notin c.unseen => "session" \notin b.unseen) /\ ("catalog" \notin c.unseen => "catalog" \notin b.unseen)
    BY DEF Stirs
  <2> QED
    BY <2>0, <2>1, <2>3, <2>4 DEF FreshOK, Later
<1>6. ShutdownOK(c)
  BY <1>2 DEF BridgeFacts, Stirs, ShutdownOK, SameStream, SameQueue, Kept
<1>7. CoverOK(c, new, ans, cmds)
  <2>1. \A id, outcome : AnsweredBy(pub, ans, id, outcome) => AnsweredBy(new, ans, id, outcome)
    BY <1>p, AnsweredLater
  <2>2. CoverOK(b, pub, ans, cmds) /\ c.notices = b.notices /\ c.last = b.last /\ c.resync = b.resync /\ c.dirty = b.dirty /\ c.inFlight = b.inFlight
    BY DEF BridgeFacts, Stirs, SameStream, SameQueue
  <2> QED
    BY <1>2, <2>1, <2>2 DEF CoverOK
<1> QED
  BY <1>1, <1>3, <1>4, <1>5, <1>6, <1>7 DEF BridgeFacts

LEMMA PublishKeeps ==
    ASSUME IInv, NEW watch \in Publishing, Publish(watch)
    PROVE  IInv'
<1>0. /\ published \in Ports /\ BridgeTypeOK(bridge) /\ answers \subseteq CoordinatorAnswers
      /\ BridgeFacts(bridge, epoch, published, answers, CommandIds) /\ watch \in Watches
  BY EnvironmentHolds, PublishingAssumption DEF IInv, TypeOK
<1>1. /\ UNCHANGED <<intents, uiNotices, requests, acks, replies, epoch, client, calls, settlements, login, answers>>
      /\ bridge' = [bridge EXCEPT !.unseen = @ \cup {watch}]
      /\ published' \in CASE watch = "session" -> {[published EXCEPT !.session = @ + 1],
                                    [published EXCEPT !.session = @ + 1, !.active = @ + 1]}
           [] watch = "catalog" -> {[published EXCEPT !.catalog = @ + 1]}
           [] watch = "profiles" -> {[published EXCEPT !.recovery = @ + 1]}
  BY DEF Publish, clientVars, coordinatorVars
<1>2. Stirs(bridge, bridge') /\ watch \in bridge'.unseen
  <2>1. IsBridge(bridge) /\ bridge.unseen \subseteq Watches /\ bridge.failed \in BOOLEAN
    BY <1>0 DEF BridgeTypeOK
  <2> QED
    BY <1>0, <1>1, <2>1 DEF IsBridge, Stirs, Kept, SameStream, SameQueue
<1>3. Later(published, published', bridge'.unseen)
  <2>1. CASE watch = "session"
    <3>1. published' \in {[published EXCEPT !.session = @ + 1], [published EXCEPT !.session = @ + 1, !.active = @ + 1]}
      BY <1>1, <2>1
    <3>2. /\ published' \in Ports /\ published'.catalog = published.catalog
          /\ published.active <= published'.active /\ published.session <= published'.session
      <4>1. CASE published' = [published EXCEPT !.session = @ + 1]
        BY <1>0, <4>1 DEF Ports
      <4>2. CASE published' = [published EXCEPT !.session = @ + 1, !.active = @ + 1]
        <5>1. published.active \in Nat \ {0} /\ published.session \in Nat /\ published.catalog \in Nat /\ published.recovery \in Nat
          BY <1>0 DEF Ports
        <5>2. published' = [active |-> published.active + 1, session |-> published.session + 1,
                            catalog |-> published.catalog, recovery |-> published.recovery]
          BY <1>0, <4>2 DEF Ports
        <5>3. published.active + 1 \in Nat \ {0} /\ published.session + 1 \in Nat
          BY <5>1
        <5> QED
          BY <5>1, <5>2, <5>3 DEF Ports
      <4> QED
        BY <3>1, <4>1, <4>2
    <3>4. published.catalog \in Nat
      BY <1>0 DEF Ports
    <3> QED
      BY <1>0, <1>2, <2>1, <3>2, <3>4 DEF Later
  <2>2. CASE watch = "catalog"
    <3>1. published' = [published EXCEPT !.catalog = @ + 1]
      BY <1>1, <2>2
    <3> QED
      BY <1>0, <1>2, <2>2, <3>1 DEF Later, Ports
  <2>3. CASE watch = "profiles"
    <3>1. published' = [published EXCEPT !.recovery = @ + 1]
      BY <1>1, <2>3
    <3> QED
      BY <1>0, <3>1 DEF Later, Ports
  <2> QED
    BY <1>0, <2>1, <2>2, <2>3 DEF Watches
<1>4. CommandIds' = CommandIds
  BY <1>1 DEF CommandIds
<1>5. BridgeFacts(bridge, epoch, published, answers, CommandIds)'
  <2> HIDE DEF CommandIds
  <2>1. BridgeFacts(bridge', epoch, published', answers, CommandIds)
    BY <1>0, <1>2, <1>3, StirsKeeps
  <2> QED
    BY <1>1, <1>4, <2>1
<1>6. TypeOK'
  <2>1. published' \in Ports
    BY <1>3 DEF Later
  <2> QED
    BY <1>1, <2>1 DEF IInv, TypeOK, IsClient
<1>7. /\ SameStream(bridge, bridge') /\ bridge'.failed = bridge.failed /\ bridge'.readyAcked = bridge.readyAcked
      /\ bridge'.exited = bridge.exited /\ bridge'.resync = bridge.resync /\ bridge'.nextId = bridge.nextId
      /\ bridge'.pending = bridge.pending /\ bridge'.started = bridge.started /\ bridge'.notices = bridge.notices
  BY <1>2 DEF Stirs, Kept, SameQueue
<1>8. ClientFacts'
  <2>1. ExitOK'
    BY <1>7 DEF IInv, ClientFacts, ExitOK
  <2>2. Mirror(bridge, epoch, client)' /\ AcksOK(bridge, epoch, acks)'
    BY <1>1, <1>7 DEF IInv, ClientFacts, Mirror, AcksOK, SameStream, Delivered
  <2>3. ConnectOK' /\ ResyncOK(client)'
    BY <1>1, <1>7 DEF IInv, ClientFacts, ConnectOK, SameStream
  <2> QED
    BY <2>1, <2>2, <2>3 DEF ClientFacts
<1>9. CallFacts'
  <2>1. CallsOK'
    BY <1>1, <1>7 DEF IInv, CallFacts, CallsOK, FromCall
  <2>2. ReportsOK'
    BY <1>1, <1>4, <1>7 DEF IInv, CallFacts, ReportsOK, Reported, SameStream
  <2> QED
    BY <2>1, <2>2 DEF CallFacts
<1>10. \A x : TerminalNoticeOutstanding(bridge', x) = TerminalNoticeOutstanding(bridge, x)
  BY <1>7 DEF TerminalNoticeOutstanding, SameStream
<1>11. LoginFacts'
  <2>1. IdsOK'
    BY <1>1, <1>7 DEF IInv, LoginFacts, IdsOK, Apart
  <2>2. NoticesOK'
    <3>1. \A id, outcome : AnsweredBy(published, answers, id, outcome) => AnsweredBy(published', answers, id, outcome)
      BY <1>0, <1>3, AnsweredLater DEF Later, Ports
    <3> QED
      BY <1>1, <1>4, <1>10, <3>1 DEF IInv, LoginFacts, NoticesOK
  <2>3. IntentsOK'
    BY <1>1, <1>4, <1>10 DEF IInv, LoginFacts, IntentsOK, Unanswered
  <2>4. SlotsAwaitAnswers'
    BY <1>1, <1>7, <1>10 DEF IInv, LoginFacts, SlotsAwaitAnswers, OnItsWay
  <2> QED
    BY <2>1, <2>2, <2>3, <2>4 DEF LoginFacts
<1> QED
  BY <1>5, <1>6, <1>8, <1>9, <1>11 DEF IInv

-----------------------------------------------------------------------------
(* A step of the page: of the bridge it changes no more than what is on    *)
(* the wire.                                                               *)

Unwired(b, c) ==
    /\ IsBridge(c) /\ SameQueue(b, c) /\ SameView(b, c)
    /\ c.channel = b.channel /\ c.last = b.last /\ c.nextRev = b.nextRev /\ c.inFlight = b.inFlight
    /\ c.nextId = b.nextId /\ c.pending = b.pending /\ c.token = b.token /\ c.started = b.started
    /\ c.readyAcked = b.readyAcked /\ c.exited = b.exited /\ c.failed = b.failed /\ c.overflow = b.overflow

LEMMA WireFields ==
    ASSUME NEW b, BridgeTypeOK(b), NEW w, NEW c, c = [b EXCEPT !.wire = w]
    PROVE  Unwired(b, c) /\ c.wire = w
<1>1. IsBridge(b)
  BY DEF BridgeTypeOK
<1> QED
  BY <1>1 DEF IsBridge, Unwired, SameQueue, SameView

LEMMA UnwiredKeeps ==
    ASSUME NEW b, NEW c, NEW page \in Nat, NEW new \in Nat, NEW pub, NEW ans, NEW cmds,
           BridgeFacts(b, page, pub, ans, cmds), Unwired(b, c), page <= new,
           c.wire = <<>> \/ (c.wire = b.wire /\ new = page)
    PROVE  BridgeFacts(c, new, pub, ans, cmds)
<1>1. BridgeTypeOK(c)
  BY DEF BridgeFacts, Unwired, BridgeTypeOK, SameQueue, SameView
<1>2. InFlightNotice(c) = InFlightNotice(b)
  BY DEF Unwired, InFlightNotice
<1>3. StreamOK(c, new)
  <2>1. c.inFlight = NoFrame \/ FrameOK(c)
    BY DEF BridgeFacts, Unwired, StreamOK, FrameOK
  <2>2. b.channel \in Nat /\ b.channel <= page /\ c.channel = b.channel
    BY DEF BridgeFacts, BridgeTypeOK, StreamOK, Unwired
  <2>3. c.channel <= new
    BY <2>2
  <2> QED
    BY <2>1, <2>2, <2>3 DEF BridgeFacts, Unwired, StreamOK
<1>4. QueueOK(c)
  BY <1>2 DEF BridgeFacts, Unwired, QueueOK, EntryOK, SameQueue
<1>5. FreshOK(c, pub)
  BY DEF BridgeFacts, Unwired, FreshOK, SameView
<1>6. ShutdownOK(c)
  BY <1>2 DEF BridgeFacts, Unwired, ShutdownOK, SameQueue
<1>7. CoverOK(c, pub, ans, cmds)
  BY <1>2 DEF BridgeFacts, Unwired, CoverOK, SameQueue, SameView
<1> QED
  BY <1>1, <1>3, <1>4, <1>5, <1>6, <1>7 DEF BridgeFacts

LEMMA PageFollows ==
    ASSUME IInv, UNCHANGED <<published, intents, uiNotices, login, answers>>,
           Unwired(bridge, bridge'), epoch <= epoch',
           bridge'.wire = <<>> \/ (bridge'.wire = bridge.wire /\ epoch' = epoch),
           TypeOK', ClientFacts', CallFacts', CommandIds' \subseteq CommandIds,
           \A i \in DOMAIN requests' : requests'[i].kind = "cancel" /\ requests'[i].target # 0 => Apart(bridge, requests'[i].target),
           \A c \in Calls : calls'[c].id # 0 => Apart(bridge, calls'[c].id),
           \A r \in replies' : r.call \in Calls /\ r.id # 0 => Apart(bridge, r.id)
    PROVE  IInv'
<1>1. BridgeFacts(bridge, epoch, published, answers, CommandIds)'
  <2>1. epoch \in Nat /\ epoch' \in Nat
    BY DEF IInv, TypeOK
  <2>2. BridgeFacts(bridge, epoch, published, answers, CommandIds)
    BY EnvironmentHolds
  <2> HIDE DEF CommandIds
  <2>3. BridgeFacts(bridge', epoch', published, answers, CommandIds)
    BY <2>1, <2>2, UnwiredKeeps
  <2>4. BridgeFacts(bridge', epoch', published, answers, CommandIds')
    BY <2>3, CoverFewer
  <2> QED
    BY <2>4
<1>2. /\ bridge'.nextId = bridge.nextId /\ bridge'.resync = bridge.resync /\ bridge'.started = bridge.started
      /\ bridge'.pending = bridge.pending
      /\ \A x : TerminalNoticeOutstanding(bridge', x) = TerminalNoticeOutstanding(bridge, x)
  BY DEF Unwired, SameQueue, TerminalNoticeOutstanding
<1>3. \A x : Apart(bridge', x) = Apart(bridge, x)
  BY <1>2 DEF Apart
<1> HIDE DEF CommandIds
<1>4. IdsOK'
  BY <1>3 DEF IInv, LoginFacts, IdsOK
<1>5. NoticesOK'
  BY <1>2 DEF IInv, LoginFacts, NoticesOK
<1>6. IntentsOK'
  BY <1>2 DEF IInv, LoginFacts, IntentsOK, Unanswered
<1>7. SlotsAwaitAnswers'
  BY <1>2 DEF IInv, LoginFacts, SlotsAwaitAnswers, OnItsWay
<1> QED
  BY <1>1, <1>4, <1>5, <1>6, <1>7 DEF IInv, LoginFacts

\* A call that changes has neither a request nor a reply under way any more.
Moves(c) ==
    /\ \A r \in replies' : r.call # c
    /\ \A i \in DOMAIN requests' : requests'[i].page = epoch' => requests'[i].call # c
    /\ calls'[c].id < bridge.nextId
    /\ calls'[c].status = "waiting" => calls'[c].kind # "login" /\ calls'[c].id # 0 /\ calls'[c].id \in CommandIds

LEMMA CallsMove ==
    ASSUME IInv, bridge'.nextId = bridge.nextId, replies' \subseteq replies,
           \A c \in Calls : calls'[c] = calls[c] \/ Moves(c),
           \A i \in DOMAIN requests' : requests'[i].call \in Calls <=> requests'[i].kind \in CommandKinds \cup {"login"},
           \A i \in DOMAIN requests' : requests'[i].call \in Calls /\ requests'[i].page = epoch' =>
              i \in DOMAIN requests /\ requests'[i] = requests[i] /\ requests[i].page = epoch
    PROVE  CallsOK' /\ CommandIds' \subseteq CommandIds
<1>0. CallsOK
  BY DEF IInv, CallFacts
<1>1. \A r \in replies' : r.call \in Calls => calls'[r.call] = calls[r.call]
  BY DEF Moves
<1>2. CommandIds' \subseteq CommandIds
  <2>1. ASSUME NEW r \in replies', r.call \in Calls, r.result = "ok", calls'[r.call].kind # "login" PROVE r.id \in CommandIds
    BY <1>1, <2>1 DEF CommandIds
  <2>2. ASSUME NEW c \in Calls, calls'[c].status = "waiting" PROVE calls'[c].id \in CommandIds
    <3>1. CASE calls'[c] = calls[c]
      BY <2>2, <3>1 DEF CommandIds
    <3>2. CASE Moves(c)
      BY <2>2, <3>2 DEF Moves
    <3> QED
      BY <3>1, <3>2
  <2> QED
    BY <2>1, <2>2 DEF CommandIds
<1> HIDE DEF CommandIds
<1>3. \A i \in DOMAIN requests' : requests'[i].call \in Calls /\ requests'[i].page = epoch' =>
          /\ calls'[requests'[i].call] = calls[requests'[i].call]
          /\ FromCall(requests[i]) /\ i \in DOMAIN requests /\ requests'[i] = requests[i]
  BY DEF Moves, FromCall
<1>4. \A i \in DOMAIN requests' : requests'[i].call \in Calls /\ requests'[i].page = epoch' =>
          /\ calls'[requests'[i].call].status = "sent" /\ calls'[requests'[i].call].id = 0
          /\ calls'[requests'[i].call].kind = requests'[i].kind
          /\ \A j \in DOMAIN requests' : requests'[j].call \in Calls /\ requests'[j].page = epoch' /\ requests'[j].call = requests'[i].call => i = j
          /\ \A r \in replies' : r.call # requests'[i].call
  BY <1>0, <1>3 DEF CallsOK
<1>5. \A r \in replies' : r.call \in Calls =>
          /\ calls'[r.call].status = "sent" /\ calls'[r.call].id = 0 /\ calls'[r.call].kind # "none"
          /\ r.result = "ok" => r.id \in 1 .. bridge.nextId - 1
          /\ \A s \in replies' : s.call = r.call => s = r
  BY <1>0, <1>1 DEF CallsOK
<1>6. \A c \in Calls :
          /\ calls'[c].id < bridge.nextId
          /\ calls'[c].status = "waiting" => calls'[c].kind # "login" /\ calls'[c].id # 0
  BY <1>0 DEF CallsOK, Moves
<1> QED
  BY <1>2, <1>4, <1>5, <1>6 DEF CallsOK, FromCall

\* The coordinator gave that answer, and what the client shows is not older.
Told(id, outcome) ==
    \/ Reported(id, outcome)
    \/ /\ bridge.last \in Snapshots /\ AnsweredBy(bridge.last, answers, id, outcome)
       /\ client'.life = "ready" => Agree(client'.snap, bridge.last)

LEMMA ReportsMove ==
    ASSUME IInv, UNCHANGED answers, bridge'.last = bridge.last, bridge'.nextId = bridge.nextId, CommandIds' \subseteq CommandIds,
           \/ client'.life # "ready"
           \/ client.life = "ready" /\ client'.snap = client.snap
           \/ Agree(client'.snap, bridge.last),
           \A c \in Calls : calls'[c].status \in Outcomes /\ calls'[c].id # 0 =>
              calls'[c] = calls[c] \/ Told(calls'[c].id, calls'[c].status),
           \A i \in DOMAIN settlements' : settlements'[i].id \in CommandIds => Told(settlements'[i].id, settlements'[i].outcome),
           \A i \in DOMAIN settlements' : settlements'[i].id < bridge.nextId
    PROVE  ReportsOK'
<1>0. ReportsOK
  BY DEF IInv, CallFacts
<1>1. ASSUME NEW CONSTANT id, NEW CONSTANT outcome, Told(id, outcome) PROVE Reported(id, outcome)'
  <2>1. CASE Reported(id, outcome)
    <3>1. PICK a \in answers :
          /\ a.id = id /\ a.outcome = outcome /\ Covers(bridge.last, a)
          /\ client.life = "ready" => Covers(client.snap, a)
      BY <2>1 DEF Reported
    <3>2. client'.life = "ready" => Covers(client'.snap, a)
      BY <3>1 DEF Agree, Covers
    <3> QED
      BY <2>1, <3>1, <3>2 DEF Reported
  <2>2. CASE /\ bridge.last \in Snapshots /\ AnsweredBy(bridge.last, answers, id, outcome)
             /\ client'.life = "ready" => Agree(client'.snap, bridge.last)
    <3>1. PICK a \in answers : a.id = id /\ a.outcome = outcome /\ Covers(bridge.last, a)
      BY <2>2 DEF AnsweredBy
    <3>2. client'.life = "ready" => Covers(client'.snap, a)
      BY <2>2, <3>1 DEF Agree, Covers
    <3> QED
      BY <2>2, <3>1, <3>2 DEF Reported
  <2> QED
    BY <1>1, <2>1, <2>2 DEF Told
<1> HIDE DEF CommandIds
<1>2. ASSUME NEW c \in Calls, calls'[c].status \in Outcomes, calls'[c].id # 0 PROVE Reported(calls[c].id, calls[c].status)'
  <2>1. CASE calls'[c] = calls[c]
    <3>1. Reported(calls[c].id, calls[c].status)
      BY <1>0, <1>2, <2>1 DEF ReportsOK
    <3>2. PICK x, y : x = calls[c].id /\ y = calls[c].status
      OBVIOUS
    <3>3. Told(x, y)
      BY <3>1, <3>2 DEF Told
    <3>4. Reported(x, y)'
      BY <1>1, <3>3
    <3> QED
      BY <2>1, <3>2, <3>4 DEF Reported
  <2>2. CASE Told(calls'[c].id, calls'[c].status)
    <3>2. PICK x, y : x = calls'[c].id /\ y = calls'[c].status
      OBVIOUS
    <3>3. Told(x, y)
      BY <2>2, <3>2
    <3>4. Reported(x, y)'
      BY <1>1, <3>3
    <3> QED
      BY <3>2, <3>4 DEF Reported
  <2> QED
    BY <1>2, <2>1, <2>2
<1>3. ASSUME NEW i \in DOMAIN settlements', settlements'[i].id \in CommandIds PROVE Reported(settlements[i].id, settlements[i].outcome)'
  <2>2. PICK x, y : x = settlements'[i].id /\ y = settlements'[i].outcome
    OBVIOUS
  <2>3. Told(x, y)
    BY <1>3, <2>2
  <2>4. Reported(x, y)'
    BY <1>1, <2>3
  <2> QED
    BY <2>2, <2>4 DEF Reported
<1> QED
  BY <1>2, <1>3 DEF ReportsOK

\* The client shows what it showed, or is no longer ready.
Calms ==
    /\ IsClient' /\ client'.rev = client.rev /\ client'.snap = client.snap
    /\ client'.life = client.life \/ client'.life \in {"resyncing", "failed", "closed"}
    /\ client'.resync.on \in BOOLEAN /\ client'.resync.replied \in BOOLEAN
    /\ ResyncOK(client')

\* A request that is not a call's.
Aside(x) ==
    /\ x \in Requests /\ x.page = epoch /\ x.call \notin Calls /\ x.kind \in {"cancel", "resync", "shutdown"}
    /\ x.kind = "cancel" /\ x.target # 0 => Apart(bridge, x.target)

LEMMA RequestAside ==
    ASSUME IInv, NEW kind \in {"cancel", "resync", "shutdown"}, NEW call \in OtherCalls, NEW target \in Nat,
           kind = "cancel" /\ target # 0 => Apart(bridge, target)
    PROVE  Aside(Request(kind, call, target))
<1>1. epoch \in Nat \ {0} /\ call \notin Calls
  BY CallsAssumption DEF IInv, TypeOK, OtherCalls
<1> QED
  BY <1>1 DEF Aside, Request, Requests, OtherCalls

LEMMA AppendedRequests ==
    ASSUME IInv, requests' = requests \/ \E x : Aside(x) /\ requests' = Append(requests, x)
    PROVE  /\ requests' \in Seq(Requests)
           /\ \A i \in DOMAIN requests' : (i \in DOMAIN requests /\ requests'[i] = requests[i]) \/ Aside(requests'[i])
<1>1. requests \in Seq(Requests)
  BY DEF IInv, TypeOK
<1>2. ASSUME NEW x, Aside(x), requests' = Append(requests, x)
      PROVE  /\ requests' \in Seq(Requests)
             /\ \A i \in DOMAIN requests' : (i \in DOMAIN requests /\ requests'[i] = requests[i]) \/ requests'[i] = x
  <2>1. x \in Requests
    BY <1>2 DEF Aside
  <2> QED
    BY <1>1, <1>2, <2>1
<1> QED
  BY <1>1, <1>2

LEMMA CalmMirror ==
    ASSUME IInv, Calms, UNCHANGED <<bridge, acks, epoch>>,
           requests' = requests \/ \E x : Aside(x) /\ requests' = Append(requests, x)
    PROVE  ClientFacts'
<1>1. /\ ExitOK /\ Mirror(bridge, epoch, client) /\ AcksOK(bridge, epoch, acks) /\ ConnectOK
      /\ epoch \in Nat
  BY DEF IInv, ClientFacts, TypeOK
<1>2. Mirror(bridge, epoch, client')
  BY <1>1 DEF Mirror, Calms
<1>3. \A i \in DOMAIN requests' : (i \in DOMAIN requests /\ requests'[i] = requests[i]) \/ Aside(requests'[i])
  BY AppendedRequests
<1>4. ConnectOK'
  <2>1. \A i \in DOMAIN requests' : requests'[i].page <= epoch
    BY <1>1, <1>3 DEF ConnectOK, Aside
  <2>2. \A i \in DOMAIN requests' : requests'[i].kind = "connect" => i \in DOMAIN requests /\ requests'[i] = requests[i]
    BY <1>3 DEF Aside
  <2>3. client'.rev = client.rev
    BY DEF Calms
  <2> QED
    BY <1>1, <2>1, <2>2, <2>3 DEF ConnectOK
<1>5. ResyncOK(client')
  BY DEF Calms
<1>6. ExitOK'
  BY <1>1 DEF ExitOK
<1> QED
  BY <1>1, <1>2, <1>4, <1>5, <1>6 DEF ClientFacts

LEMMA PageQuiet ==
    ASSUME IInv, Calms, UNCHANGED <<bridge, published, intents, uiNotices, acks, epoch, login, answers>>,
           requests' = requests \/ \E x : Aside(x) /\ requests' = Append(requests, x),
           replies' \subseteq replies, calls' \in [Calls -> CallStates], settlements' \in Seq(Settlements),
           \A c \in Calls : calls'[c] = calls[c] \/ Moves(c),
           \A c \in Calls : calls'[c].id # 0 => Apart(bridge, calls'[c].id),
           \A c \in Calls : calls'[c].status \in Outcomes /\ calls'[c].id # 0 =>
              calls'[c] = calls[c] \/ Reported(calls'[c].id, calls'[c].status),
           \A i \in DOMAIN settlements' : \E j \in DOMAIN settlements : settlements'[i] = settlements[j]
    PROVE  IInv'
<1>1. /\ requests' \in Seq(Requests)
      /\ \A i \in DOMAIN requests' : (i \in DOMAIN requests /\ requests'[i] = requests[i]) \/ Aside(requests'[i])
  BY AppendedRequests
<1>0. TypeOK /\ CallsOK /\ ReportsOK /\ IdsOK /\ BridgeTypeOK(bridge)
  BY EnvironmentHolds DEF IInv, CallFacts, LoginFacts
<1>2. ClientFacts'
  BY CalmMirror
<1>3. \A i \in DOMAIN requests' : requests'[i].call \in Calls <=> requests'[i].kind \in CommandKinds \cup {"login"}
  BY <1>0, <1>1 DEF CallsOK, Aside, CommandKinds
<1>4. \A i \in DOMAIN requests' : requests'[i].call \in Calls /\ requests'[i].page = epoch' =>
              i \in DOMAIN requests /\ requests'[i] = requests[i] /\ requests[i].page = epoch
  BY <1>1 DEF Aside
<1>5. CallsOK' /\ CommandIds' \subseteq CommandIds
  <2> HIDE DEF CommandIds, Moves
  <2> QED
    BY <1>3, <1>4, CallsMove
<1> HIDE DEF CommandIds
<1>6. ReportsOK'
  <2>1. \/ client'.life # "ready"
        \/ client.life = "ready" /\ client'.snap = client.snap
    BY DEF Calms
  <2>2. \A c \in Calls : calls'[c].status \in Outcomes /\ calls'[c].id # 0 =>
              calls'[c] = calls[c] \/ Told(calls'[c].id, calls'[c].status)
    BY DEF Told
  <2>3. \A i \in DOMAIN settlements' : settlements'[i].id \in CommandIds => Told(settlements'[i].id, settlements'[i].outcome)
    BY <1>0 DEF Told, ReportsOK
  <2>4. \A i \in DOMAIN settlements' : settlements'[i].id < bridge.nextId
    BY <1>0 DEF ReportsOK
  <2> QED
    BY <1>5, <2>1, <2>2, <2>3, <2>4, ReportsMove
<1>7. TypeOK'
  <2>1. client'.rev \in Nat /\ client'.life \in {"booting", "ready", "resyncing", "failed", "closed"}
    BY <1>0 DEF TypeOK, Calms
  <2>2. IsClient' /\ client'.resync.on \in BOOLEAN /\ client'.resync.replied \in BOOLEAN
    BY DEF Calms
  <2>3. replies' \subseteq Replies
    BY <1>0 DEF TypeOK
  <2> QED
    BY <1>0, <1>1, <2>1, <2>2, <2>3 DEF TypeOK
<1>8. Unwired(bridge, bridge')
  BY <1>0 DEF Unwired, SameQueue, SameView, BridgeTypeOK
<1>9. \A i \in DOMAIN requests' : requests'[i].kind = "cancel" /\ requests'[i].target # 0 => Apart(bridge, requests'[i].target)
  BY <1>0, <1>1 DEF IdsOK, Aside
<1>10. \A r \in replies' : r.call \in Calls /\ r.id # 0 => Apart(bridge, r.id)
  BY <1>0 DEF IdsOK
<1>11. epoch <= epoch' /\ (bridge'.wire = <<>> \/ (bridge'.wire = bridge.wire /\ epoch' = epoch))
  BY <1>0 DEF TypeOK
<1>12. CallFacts'
  BY <1>5, <1>6 DEF CallFacts
<1> QED
  BY <1>2, <1>5, <1>7, <1>8, <1>9, <1>10, <1>11, <1>12, PageFollows

LEMMA ResyncFields ==
    ASSUME NEW on \in BOOLEAN
    PROVE  [NoResync EXCEPT !.on = on] = [on |-> on, replied |-> FALSE, frame |-> NoFrame]
<1>1. PICK z : z = FALSE
  OBVIOUS
<1>2. NoResync = [on |-> z, replied |-> z, frame |-> NoFrame]
  BY <1>1, Zenon DEF NoResync
<1>3. [on |-> on, replied |-> FALSE, frame |-> NoFrame] = [on |-> on, replied |-> z, frame |-> NoFrame]
  BY <1>1, Zenon
<1>4. PICK y : y = on
  OBVIOUS
<1>5. [NoResync EXCEPT !.on = y] = [on |-> y, replied |-> z, frame |-> NoFrame]
  BY <1>2
<1> QED
  BY <1>3, <1>4, <1>5, Zenon

LEMMA ClientFields ==
    ASSUME IInv, NEW life \in {"resyncing", "failed", "closed"}, NEW on \in BOOLEAN, on => life = "resyncing",
           client' = [client EXCEPT !.life = life, !.resync = [NoResync EXCEPT !.on = on]]
    PROVE  Calms
<1>1. IsClient
  BY DEF IInv, TypeOK
<1>2. /\ client'.life = life /\ client'.rev = client.rev /\ client'.snap = client.snap
      /\ client' = [life |-> life, snap |-> client.snap, rev |-> client.rev, resync |-> client'.resync]
      /\ client'.resync = [NoResync EXCEPT !.on = on]
  BY <1>1 DEF IsClient
<1>3. [NoResync EXCEPT !.on = on] = [on |-> on, replied |-> FALSE, frame |-> NoFrame]
  BY ResyncFields
<1>4. client'.resync.on = on /\ client'.resync.replied = FALSE /\ client'.resync.frame = NoFrame
  BY <1>2, <1>3
<1>5. IsClient'
  BY <1>2, <1>3, <1>4 DEF IsClient
<1>6. ResyncOK(client')
  BY <1>2, <1>3, <1>4 DEF ResyncOK, NoResync
<1> QED
  BY <1>2, <1>4, <1>5, <1>6 DEF Calms

LEMMA ClientStays ==
    ASSUME IInv, client' = client
    PROVE  Calms
BY DEF IInv, TypeOK, ClientFacts, Calms, IsClient

LEMMA FailedFields ==
    ASSUME IInv, client' = Failed(client)
    PROVE  Calms /\ client'.life = "failed"
<1>1. [NoResync EXCEPT !.on = FALSE] = NoResync
  BY ResyncFields, Zenon DEF NoResync
<1>2. client' = [client EXCEPT !.life = "failed", !.resync = [NoResync EXCEPT !.on = FALSE]]
  BY <1>1 DEF Failed
<1>3. IsClient
  BY DEF IInv, TypeOK
<1> QED
  BY <1>2, <1>3, ClientFields DEF IsClient

LEMMA RequestResyncKeeps ==
    ASSUME IInv, RequestResync(client)
    PROVE  /\ Calms /\ (requests' = requests \/ \E x : Aside(x) /\ requests' = Append(requests, x))
           /\ client.life # "ready" => client'.life # "ready"
<1>1. CASE client.resync.on
  BY <1>1, ClientStays DEF RequestResync
<1>2. CASE ~client.resync.on /\ MailboxFull
  BY <1>2, FailedFields DEF RequestResync
<1>3. CASE ~client.resync.on /\ ~MailboxFull
  <2>1. /\ requests' = Append(requests, Request("resync", "resync", 0))
        /\ client' = [client EXCEPT !.life = "resyncing", !.resync = [NoResync EXCEPT !.on = TRUE]]
    BY <1>3 DEF RequestResync, Enqueue
  <2>2. Aside(Request("resync", "resync", 0))
    BY RequestAside DEF OtherCalls
  <2>3. IsClient
    BY DEF IInv, TypeOK
  <2>4. client'.life = "resyncing"
    BY <2>1, <2>3 DEF IsClient
  <2>5. Calms
    BY <2>1, ClientFields
  <2> QED
    BY <2>1, <2>2, <2>4, <2>5
<1> QED
  BY <1>1, <1>2, <1>3

LEMMA WaitingMoves ==
    ASSUME IInv, NEW c \in Calls, calls[c].status # "sent", epoch' = epoch, replies' \subseteq replies,
           requests' = requests \/ \E x : Aside(x) /\ requests' = Append(requests, x),
           calls'[c].id = calls[c].id, calls'[c].status # "waiting"
    PROVE  Moves(c)
<1>1. CallsOK
  BY DEF IInv, CallFacts
<1>2. \A i \in DOMAIN requests' : (i \in DOMAIN requests /\ requests'[i] = requests[i]) \/ Aside(requests'[i])
  BY AppendedRequests
<1>3. \A r \in replies' : r.call # c
  BY <1>1 DEF CallsOK
<1>4. \A i \in DOMAIN requests' : requests'[i].page = epoch' => requests'[i].call # c
  BY <1>1, <1>2 DEF CallsOK, FromCall, Aside
<1>5. calls'[c].id < bridge.nextId
  BY <1>1 DEF CallsOK
<1> QED
  BY <1>3, <1>4, <1>5 DEF Moves

Quits(c) == calls[c].status = "waiting" /\ calls'[c] = [calls[c] EXCEPT !.status = "unknown"]

LEMMA QuitFields ==
    ASSUME IInv, NEW c \in Calls, Quits(c)
    PROVE  calls'[c].id = calls[c].id /\ calls'[c].status = "unknown" /\ calls'[c].kind = calls[c].kind /\ calls'[c] \in CallStates
<1>1. calls[c] \in CallStates
  BY DEF IInv, TypeOK
<1> QED
  BY <1>1 DEF CallStates, Quits

\* Calls that wait are told nothing, and nothing else is.
LEMMA GivesUp ==
    ASSUME IInv, Calms, UNCHANGED <<bridge, published, intents, uiNotices, acks, epoch, login, answers>>,
           requests' = requests \/ \E x : Aside(x) /\ requests' = Append(requests, x),
           replies' \subseteq replies, settlements' = <<>> \/ settlements' = settlements,
           calls' \in [Calls -> CallStates], \A c \in Calls : calls'[c] = calls[c] \/ Quits(c)
    PROVE  IInv'
<1>0. calls \in [Calls -> CallStates] /\ settlements \in Seq(Settlements) /\ IdsOK
  BY DEF IInv, TypeOK, LoginFacts
<1>1. \A c \in Calls : Quits(c) => calls'[c].id = calls[c].id /\ calls'[c].status = "unknown" /\ calls[c].status = "waiting"
  BY QuitFields DEF Quits
<1>2. \A c \in Calls : calls'[c] = calls[c] \/ Moves(c)
  BY <1>1, WaitingMoves
<1>3. \A c \in Calls : calls'[c].id # 0 => Apart(bridge, calls'[c].id)
  BY <1>0, <1>1 DEF IdsOK
<1>4. \A c \in Calls : calls'[c].status \in Outcomes /\ calls'[c].id # 0 =>
              calls'[c] = calls[c] \/ Reported(calls'[c].id, calls'[c].status)
  BY <1>1 DEF Outcomes
<1>5. settlements' \in Seq(Settlements) /\ \A i \in DOMAIN settlements' : \E j \in DOMAIN settlements : settlements'[i] = settlements[j]
  <2>1. CASE settlements' = <<>>
    BY <2>1
  <2>2. CASE settlements' = settlements
    BY <1>0, <2>2
  <2> QED
    BY <2>1, <2>2
<1> HIDE DEF Moves
<1> QED
  BY <1>2, <1>3, <1>4, <1>5, PageQuiet

LEMMA AbandonedQuits ==
    ASSUME IInv, calls' = Abandoned
    PROVE  calls' \in [Calls -> CallStates] /\ \A c \in Calls : calls'[c] = calls[c] \/ Quits(c)
<1>1. calls \in [Calls -> CallStates]
  BY DEF IInv, TypeOK
<1>2. \A c \in Calls : calls'[c] = IF calls[c].status = "waiting" THEN [calls[c] EXCEPT !.status = "unknown"] ELSE calls[c]
  BY DEF Abandoned
<1>3. \A c \in Calls : calls'[c] = calls[c] \/ Quits(c)
  BY <1>2 DEF Quits
<1>4. \A c \in Calls : calls'[c] \in CallStates
  BY <1>1, <1>3, QuitFields
<1> QED
  BY <1>3, <1>4 DEF Abandoned

LEMMA CancelLoginKeeps ==
    ASSUME IInv, NEW c \in Calls, CancelLogin(c)
    PROVE  IInv'
<1>1. /\ UNCHANGED <<bridge, published, intents, uiNotices, acks, replies, epoch, login, answers, client, calls, settlements>>
      /\ requests' = Append(requests, Request("cancel", "cancel", calls[c].id))
  BY DEF CancelLogin, coordinatorVars, Enqueue
<1>2. calls \in [Calls -> CallStates] /\ IdsOK
  BY DEF IInv, TypeOK, LoginFacts
<1>3. calls[c].id \in Nat /\ (calls[c].id # 0 => Apart(bridge, calls[c].id))
  BY <1>2 DEF CallStates, IdsOK
<1>4. Aside(Request("cancel", "cancel", calls[c].id))
  BY <1>3, RequestAside DEF OtherCalls
<1> QED
  BY <1>1, <1>2, <1>4, ClientStays, GivesUp

LEMMA TryAgainKeeps ==
    ASSUME IInv, TryAgain
    PROVE  IInv'
<1>1. UNCHANGED <<bridge, published, intents, uiNotices, acks, replies, epoch, login, answers, calls, settlements>> /\ RequestResync(client)
  BY DEF TryAgain, coordinatorVars
<1>2. calls \in [Calls -> CallStates]
  BY DEF IInv, TypeOK
<1> QED
  BY <1>1, <1>2, RequestResyncKeeps, GivesUp

LEMMA CloseKeeps ==
    ASSUME IInv, Close
    PROVE  IInv'
<1>1. /\ UNCHANGED <<bridge, published, intents, uiNotices, acks, replies, epoch, login, answers>>
      /\ requests' = Append(requests, Request("shutdown", "close", 0)) /\ calls' = Abandoned /\ settlements' = <<>>
      /\ client' = [client EXCEPT !.life = "closed", !.resync = NoResync]
  BY DEF Close, coordinatorVars, Enqueue
<1>2. Aside(Request("shutdown", "close", 0))
  BY RequestAside DEF OtherCalls
<1>3. [NoResync EXCEPT !.on = FALSE] = NoResync
  BY ResyncFields, Zenon DEF NoResync
<1>4. Calms
  BY <1>1, <1>3, ClientFields
<1> QED
  BY <1>1, <1>2, <1>4, AbandonedQuits, GivesUp

LEMMA FailKeeps ==
    ASSUME IInv, Fail, UNCHANGED <<bridge, published, intents, uiNotices, requests, acks, epoch, login, answers>>, replies' \subseteq replies
    PROVE  IInv'
<1>1. client' = Failed(client) /\ calls' = Abandoned /\ settlements' = <<>>
  BY DEF Fail
<1> QED
  BY <1>1, FailedFields, AbandonedQuits, GivesUp

LEMMA CommandTimeoutKeeps ==
    ASSUME IInv, NEW c \in Calls, CommandTimeout(c)
    PROVE  IInv'
<1>1. /\ UNCHANGED <<bridge, published, intents, uiNotices, acks, replies, epoch, login, answers>>
      /\ RequestResync(client) /\ calls[c].status = "waiting"
      /\ calls' = IF ResyncFails THEN Abandoned ELSE [calls EXCEPT ![c].status = "unknown"]
      /\ settlements' = IF ResyncFails THEN <<>> ELSE settlements
  BY DEF CommandTimeout, coordinatorVars
<1>2. calls \in [Calls -> CallStates]
  BY DEF IInv, TypeOK
<1>3. calls' \in [Calls -> CallStates] /\ \A k \in Calls : calls'[k] = calls[k] \/ Quits(k)
  <2>1. CASE calls' = Abandoned
    BY <2>1, AbandonedQuits
  <2>2. CASE calls' = [calls EXCEPT ![c].status = "unknown"]
    <3>1. DOMAIN calls' = Calls /\ calls'[c] = [calls[c] EXCEPT !.status = "unknown"] /\ \A k \in Calls : k # c => calls'[k] = calls[k]
      BY <1>2, <2>2
    <3>2. \A k \in Calls : calls'[k] = calls[k] \/ Quits(k)
      BY <1>1, <3>1 DEF Quits
    <3>3. \A k \in Calls : calls'[k] \in CallStates
      BY <1>2, <3>2, QuitFields
    <3> QED
      BY <1>2, <2>2, <3>2, <3>3
  <2> QED
    BY <1>1, <2>1, <2>2
<1> QED
  BY <1>1, <1>3, RequestResyncKeeps, GivesUp

LEMMA TimeoutKeeps ==
    ASSUME IInv, TimeoutStep
    PROVE  IInv'
<1>1. CASE BaselineTimeout
  BY <1>1, FailKeeps DEF BaselineTimeout, coordinatorVars
<1>2. CASE \E c \in Calls : CommandTimeout(c)
  BY <1>2, CommandTimeoutKeeps
<1> QED
  BY <1>1, <1>2 DEF TimeoutStep

LEMMA RepliedFields ==
    ASSUME IInv, client.resync.on, client' = Resynchronized([client EXCEPT !.resync.replied = TRUE])
    PROVE  Calms
<1> DEFINE d == [client EXCEPT !.resync.replied = TRUE]
<1>1. IsClient /\ ResyncOK(client) /\ client.rev \in Nat /\ client.resync.on \in BOOLEAN
  BY DEF IInv, TypeOK, ClientFacts
<1>2. PICK y : y = TRUE
  OBVIOUS
<1>3. d = [client EXCEPT !.resync.replied = y] /\ IsClient
  BY <1>1, <1>2
<1> HIDE DEF d
<1>4. /\ d = [life |-> client.life, snap |-> client.snap, rev |-> client.rev, resync |-> d.resync]
      /\ d.resync = [on |-> client.resync.on, replied |-> y, frame |-> client.resync.frame]
      /\ d.life = client.life /\ d.snap = client.snap /\ d.rev = client.rev
      /\ d.resync.on = client.resync.on /\ d.resync.frame = client.resync.frame /\ d.resync.replied = y
  BY <1>3 DEF IsClient
<1>5. CASE d.resync.frame = NoFrame
  <2>1. client' = d
    BY <1>4, <1>5 DEF Resynchronized, d
  <2>2. IsClient' /\ client'.rev = client.rev /\ client'.snap = client.snap /\ client'.life = client.life
    BY <1>4, <2>1 DEF IsClient
  <2>3. client'.resync.on \in BOOLEAN /\ client'.resync.replied \in BOOLEAN
    <3>1. client'.resync.on = client.resync.on
      BY <1>4, <2>1
    <3>2. client'.resync.replied = TRUE
      BY <1>2, <1>4, <2>1, Zenon
    <3> QED
      BY <1>1, <3>1, <3>2
  <2>4. ResyncOK(client')
    BY <1>1, <1>4, <1>5, <2>1 DEF ResyncOK
  <2> QED
    BY <2>2, <2>3, <2>4 DEF Calms
<1>6. CASE d.resync.frame # NoFrame
  <2>1. /\ client.life = "ready" /\ client.resync.frame.rev <= client.rev /\ client.resync.frame.rev \in Nat
        /\ client.rev = client.resync.frame.rev => client.snap = client.resync.frame.snapshot
    BY <1>1, <1>4, <1>6 DEF ResyncOK
  <2>2. client' = [d EXCEPT !.resync = NoResync,
                   !.life = IF d.rev > d.resync.frame.rev THEN @ ELSE "ready",
                   !.snap = IF d.rev > d.resync.frame.rev THEN @ ELSE d.resync.frame.snapshot,
                   !.rev = IF d.rev > d.resync.frame.rev THEN @ ELSE d.resync.frame.rev]
    BY <1>2, <1>4, <1>6 DEF Resynchronized, d
  <2>3. client' = [life |-> client.life, snap |-> client.snap, rev |-> client.rev, resync |-> NoResync]
    <3>1. CASE d.rev > d.resync.frame.rev
      BY <1>4, <2>2, <3>1
    <3>2. CASE ~(d.rev > d.resync.frame.rev)
      <4>1. client.rev = client.resync.frame.rev
        BY <1>1, <1>4, <2>1, <3>2
      <4>2. client' = [d EXCEPT !.resync = NoResync, !.life = "ready", !.snap = d.resync.frame.snapshot, !.rev = d.resync.frame.rev]
        BY <2>2, <3>2
      <4> HIDE DEF NoResync
      <4>3. client' = [life |-> "ready", snap |-> d.resync.frame.snapshot, rev |-> d.resync.frame.rev, resync |-> NoResync]
        BY <1>4, <4>2
      <4> QED
        BY <1>4, <2>1, <4>1, <4>3
    <3> QED
      BY <3>1, <3>2
  <2>4. NoResync = [on |-> NoResync.on, replied |-> NoResync.replied, frame |-> NoResync.frame] /\ NoResync.on = FALSE /\ NoResync.replied = FALSE /\ NoResync.frame = NoFrame
    BY Zenon DEF NoResync
  <2>5. client'.resync = NoResync /\ client'.life = client.life /\ client'.snap = client.snap /\ client'.rev = client.rev
    BY <2>3
  <2>6. IsClient'
    BY <2>3, <2>4, <2>5 DEF IsClient
  <2>7. ResyncOK(client')
    BY <2>4, <2>5 DEF ResyncOK
  <2> QED
    BY <2>4, <2>5, <2>6, <2>7 DEF Calms
<1> QED
  BY <1>5, <1>6

LEMMA RemoveAtElements ==
    ASSUME NEW S, NEW s \in Seq(S), NEW i \in 1 .. Len(s)
    PROVE  RemoveAt(s, i) \in Seq(S) /\ \A k \in DOMAIN RemoveAt(s, i) : \E j \in DOMAIN s : RemoveAt(s, i)[k] = s[j]
<1> DEFINE a == SubSeq(s, 1, i - 1)
           z == SubSeq(s, i + 1, Len(s))
<1>1. a \in Seq(S) /\ Len(a) = i - 1 /\ \A k \in 1 .. Len(a) : a[k] = s[k]
  BY SubSeqProperties
<1>2. z \in Seq(S) /\ Len(z) = Len(s) - i /\ \A k \in 1 .. Len(z) : z[k] = s[i + k]
  BY SubSeqProperties
<1> HIDE DEF a, z
<1>3. a \o z \in Seq(S) /\ \A k \in DOMAIN (a \o z) : \E j \in DOMAIN s : (a \o z)[k] = s[j]
  <2>1. a \o z \in Seq(S) /\ Len(a \o z) = Len(a) + Len(z)
    BY <1>1, <1>2, ConcatProperties
  <2>2. ASSUME NEW k \in DOMAIN (a \o z) PROVE \E j \in DOMAIN s : (a \o z)[k] = s[j]
    <3>1. CASE k \in 1 .. Len(a)
      <4>1. (a \o z)[k] = s[k] /\ k \in DOMAIN s
        BY <1>1, <1>2, <3>1
      <4> QED
        BY <4>1
    <3>2. CASE k \notin 1 .. Len(a)
      <4>1. k \in Nat /\ k - Len(a) \in 1 .. Len(z) /\ (a \o z)[k] = z[k - Len(a)]
        BY <1>1, <1>2, <2>1, <3>2
      <4>2. i + (k - Len(a)) \in DOMAIN s
        BY <1>1, <1>2, <4>1
      <4> QED
        BY <1>2, <4>1, <4>2
    <3> QED
      BY <3>1, <3>2
  <2> QED
    BY <2>1, <2>2
<1> QED
  BY <1>3 DEF RemoveAt, a, z

LEMMA ReplyFacts ==
    ASSUME IInv, NEW reply \in replies, reply.call \in Calls, replies' = replies \ {reply},
           UNCHANGED <<requests, epoch>>
    PROVE  LET c == reply.call IN
           /\ c \in Calls /\ calls[c].status = "sent" /\ calls[c].id = 0 /\ calls[c].kind # "none"
           /\ \A r \in replies' : r.call # c
           /\ \A i \in DOMAIN requests' : requests'[i].page = epoch' => requests'[i].call # c
           /\ (reply.id \in Nat /\ reply.id < bridge.nextId) \/ reply.result # "ok"
           /\ reply.id # 0 => Apart(bridge, reply.id)
           /\ reply.result = "ok" => reply.id # 0 /\ reply.id \in Nat /\ reply.id < bridge.nextId
           /\ reply.result = "ok" /\ calls[c].kind # "login" => reply.id \in CommandIds
           /\ bridge.nextId \in Nat \ {0}
<1>1. CallsOK /\ IdsOK /\ bridge.nextId \in Nat \ {0} /\ reply \in Replies
  BY DEF IInv, CallFacts, LoginFacts, BridgeFacts, BridgeTypeOK, TypeOK
<1>2. /\ calls[reply.call].status = "sent" /\ calls[reply.call].id = 0 /\ calls[reply.call].kind # "none"
      /\ reply.result = "ok" => reply.id \in 1 .. bridge.nextId - 1
      /\ \A s \in replies : s.call = reply.call => s = reply
  BY <1>1 DEF CallsOK
<1>3. \A r \in replies' : r.call # reply.call
  BY <1>2
<1>4. \A i \in DOMAIN requests' : requests'[i].page = epoch' => requests'[i].call # reply.call
  BY <1>1 DEF CallsOK, FromCall
<1>5. reply.result = "ok" => reply.id # 0 /\ reply.id \in Nat /\ reply.id < bridge.nextId
  BY <1>1, <1>2
<1>6. reply.result = "ok" /\ calls[reply.call].kind # "login" => reply.id \in CommandIds
  BY DEF CommandIds
<1>7. reply.id # 0 => Apart(bridge, reply.id)
  BY <1>1 DEF IdsOK
<1>8. reply.id \in Nat
  BY <1>1 DEF Replies
<1> HIDE DEF CommandIds
<1> QED
  BY <1>1, <1>2, <1>3, <1>4, <1>5, <1>6, <1>7, <1>8

LEMMA ReceiveReceiptKeeps ==
    ASSUME IInv, NEW reply \in replies, reply.call \in Calls, replies' = replies \ {reply}, ReceiveReceipt(reply.call, reply),
           UNCHANGED <<bridge, published, intents, uiNotices, requests, acks, epoch, login, answers>>
    PROVE  IInv'
<1> DEFINE c == reply.call
           status == ReceiptStatus(c, reply.id)
           at == SettlementOf(settlements, reply.id)
<1>1. /\ reply.result = "ok" /\ client' = client
      /\ calls' = [calls EXCEPT ![c].status = status, ![c].id = reply.id]
      /\ settlements' = IF status \in {"committed", "rejected"} THEN RemoveAt(settlements, at) ELSE settlements
  BY DEF ReceiveReceipt
<1>2. calls \in [Calls -> CallStates] /\ settlements \in Seq(Settlements) /\ IdsOK /\ ReportsOK
  BY DEF IInv, TypeOK, LoginFacts, CallFacts
<1>3. /\ c \in Calls /\ calls[c].status = "sent" /\ calls[c].id = 0 /\ calls[c].kind # "none"
      /\ \A r \in replies' : r.call # c
      /\ \A i \in DOMAIN requests' : requests'[i].page = epoch' => requests'[i].call # c
      /\ reply.id # 0 /\ reply.id \in Nat /\ reply.id < bridge.nextId /\ Apart(bridge, reply.id)
      /\ calls[c].kind # "login" => reply.id \in CommandIds
  BY <1>1, ReplyFacts
<1>4. Settled(settlements, reply.id) # {} => at \in DOMAIN settlements /\ settlements[at].id = reply.id
  BY DEF SettlementOf, Settled
<1>5. \/ status \in {"unknown", "started"}
      \/ status = "waiting" /\ calls[c].kind # "login"
      \/ /\ at \in DOMAIN settlements /\ settlements[at].id = reply.id /\ status = settlements[at].outcome
         /\ calls[c].kind # "login"
  BY <1>4 DEF ReceiptStatus
<1>6. \A i \in DOMAIN settlements : settlements[i] \in Settlements
  BY <1>2
<1>7. \A i \in DOMAIN settlements : settlements[i].outcome \in Outcomes
  BY <1>6 DEF Settlements
<1> HIDE DEF c, status, at, CommandIds
<1>8. /\ calls'[c] = [kind |-> calls[c].kind, status |-> status, id |-> reply.id]
      /\ \A k \in Calls : k # c => calls'[k] = calls[k]
  BY <1>1, <1>2, <1>3 DEF CallStates
<1>9. status \in {"unknown", "started", "waiting", "committed", "rejected"}
  BY <1>5, <1>7 DEF Outcomes
<1>10. calls' \in [Calls -> CallStates]
  <2>1. calls'[c] \in CallStates
    BY <1>2, <1>3, <1>8, <1>9 DEF CallStates
  <2> QED
    BY <1>1, <1>2, <1>8, <2>1
<1>11. \A k \in Calls : calls'[k] = calls[k] \/ Moves(k)
  <2>1. calls'[c].id = reply.id /\ calls'[c].kind = calls[c].kind /\ calls'[c].status = status
    BY <1>8
  <2>2. status = "waiting" => calls[c].kind # "login"
    BY <1>5, <1>7 DEF Outcomes
  <2>3. Moves(c)
    BY <1>3, <2>1, <2>2 DEF Moves
  <2> QED
    BY <1>8, <2>3
<1>12. \A k \in Calls : calls'[k].id # 0 => Apart(bridge, calls'[k].id)
  BY <1>2, <1>3, <1>8 DEF IdsOK
<1>13. \A k \in Calls : calls'[k].status \in Outcomes /\ calls'[k].id # 0 =>
              calls'[k] = calls[k] \/ Reported(calls'[k].id, calls'[k].status)
  <2>1. status \in Outcomes => Reported(reply.id, status)
    <3>1. status \in Outcomes => /\ at \in DOMAIN settlements /\ settlements[at].id = reply.id /\ status = settlements[at].outcome
                                 /\ calls[c].kind # "login"
      BY <1>5 DEF Outcomes
    <3> QED
      BY <1>2, <1>3, <3>1 DEF ReportsOK
  <2> QED
    BY <1>8, <2>1
<1>14. settlements' \in Seq(Settlements) /\ \A i \in DOMAIN settlements' : \E j \in DOMAIN settlements : settlements'[i] = settlements[j]
  <2>1. CASE status \in {"committed", "rejected"}
    <3>1. at \in 1 .. Len(settlements)
      BY <1>2, <1>5, <2>1
    <3>2. settlements' = RemoveAt(settlements, at)
      BY <1>1, <2>1
    <3> QED
      BY <1>2, <3>1, <3>2, RemoveAtElements
  <2>2. CASE status \notin {"committed", "rejected"}
    BY <1>1, <1>2, <2>2
  <2> QED
    BY <2>1, <2>2
<1>15. Calms
  BY <1>1, ClientStays
<1> HIDE DEF Moves
<1> QED
  BY <1>10, <1>11, <1>12, <1>13, <1>14, <1>15, PageQuiet

\* A call whose reply brought no identifier.
LEMMA CallEnds ==
    ASSUME IInv, NEW reply \in replies, reply.call \in Calls, replies' = replies \ {reply}, Calms,
           UNCHANGED <<bridge, published, intents, uiNotices, requests, acks, epoch, login, answers>>,
           NEW status \in {"unknown", "rejected"},
           DOMAIN calls' = Calls, calls' = [k \in Calls |-> calls'[k]],
           calls'[reply.call] = [calls[reply.call] EXCEPT !.status = status],
           \A k \in Calls : k # reply.call => calls'[k] = calls[k] \/ Quits(k),
           settlements' = <<>> \/ settlements' = settlements
    PROVE  IInv'
<1> DEFINE c == reply.call
<1>1. calls \in [Calls -> CallStates] /\ settlements \in Seq(Settlements) /\ IdsOK
  BY DEF IInv, TypeOK, LoginFacts
<1>2. /\ c \in Calls /\ calls[c].status = "sent" /\ calls[c].id = 0
      /\ \A r \in replies' : r.call # c
      /\ \A i \in DOMAIN requests' : requests'[i].page = epoch' => requests'[i].call # c
      /\ bridge.nextId \in Nat \ {0}
  BY ReplyFacts
<1>3. calls'[c].id = 0 /\ calls'[c].status = status /\ calls'[c] \in CallStates
  BY <1>1, <1>2 DEF CallStates
<1> HIDE DEF c
<1>4. \A k \in Calls : Quits(k) => calls'[k].id = calls[k].id /\ calls'[k].status = "unknown" /\ calls[k].status = "waiting" /\ calls'[k] \in CallStates
  BY QuitFields DEF Quits
<1>5. Moves(c)
  BY <1>2, <1>3 DEF Moves
<1>6. \A k \in Calls : calls'[k] = calls[k] \/ Moves(k)
  BY <1>4, <1>5, WaitingMoves DEF c
<1>7. calls' \in [Calls -> CallStates]
  <2>1. \A k \in Calls : calls'[k] \in CallStates
    BY <1>1, <1>3, <1>4 DEF c
  <2> QED
    BY <2>1
<1>8. \A k \in Calls : calls'[k].id # 0 => Apart(bridge, calls'[k].id)
  <2>1. \A k \in Calls : calls[k].id # 0 => Apart(bridge, calls[k].id)
    BY <1>1 DEF IdsOK
  <2>2. \A k \in Calls : k = c \/ calls'[k].id = calls[k].id
    BY <1>4 DEF c
  <2> QED
    BY <1>3, <2>1, <2>2
<1>9. \A k \in Calls : calls'[k].status \in Outcomes /\ calls'[k].id # 0 =>
              calls'[k] = calls[k] \/ Reported(calls'[k].id, calls'[k].status)
  BY <1>3, <1>4 DEF Outcomes, c
<1>10. settlements' \in Seq(Settlements) /\ \A i \in DOMAIN settlements' : \E j \in DOMAIN settlements : settlements'[i] = settlements[j]
  <2>1. CASE settlements' = <<>>
    BY <2>1
  <2>2. CASE settlements' = settlements
    BY <1>1, <2>2
  <2> QED
    BY <2>1, <2>2
<1> HIDE DEF Moves
<1> QED
  BY <1>6, <1>7, <1>8, <1>9, <1>10, PageQuiet

LEMMA ReceiveReplyKeeps ==
    ASSUME IInv, NEW reply \in replies, ReceiveReply(reply)
    PROVE  IInv'
<1>0. /\ replies' = replies \ {reply}
      /\ UNCHANGED <<bridge, published, intents, uiNotices, requests, acks, epoch, login, answers>>
  BY DEF ReceiveReply, coordinatorVars
<1>1. calls \in [Calls -> CallStates]
  BY DEF IInv, TypeOK
<1>2. ASSUME UNCHANGED <<client, calls, settlements>> PROVE IInv'
  BY <1>0, <1>1, <1>2, ClientStays, GivesUp
<1>3. CASE client.life = "closed"
  <2>1. UNCHANGED <<client, calls, settlements>>
    BY <1>3 DEF ReceiveReply, clientVars
  <2> QED
    BY <1>2, <2>1
<1>4. CASE reply.call \in Calls /\ ReceiveReceipt(reply.call, reply)
  BY <1>0, <1>4, ReceiveReceiptKeeps
<1>5. CASE reply.call \in Calls /\ ReceiveRefusal(reply.call, reply)
  <2>1. PICK status \in {"unknown", "rejected"} : calls' = [calls EXCEPT ![reply.call].status = status]
    BY <1>5 DEF ReceiveRefusal
  <2>2. UNCHANGED <<client, settlements>>
    BY <1>5 DEF ReceiveRefusal
  <2>3. /\ DOMAIN calls' = Calls /\ calls' = [k \in Calls |-> calls'[k]]
        /\ calls'[reply.call] = [calls[reply.call] EXCEPT !.status = status]
        /\ \A k \in Calls : k # reply.call => calls'[k] = calls[k]
    BY <1>1, <1>5, <2>1
  <2> QED
    BY <1>0, <1>5, <2>2, <2>3, ClientStays, CallEnds
<1>6. CASE reply.call \in Calls /\ ReceiveFatal(reply.call, reply)
  <2>1. client' = Failed(client) /\ calls' = [Abandoned EXCEPT ![reply.call].status = "unknown"] /\ settlements' = <<>>
    BY <1>6 DEF ReceiveFatal
  <2>2. calls[reply.call].status = "sent"
    BY <1>0, <1>6, ReplyFacts
  <2>3. /\ DOMAIN calls' = Calls /\ calls' = [k \in Calls |-> calls'[k]]
        /\ calls'[reply.call] = [calls[reply.call] EXCEPT !.status = "unknown"]
    BY <1>1, <1>6, <2>1, <2>2 DEF Abandoned
  <2>4. \A k \in Calls : k # reply.call => calls'[k] = calls[k] \/ Quits(k)
    BY <1>1, <2>1 DEF Abandoned, Quits
  <2> QED
    BY <1>0, <1>6, <2>1, <2>3, <2>4, FailedFields, CallEnds
<1>7. CASE client.resync.on /\ client' = Resynchronized([client EXCEPT !.resync.replied = TRUE]) /\ UNCHANGED <<calls, settlements>>
  BY <1>0, <1>1, <1>7, RepliedFields, GivesUp
<1>8. CASE Fail
  BY <1>0, <1>8, FailKeeps
<1> QED
  BY <1>2, <1>3, <1>4, <1>5, <1>6, <1>7, <1>8 DEF ReceiveReply

LEMMA CallFields ==
    ASSUME NEW r, NEW a, NEW b, NEW d, r = [kind |-> a, status |-> b, id |-> d], NEW kind, NEW status,
           NEW q, q = [r EXCEPT !.kind = kind, !.status = status]
    PROVE  q = [kind |-> kind, status |-> status, id |-> d]
OBVIOUS

LEMMA DispatchCallKeeps ==
    ASSUME IInv, NEW c \in Calls, NEW kind \in Kinds[c], DispatchCall(c, kind)
    PROVE  IInv'
<1> DEFINE x == Request(kind, c, client.snap.active)
<1>1. /\ client.life = "ready" /\ calls[c].status = "idle"
      /\ UNCHANGED <<client, settlements, bridge, published, intents, uiNotices, acks, replies, epoch, login, answers>>
  BY DEF DispatchCall, coordinatorVars
<1>2. kind \in {"command", "prompt", "credential", "login"}
  BY KindsAssumption
<1>3. /\ calls \in [Calls -> CallStates] /\ settlements \in Seq(Settlements) /\ requests \in Seq(Requests) /\ TypeOK
      /\ CallsOK /\ ReportsOK /\ IdsOK /\ ConnectOK /\ bridge.nextId \in Nat \ {0} /\ epoch \in Nat \ {0} /\ BridgeTypeOK(bridge)
  BY EnvironmentHolds DEF IInv, TypeOK, CallFacts, LoginFacts, ClientFacts, BridgeTypeOK
<1>4. client.snap.active \in Nat
  BY <1>1 DEF IInv, ClientFacts, Mirror, Snapshots
<1>5. ASSUME NEW status \in {"sent", "rejected"}, calls' = [calls EXCEPT ![c] = [NewCall EXCEPT !.kind = kind, !.status = status]]
      PROVE  /\ calls'[c].kind = kind /\ calls'[c].status = status /\ calls'[c].id = 0
             /\ \A k \in Calls : k # c => calls'[k] = calls[k]
             /\ calls' \in [Calls -> CallStates]
  <2>1. [NewCall EXCEPT !.kind = kind, !.status = status] = [kind |-> kind, status |-> status, id |-> 0]
    <3>1. NewCall = [kind |-> "none", status |-> "idle", id |-> 0]
      BY DEF NewCall
    <3> HIDE DEF NewCall
    <3>2. PICK q : q = [NewCall EXCEPT !.kind = kind, !.status = status]
      OBVIOUS
    <3>3. q = [kind |-> kind, status |-> status, id |-> 0]
      BY <3>1, <3>2, CallFields
    <3> QED
      BY <3>2, <3>3, Zenon
  <2>2. [kind |-> kind, status |-> status, id |-> 0] \in CallStates
    BY <1>2 DEF CallStates, CommandKinds
  <2> QED
    BY <1>3, <1>5, <2>1, <2>2
<1>6. CASE calls' = [calls EXCEPT ![c] = [NewCall EXCEPT !.kind = kind, !.status = "rejected"]] /\ UNCHANGED requests
  <2>1. /\ calls'[c].kind = kind /\ calls'[c].status = "rejected" /\ calls'[c].id = 0
        /\ \A k \in Calls : k # c => calls'[k] = calls[k]
        /\ calls' \in [Calls -> CallStates]
    BY <1>5, <1>6
  <2>2. Moves(c)
    <3>1. \A r \in replies' : r.call # c
      BY <1>1, <1>3 DEF CallsOK
    <3>2. \A i \in DOMAIN requests' : requests'[i].page = epoch' => requests'[i].call # c
      BY <1>1, <1>3, <1>6 DEF CallsOK, FromCall
    <3> QED
      BY <1>3, <2>1, <3>1, <3>2 DEF Moves
  <2>3. \A k \in Calls : calls'[k] = calls[k] \/ Moves(k)
    BY <2>1, <2>2
  <2>4. \A k \in Calls : calls'[k].id # 0 => Apart(bridge, calls'[k].id)
    BY <1>3, <2>1 DEF IdsOK
  <2>5. \A k \in Calls : calls'[k].status \in Outcomes /\ calls'[k].id # 0 =>
              calls'[k] = calls[k] \/ Reported(calls'[k].id, calls'[k].status)
    BY <2>1
  <2> HIDE DEF Moves
  <2> QED
    BY <1>1, <1>3, <1>6, <2>1, <2>3, <2>4, <2>5, ClientStays, PageQuiet
<1>7. CASE /\ calls' = [calls EXCEPT ![c] = [NewCall EXCEPT !.kind = kind, !.status = "sent"]]
           /\ requests' = Append(requests, x)
  <2> DEFINE m == Len(requests) + 1
  <2>1. /\ calls'[c].kind = kind /\ calls'[c].status = "sent" /\ calls'[c].id = 0
        /\ \A k \in Calls : k # c => calls'[k] = calls[k]
        /\ calls' \in [Calls -> CallStates]
    BY <1>5, <1>7
  <2>2. x.kind = kind /\ x.call = c /\ x.page = epoch /\ x \in Requests
    BY <1>2, <1>3, <1>4 DEF Request, Requests, CommandKinds
  <2> HIDE DEF x
  <2>3. /\ requests' \in Seq(Requests) /\ m \in DOMAIN requests' /\ requests'[m] = x /\ m \notin DOMAIN requests
        /\ \A i \in DOMAIN requests' : (i \in DOMAIN requests /\ requests'[i] = requests[i]) \/ i = m
        /\ \A i \in DOMAIN requests : i \in DOMAIN requests' /\ requests'[i] = requests[i]
    BY <1>3, <1>7, <2>2
  <2> HIDE DEF m
  <2>4. \A i \in DOMAIN requests : FromCall(requests[i]) => requests[i].call # c
    BY <1>1, <1>3 DEF CallsOK
  <2>5. \A r \in replies : r.call # c
    BY <1>1, <1>3 DEF CallsOK
  <2>6. CommandIds' \subseteq CommandIds
    <3>1. \A r \in replies : r.call \in Calls => calls'[r.call] = calls[r.call]
      BY <2>1, <2>5
    <3>2. \A k \in Calls : calls'[k].status = "waiting" => calls'[k] = calls[k]
      BY <2>1
    <3> QED
      BY <1>1, <3>1, <3>2 DEF CommandIds
  <2>7. CallsOK'
    <3>1. ASSUME NEW i \in DOMAIN requests', requests'[i].call \in Calls, requests'[i].page = epoch
          PROVE  /\ calls'[requests'[i].call].status = "sent" /\ calls'[requests'[i].call].id = 0
                 /\ calls'[requests'[i].call].kind = requests'[i].kind
                 /\ \A j \in DOMAIN requests' : requests'[j].call \in Calls /\ requests'[j].page = epoch /\ requests'[j].call = requests'[i].call => i = j
                 /\ \A r \in replies : r.call # requests'[i].call
      <4>1. CASE i = m
        <5>1. requests'[i] = x
          BY <2>3, <4>1
        <5>2. \A j \in DOMAIN requests' : requests'[j].call \in Calls /\ requests'[j].page = epoch /\ requests'[j].call = c => i = j
          BY <2>3, <2>4, <4>1 DEF FromCall
        <5> QED
          BY <2>1, <2>2, <2>5, <5>1, <5>2
      <4>2. CASE i \in DOMAIN requests
        <5>1. requests'[i] = requests[i] /\ FromCall(requests[i])
          BY <2>3, <3>1, <4>2 DEF FromCall
        <5>2. calls'[requests[i].call] = calls[requests[i].call]
          BY <2>1, <2>4, <4>2, <5>1 DEF FromCall
        <5>3. /\ calls[requests[i].call].status = "sent" /\ calls[requests[i].call].id = 0
              /\ calls[requests[i].call].kind = requests[i].kind
              /\ \A j \in DOMAIN requests : FromCall(requests[j]) /\ requests[j].call = requests[i].call => i = j
              /\ \A r \in replies : r.call # requests[i].call
          BY <1>3, <4>2, <5>1 DEF CallsOK
        <5>4. \A j \in DOMAIN requests' : requests'[j].call \in Calls /\ requests'[j].page = epoch /\ requests'[j].call = requests'[i].call => i = j
          BY <2>2, <2>3, <2>4, <4>2, <5>1, <5>3 DEF FromCall
        <5> QED
          BY <5>1, <5>2, <5>3, <5>4
      <4> QED
        BY <2>3, <4>1, <4>2
    <3>2. \A i \in DOMAIN requests' : requests'[i].call \in Calls <=> requests'[i].kind \in CommandKinds \cup {"login"}
      <4>1. x.call \in Calls /\ x.kind \in CommandKinds \cup {"login"}
        BY <1>2, <2>2 DEF CommandKinds
      <4> QED
        BY <1>3, <2>3, <4>1 DEF CallsOK
    <3>3. \A r \in replies : r.call \in Calls =>
          /\ calls'[r.call].status = "sent" /\ calls'[r.call].id = 0 /\ calls'[r.call].kind # "none"
          /\ r.result = "ok" => r.id \in 1 .. bridge.nextId - 1
          /\ \A s \in replies : s.call = r.call => s = r
      BY <1>3, <2>1, <2>5 DEF CallsOK
    <3>4. \A k \in Calls :
          /\ calls'[k].id < bridge.nextId
          /\ calls'[k].status = "waiting" => calls'[k].kind # "login" /\ calls'[k].id # 0
      BY <1>3, <2>1 DEF CallsOK
    <3> QED
      BY <1>1, <3>1, <3>2, <3>3, <3>4 DEF CallsOK, FromCall
  <2> HIDE DEF CommandIds
  <2>8. ReportsOK'
    <3>1. \A k \in Calls : calls'[k].status \in Outcomes /\ calls'[k].id # 0 =>
              calls'[k] = calls[k] \/ Told(calls'[k].id, calls'[k].status)
      BY <2>1 DEF Outcomes
    <3>2. /\ \A i \in DOMAIN settlements' : settlements'[i].id \in CommandIds => Told(settlements'[i].id, settlements'[i].outcome)
          /\ \A i \in DOMAIN settlements' : settlements'[i].id < bridge.nextId
      BY <1>1, <1>3 DEF ReportsOK, Told
    <3> QED
      BY <1>1, <2>6, <3>1, <3>2, ReportsMove
  <2>9. TypeOK'
    BY <1>1, <1>3, <2>1, <2>3 DEF TypeOK, IsClient
  <2>10. ClientFacts'
    <3>1. ConnectOK'
      <4>1. x.kind # "connect"
        BY <1>2, <2>2
      <4>2. \A i \in DOMAIN requests' : requests'[i].page <= epoch
        BY <1>3, <2>2, <2>3 DEF ConnectOK
      <4>3. \A i \in DOMAIN requests' : requests'[i].kind = "connect" => i \in DOMAIN requests /\ requests'[i] = requests[i]
        BY <2>3, <4>1
      <4> QED
        BY <1>1, <1>3, <4>2, <4>3 DEF ConnectOK
    <3> QED
      BY <1>1, <3>1 DEF IInv, ClientFacts, ExitOK
  <2>11. \A i \in DOMAIN requests' : requests'[i].kind = "cancel" /\ requests'[i].target # 0 => Apart(bridge, requests'[i].target)
    BY <1>2, <1>3, <2>2, <2>3 DEF IdsOK
  <2>12. \A k \in Calls : calls'[k].id # 0 => Apart(bridge, calls'[k].id)
    BY <1>3, <2>1 DEF IdsOK
  <2>13. \A r \in replies' : r.call \in Calls /\ r.id # 0 => Apart(bridge, r.id)
    BY <1>1, <1>3 DEF IdsOK
  <2>14. Unwired(bridge, bridge') /\ bridge'.wire = bridge.wire /\ epoch' = epoch /\ epoch <= epoch'
    BY <1>1, <1>3 DEF Unwired, SameQueue, SameView, BridgeTypeOK
  <2>15. CallFacts'
    BY <2>7, <2>8 DEF CallFacts
  <2> QED
    BY <1>1, <2>6, <2>9, <2>10, <2>11, <2>12, <2>13, <2>14, <2>15, PageFollows
<1> QED
  BY <1>6, <1>7 DEF DispatchCall, Enqueue

LEMMA NewClientFields ==
    /\ NewClient.life = "booting" /\ NewClient.rev = 0 /\ NewClient.resync = NoResync
    /\ NewClient = [life |-> NewClient.life, snap |-> NewClient.snap, rev |-> NewClient.rev, resync |-> NewClient.resync]
    /\ NoResync = [on |-> NoResync.on, replied |-> NoResync.replied, frame |-> NoResync.frame]
    /\ NoResync.on = FALSE /\ NoResync.replied = FALSE /\ NoResync.frame = NoFrame
<1>1. /\ NewClient.life = "booting" /\ NewClient.rev = 0 /\ NewClient.resync = NoResync
      /\ NewClient = [life |-> NewClient.life, snap |-> NewClient.snap, rev |-> NewClient.rev, resync |-> NewClient.resync]
  BY DEF NewClient
<1>2. /\ NoResync = [on |-> NoResync.on, replied |-> NoResync.replied, frame |-> NoResync.frame]
      /\ NoResync.on = FALSE /\ NoResync.replied = FALSE /\ NoResync.frame = NoFrame
  BY Zenon DEF NoResync
<1> QED
  BY <1>1, <1>2

LEMMA NewClientFacts ==
    ASSUME client' = NewClient, NEW b, BridgeTypeOK(b)
    PROVE  /\ IsClient' /\ client'.rev = 0 /\ client'.life = "booting"
           /\ client'.resync.on = FALSE /\ client'.resync.replied = FALSE
           /\ ResyncOK(client') /\ \A page : Mirror(b, page, client')
<1>1. /\ client'.rev = 0 /\ client'.life = "booting" /\ client'.resync = NoResync
      /\ client'.resync.on = FALSE /\ client'.resync.replied = FALSE /\ client'.resync.frame = NoFrame
  BY NewClientFields
<1>2. IsClient'
  BY NewClientFields DEF IsClient
<1>3. ResyncOK(client')
  BY <1>1 DEF ResyncOK
<1>4. \A page : Mirror(b, page, client')
  <2>1. b.nextRev \in Nat \ {0}
    BY DEF BridgeTypeOK
  <2> QED
    BY <1>1, <2>1 DEF Mirror
<1> QED
  BY <1>1, <1>2, <1>3, <1>4

LEMMA ReloadKeeps ==
    ASSUME IInv, Reload
    PROVE  IInv'
<1> DEFINE x == [Request("connect", "connect", 0) EXCEPT !.page = epoch + 1]
           m == Len(requests) + 1
<1>1. /\ epoch' = epoch + 1 /\ requests' = Append(requests, x) /\ replies' = {} /\ client' = NewClient /\ settlements' = <<>>
      /\ bridge' = [bridge EXCEPT !.wire = <<>>]
      /\ calls' = [c \in Calls |-> IF calls[c].status \in {"sent", "waiting", "started"}
                                  THEN [calls[c] EXCEPT !.status = "lost"] ELSE calls[c]]
      /\ UNCHANGED <<published, intents, uiNotices, acks, login, answers>>
  BY DEF Reload, coordinatorVars
<1>2. /\ calls \in [Calls -> CallStates] /\ requests \in Seq(Requests) /\ TypeOK
      /\ CallsOK /\ ReportsOK /\ IdsOK /\ ConnectOK /\ ExitOK /\ AcksOK(bridge, epoch, acks)
      /\ bridge.nextId \in Nat \ {0} /\ epoch \in Nat \ {0} /\ BridgeTypeOK(bridge)
      /\ bridge.channel \in Nat /\ bridge.channel <= epoch
  BY EnvironmentHolds DEF IInv, TypeOK, CallFacts, LoginFacts, ClientFacts, BridgeTypeOK, BridgeFacts, StreamOK
<1>3. Unwired(bridge, bridge') /\ bridge'.wire = <<>>
  BY <1>1, <1>2, WireFields
<1>4. x.kind = "connect" /\ x.call = "connect" /\ x.page = epoch + 1 /\ x.target = 0 /\ x \in Requests /\ x.call \notin Calls
  BY <1>2, CallsAssumption DEF Request, Requests, OtherCalls
<1> HIDE DEF x
<1>5. /\ requests' \in Seq(Requests) /\ m \in DOMAIN requests' /\ requests'[m] = x
      /\ \A i \in DOMAIN requests' : (i \in DOMAIN requests /\ requests'[i] = requests[i]) \/ i = m
  BY <1>1, <1>2, <1>4
<1> HIDE DEF m
<1>6. \A i \in DOMAIN requests : requests[i].page \in Nat /\ requests[i].page <= epoch
  <2>1. \A i \in DOMAIN requests : requests[i] \in Requests
    BY <1>2
  <2> QED
    BY <1>2, <2>1 DEF ConnectOK, Requests
<1>7. \A i \in DOMAIN requests' : requests'[i].page <= epoch' /\ (requests'[i].page = epoch' => i = m)
  BY <1>1, <1>2, <1>4, <1>5, <1>6
<1>8. \A c \in Calls : \/ calls'[c] = calls[c]
                       \/ calls'[c] = [calls[c] EXCEPT !.status = "lost"]
  BY <1>1
<1>9. \A c \in Calls : calls'[c].id = calls[c].id /\ calls'[c] \in CallStates /\ (calls'[c] = calls[c] \/ calls'[c].status = "lost")
  <2> SUFFICES ASSUME NEW c \in Calls
               PROVE  calls'[c].id = calls[c].id /\ calls'[c] \in CallStates /\ (calls'[c] = calls[c] \/ calls'[c].status = "lost")
    OBVIOUS
  <2>1. calls[c] \in CallStates
    BY <1>2
  <2>2. CASE calls'[c] = [calls[c] EXCEPT !.status = "lost"]
    BY <2>1, <2>2 DEF CallStates
  <2> QED
    BY <1>8, <2>1, <2>2
<1>10. \A c \in Calls : calls'[c] = calls[c] \/ Moves(c)
  <2>1. \A c \in Calls : calls'[c].id < bridge.nextId
    BY <1>2, <1>9 DEF CallsOK
  <2> QED
    BY <1>1, <1>4, <1>5, <1>7, <1>9, <2>1 DEF Moves
<1>11. \A i \in DOMAIN requests' : requests'[i].call \in Calls <=> requests'[i].kind \in CommandKinds \cup {"login"}
  BY <1>2, <1>4, <1>5 DEF CallsOK, CommandKinds
<1>12. \A i \in DOMAIN requests' : requests'[i].call \in Calls /\ requests'[i].page = epoch' =>
              i \in DOMAIN requests /\ requests'[i] = requests[i] /\ requests[i].page = epoch
  BY <1>4, <1>5, <1>7
<1>13. CallsOK' /\ CommandIds' \subseteq CommandIds
  <2>1. bridge'.nextId = bridge.nextId /\ replies' \subseteq replies
    BY <1>1, <1>3 DEF Unwired
  <2> HIDE DEF CommandIds, Moves
  <2> QED
    BY <1>10, <1>11, <1>12, <2>1, CallsMove
<1>14. BridgeTypeOK(bridge')
  BY <1>2, <1>3 DEF Unwired, BridgeTypeOK, SameQueue, SameView
<1>15. /\ IsClient' /\ client'.rev = 0 /\ client'.life = "booting"
       /\ client'.resync.on = FALSE /\ client'.resync.replied = FALSE
       /\ ResyncOK(client') /\ Mirror(bridge', epoch', client')
  BY <1>1, <1>14, NewClientFacts
<1> HIDE DEF CommandIds
<1>16. ReportsOK'
  <2>1. bridge'.nextId = bridge.nextId /\ bridge'.last = bridge.last
    BY <1>3 DEF Unwired
  <2>2. \A c \in Calls : calls'[c].status \in Outcomes /\ calls'[c].id # 0 =>
              calls'[c] = calls[c] \/ Told(calls'[c].id, calls'[c].status)
    BY <1>9 DEF Outcomes
  <2>3. DOMAIN settlements' = {}
    BY <1>1
  <2> QED
    BY <1>1, <1>13, <1>15, <2>1, <2>2, <2>3, ReportsMove
<1>17. TypeOK'
  <2>1. calls' \in [Calls -> CallStates]
    BY <1>1, <1>9
  <2>2. settlements' \in Seq(Settlements) /\ replies' \subseteq Replies /\ epoch' \in Nat \ {0}
    BY <1>1, <1>2
  <2>3. client'.rev \in Nat /\ client'.life \in {"booting", "ready", "resyncing", "failed", "closed"}
    BY <1>15
  <2>4. client'.resync.on \in BOOLEAN /\ client'.resync.replied \in BOOLEAN
    BY <1>15
  <2>5. IsClient' /\ requests' \in Seq(Requests)
    BY <1>5, <1>15
  <2>6. /\ published' \in Ports /\ intents' \in Seq(Intents) /\ uiNotices' \in Seq(UiNotices)
        /\ login' \in [id : Nat, opened : BOOLEAN, ids : SUBSET Nat] /\ answers' \subseteq CoordinatorAnswers
    BY <1>1, <1>2 DEF TypeOK
  <2> QED
    BY <2>1, <2>2, <2>3, <2>4, <2>5, <2>6 DEF TypeOK
<1>18. ClientFacts'
  <2>1. ExitOK'
    BY <1>2, <1>3 DEF ExitOK, Unwired
  <2>2. bridge'.channel # epoch' /\ bridge'.inFlight = bridge.inFlight
    BY <1>1, <1>2, <1>3 DEF Unwired
  <2>3. AcksOK(bridge', epoch', acks')
    BY <1>1, <1>2, <1>3, <2>2 DEF AcksOK
  <2>4. ConnectOK'
    BY <1>7, <1>15, <2>2 DEF ConnectOK
  <2> QED
    BY <1>15, <2>1, <2>3, <2>4 DEF ClientFacts
<1>19. \A i \in DOMAIN requests' : requests'[i].kind = "cancel" /\ requests'[i].target # 0 => Apart(bridge, requests'[i].target)
  BY <1>2, <1>4, <1>5 DEF IdsOK
<1>20. \A k \in Calls : calls'[k].id # 0 => Apart(bridge, calls'[k].id)
  BY <1>2, <1>9 DEF IdsOK
<1>21. epoch <= epoch' /\ CallFacts'
  BY <1>1, <1>2, <1>13, <1>16 DEF CallFacts
<1> QED
  BY <1>1, <1>3, <1>13, <1>17, <1>18, <1>19, <1>20, <1>21, PageFollows

LEMMA UserKeeps ==
    ASSUME IInv, UserStep
    PROVE  IInv'
BY DispatchCallKeeps, CancelLoginKeeps, TryAgainKeeps, CloseKeeps, ReloadKeeps DEF UserStep

LEMMA OutcomeFacts ==
    ASSUME NEW n, Outcome(n) # "none"
    PROVE  Outcome(n) \in Outcomes
BY DEF Outcome, Outcomes

\* What the frame on the wire is.
LEMMA FrameFacts ==
    ASSUME IInv, bridge.wire # <<>>
    PROVE  LET f == bridge.inFlight IN
           /\ f # NoFrame /\ bridge.wire = <<f>> /\ Head(bridge.wire) = f /\ Tail(bridge.wire) = <<>>
           /\ bridge.channel = epoch /\ FrameOK(bridge) /\ f.rev = bridge.nextRev - 1
           /\ bridge.nextRev \in Nat /\ bridge.nextRev > 1 /\ f.rev \in Nat \ {0} /\ acks = <<>>
           /\ client.rev \in Nat /\ client.rev < f.rev
           /\ client.life = "ready" => client.rev # 0 /\ f.rev = client.rev + 1
           /\ client.rev # 0 /\ f.rev = client.rev + 1 =>
                 /\ client.snap \in Snapshots
                 /\ f.kind = "notice" => Agree(client.snap, bridge.last)
                 /\ f.kind = "delta" => Agree(client.snap, f.base)
<1>1. /\ StreamOK(bridge, epoch) /\ AcksOK(bridge, epoch, acks) /\ Mirror(bridge, epoch, client)
      /\ bridge.nextRev \in Nat \ {0} /\ client.rev \in Nat
  BY DEF IInv, BridgeFacts, BridgeTypeOK, ClientFacts, TypeOK
<1>2. bridge.inFlight # NoFrame /\ bridge.wire = <<bridge.inFlight>> /\ bridge.channel = epoch /\ FrameOK(bridge)
  BY <1>1 DEF StreamOK
<1>3. Head(bridge.wire) = bridge.inFlight /\ Tail(bridge.wire) = <<>>
  BY <1>2
<1>4. bridge.inFlight.rev = bridge.nextRev - 1 /\ bridge.inFlight.rev # 0
  BY <1>2 DEF FrameOK
<1>5. acks = <<>>
  BY <1>1 DEF AcksOK
<1>6. Delivered(bridge) = bridge.nextRev - 2
  BY DEF Delivered
<1>7. client.rev # 0 => client.rev <= bridge.nextRev - 2 /\ client.snap \in Snapshots
  BY <1>1, <1>2, <1>6 DEF Mirror
<1>8. client.life = "ready" => client.rev # 0 /\ client.rev = bridge.nextRev - 2
  BY <1>1, <1>2, <1>6 DEF Mirror
<1>9. client.rev # 0 /\ client.rev = bridge.nextRev - 2 =>
        /\ bridge.inFlight.kind = "notice" => Agree(client.snap, bridge.last)
        /\ bridge.inFlight.kind = "delta" => Agree(client.snap, bridge.inFlight.base)
  BY <1>1, <1>2, <1>6 DEF Mirror
<1>10. bridge.nextRev > 1 /\ bridge.inFlight.rev \in Nat \ {0}
  BY <1>1, <1>4
<1>11. client.rev < bridge.inFlight.rev
  BY <1>1, <1>4, <1>7, <1>10
<1>12. client.life = "ready" => client.rev # 0 /\ bridge.inFlight.rev = client.rev + 1
  BY <1>1, <1>4, <1>8
<1>13. bridge.inFlight.rev = client.rev + 1 => client.rev = bridge.nextRev - 2
  BY <1>1, <1>4
<1> QED
  BY <1>1, <1>2, <1>3, <1>4, <1>5, <1>7, <1>9, <1>10, <1>11, <1>12, <1>13

\* A call learns the outcome it waits for.
Learns(c) ==
    /\ calls[c].status = "waiting" /\ calls'[c].id = calls[c].id /\ calls'[c].status \in Outcomes
    /\ Told(calls'[c].id, calls'[c].status)

Remembers ==
    /\ settlements' \in Seq(Settlements)
    /\ \A i \in DOMAIN settlements' : settlements'[i].id \in CommandIds => Told(settlements'[i].id, settlements'[i].outcome)
    /\ \A i \in DOMAIN settlements' : settlements'[i].id < bridge.nextId

LEMMA RemembersSame ==
    ASSUME IInv, NEW kept, kept = settlements \/ (settlements # <<>> /\ kept = Tail(settlements))
    PROVE  /\ kept \in Seq(Settlements)
           /\ \A i \in DOMAIN kept : kept[i] \in Settlements
           /\ \A i \in DOMAIN kept : kept[i].id \in CommandIds => Told(kept[i].id, kept[i].outcome)
           /\ \A i \in DOMAIN kept : kept[i].id < bridge.nextId
<1>1. settlements \in Seq(Settlements) /\ ReportsOK
  BY DEF IInv, TypeOK, CallFacts
<1>2. kept \in Seq(Settlements) /\ \A i \in DOMAIN kept : \E j \in DOMAIN settlements : kept[i] = settlements[j]
  <2>1. CASE kept = settlements
    BY <1>1, <2>1
  <2>2. CASE settlements # <<>> /\ kept = Tail(settlements)
    <3>1. kept \in Seq(Settlements) /\ \A i \in DOMAIN kept : i + 1 \in DOMAIN settlements /\ kept[i] = settlements[i + 1]
      BY <1>1, <2>2
    <3> QED
      BY <3>1
  <2> QED
    BY <2>1, <2>2
<1> HIDE DEF CommandIds
<1>3. \A i \in DOMAIN kept : kept[i] \in Settlements
  BY <1>2
<1>4. \A i \in DOMAIN kept : kept[i].id \in CommandIds => Told(kept[i].id, kept[i].outcome)
  BY <1>1, <1>2 DEF ReportsOK, Told
<1>5. \A i \in DOMAIN kept : kept[i].id < bridge.nextId
  BY <1>1, <1>2 DEF ReportsOK
<1> QED
  BY <1>2, <1>3, <1>4, <1>5

LEMMA SettleKeeps ==
    ASSUME IInv, InFlightNotice(bridge), Settle(bridge.inFlight.notice),
           client'.life = "ready" => Agree(client'.snap, bridge.last)
    PROVE  /\ calls' \in [Calls -> CallStates] /\ \A c \in Calls : calls'[c] = calls[c] \/ Learns(c)
           /\ Remembers
<1> DEFINE n == bridge.inFlight.notice
           kept == IF Len(settlements) >= MaxSettlements THEN Tail(settlements) ELSE settlements
           new == [id |-> n.id, outcome |-> Outcome(n)]
<1>1. /\ calls \in [Calls -> CallStates] /\ settlements \in Seq(Settlements) /\ CallsOK
      /\ QueueOK(bridge) /\ CoverOK(bridge, published, answers, CommandIds) /\ StreamOK(bridge, epoch)
      /\ bridge.pending \subseteq 1 .. bridge.nextId - 1 /\ bridge.nextId \in Nat \ {0}
  BY DEF IInv, TypeOK, CallFacts, BridgeFacts, BridgeTypeOK
<1>2. n \in Entries
  BY <1>1 DEF InFlightNotice, StreamOK, FrameOK
<1>3. n.id \in Nat /\ n.id < bridge.nextId
  <2>1. EntryOK(bridge, n)
    BY <1>1 DEF QueueOK
  <2> QED
    BY <1>1, <2>1 DEF EntryOK
<1>4. n.id \in CommandIds => Told(n.id, Outcome(n))
  <2> HIDE DEF CommandIds
  <2> QED
    BY <1>1 DEF CoverOK, Told
<1>5. kept = settlements \/ (settlements # <<>> /\ kept = Tail(settlements))
  BY <1>1, SettlementsAssumption
<1>6. /\ kept \in Seq(Settlements)
      /\ \A i \in DOMAIN kept : kept[i] \in Settlements
      /\ \A i \in DOMAIN kept : kept[i].id \in CommandIds => Told(kept[i].id, kept[i].outcome)
      /\ \A i \in DOMAIN kept : kept[i].id < bridge.nextId
  BY <1>5, RemembersSame
<1>7. \/ UNCHANGED <<calls, settlements>>
      \/ /\ Outcome(n) # "none" /\ UNCHANGED settlements
         /\ calls' = [c \in Calls |-> IF c \in Waiting(n.id)
                            THEN [calls[c] EXCEPT !.status = Outcome(n)] ELSE calls[c]]
      \/ /\ Outcome(n) # "none" /\ UNCHANGED calls
         /\ settlements' = IF Settled(kept, n.id) # {}
                  THEN [kept EXCEPT ![SettlementOf(kept, n.id)].outcome = Outcome(n)]
                  ELSE Append(kept, new)
  BY DEF Settle
<1>8. \A c \in Calls : calls[c].status = "waiting" => calls[c].id \in CommandIds
  BY DEF CommandIds
<1>9. new.id = n.id /\ new.outcome = Outcome(n) /\ (Outcome(n) # "none" => new \in Settlements)
  BY <1>3, OutcomeFacts DEF Settlements
<1>10. settlements' = settlements => Remembers
  <2>1. settlements' = settlements \/ (settlements # <<>> /\ settlements' = Tail(settlements)) => Remembers
    BY RemembersSame DEF Remembers
  <2> QED
    BY <2>1
<1> HIDE DEF n, kept, new, CommandIds
<1>11. CASE UNCHANGED <<calls, settlements>>
  BY <1>1, <1>10, <1>11
<1>12. CASE /\ Outcome(n) # "none" /\ UNCHANGED settlements
            /\ calls' = [c \in Calls |-> IF c \in Waiting(n.id)
                            THEN [calls[c] EXCEPT !.status = Outcome(n)] ELSE calls[c]]
  <2>1. Outcome(n) \in Outcomes
    BY <1>12, OutcomeFacts
  <2>2. ASSUME NEW c \in Calls PROVE calls'[c] \in CallStates /\ (calls'[c] = calls[c] \/ Learns(c))
    <3>1. calls[c] \in CallStates
      BY <1>1
    <3>2. CASE c \notin Waiting(n.id)
      BY <1>12, <3>1, <3>2
    <3>3. CASE c \in Waiting(n.id)
      <4>1. calls[c].status = "waiting" /\ calls[c].id = n.id
        BY <3>3 DEF Waiting
      <4>2. calls'[c] = [calls[c] EXCEPT !.status = Outcome(n)]
        BY <1>12, <3>3
      <4>3. calls'[c].id = n.id /\ calls'[c].status = Outcome(n) /\ calls'[c] \in CallStates
        BY <2>1, <3>1, <4>1, <4>2 DEF CallStates, Outcomes
      <4>4. Told(n.id, Outcome(n))
        BY <1>4, <1>8, <4>1
      <4> QED
        BY <2>1, <4>1, <4>3, <4>4 DEF Learns
    <3> QED
      BY <3>2, <3>3
  <2>3. calls' \in [Calls -> CallStates]
    BY <1>12, <2>2
  <2> QED
    BY <1>10, <1>12, <2>2, <2>3
<1>13. CASE /\ Outcome(n) # "none" /\ UNCHANGED calls
            /\ settlements' = IF Settled(kept, n.id) # {}
                  THEN [kept EXCEPT ![SettlementOf(kept, n.id)].outcome = Outcome(n)]
                  ELSE Append(kept, new)
  <2>1. settlements' \in Seq(Settlements) /\ \A i \in DOMAIN settlements' : (i \in DOMAIN kept /\ settlements'[i] = kept[i]) \/ settlements'[i] = new
    <3>1. CASE Settled(kept, n.id) = {}
      BY <1>6, <1>9, <1>13, <3>1
    <3>2. CASE Settled(kept, n.id) # {}
      <4> DEFINE k == SettlementOf(kept, n.id)
      <4>1. k \in DOMAIN kept /\ kept[k].id = n.id
        BY <3>2 DEF SettlementOf, Settled
      <4> HIDE DEF k
      <4>2. settlements' = [kept EXCEPT ![k].outcome = Outcome(n)]
        BY <1>13, <3>2 DEF k
      <4>3. kept[k] \in Settlements
        BY <1>6, <4>1
      <4>4. [kept[k] EXCEPT !.outcome = Outcome(n)] = [id |-> n.id, outcome |-> Outcome(n)]
        BY <4>1, <4>3 DEF Settlements
      <4>5. settlements' = [kept EXCEPT ![k] = new]
        BY <4>2, <4>4 DEF new
      <4>6. new \in Settlements
        BY <1>9, <1>13
      <4> QED
        BY <1>6, <4>1, <4>5, <4>6
    <3> QED
      BY <3>1, <3>2
  <2>2. \A i \in DOMAIN settlements' : settlements'[i].id \in CommandIds => Told(settlements'[i].id, settlements'[i].outcome)
    BY <1>4, <1>6, <1>9, <2>1
  <2>3. \A i \in DOMAIN settlements' : settlements'[i].id < bridge.nextId
    BY <1>3, <1>6, <1>9, <2>1
  <2> QED
    BY <1>1, <1>13, <2>1, <2>2, <2>3 DEF Remembers
<1> QED
  BY <1>7, <1>11, <1>12, <1>13

\* What a delivered frame makes of the client: nothing new to show, or what
\* the host takes to be shown.
Advances ==
    /\ IsClient' /\ client'.resync.on \in BOOLEAN /\ client'.resync.replied \in BOOLEAN
    /\ client'.life \in {"booting", "ready", "resyncing", "failed", "closed"} /\ client'.rev \in Nat
    /\ ResyncOK(client')
    /\ \/ client'.rev = client.rev /\ client'.snap = client.snap /\ client'.life # "ready"
       \/ client'.rev = bridge.inFlight.rev /\ client'.snap \in Snapshots /\ Agree(client'.snap, bridge.last)

LEMMA FrameFollows ==
    ASSUME IInv, bridge.wire # <<>>, bridge' = [bridge EXCEPT !.wire = Tail(@)],
           acks' = Append(acks, [rev |-> bridge.inFlight.rev, page |-> epoch]),
           UNCHANGED <<published, intents, uiNotices, replies, epoch, login, answers>>,
           requests' = requests \/ \E x : Aside(x) /\ requests' = Append(requests, x),
           Advances, calls' \in [Calls -> CallStates], \A c \in Calls : calls'[c] = calls[c] \/ Learns(c),
           Remembers
    PROVE  IInv'
<1> DEFINE f == bridge.inFlight
<1>1. /\ TypeOK /\ BridgeTypeOK(bridge) /\ CallsOK /\ IdsOK /\ ConnectOK /\ ExitOK /\ Mirror(bridge, epoch, client)
      /\ epoch \in Nat \ {0}
  BY EnvironmentHolds DEF IInv, CallFacts, LoginFacts, ClientFacts, TypeOK
<1>2. /\ f # NoFrame /\ Tail(bridge.wire) = <<>> /\ bridge.channel = epoch /\ f.rev = bridge.nextRev - 1
      /\ bridge.nextRev \in Nat /\ f.rev \in Nat \ {0} /\ acks = <<>> /\ client.rev \in Nat /\ client.rev < f.rev
      /\ client.rev # 0 => client.snap \in Snapshots
  BY <1>1, FrameFacts DEF Mirror
<1>3. Unwired(bridge, bridge') /\ bridge'.wire = <<>>
  BY <1>1, <1>2, WireFields
<1>4. /\ bridge'.channel = epoch /\ bridge'.nextRev = bridge.nextRev /\ bridge'.inFlight = f /\ bridge'.last = bridge.last
      /\ bridge'.nextId = bridge.nextId
  BY <1>2, <1>3 DEF Unwired
<1> HIDE DEF f
<1>5. Mirror(bridge', epoch, client')
  <2>1. Delivered(bridge') = f.rev
    BY <1>2, <1>3, <1>4 DEF Delivered
  <2>2. CASE client'.rev = client.rev /\ client'.snap = client.snap /\ client'.life # "ready"
    BY <1>2, <1>4, <2>1, <2>2 DEF Mirror
  <2>3. CASE client'.rev = f.rev /\ client'.snap \in Snapshots /\ Agree(client'.snap, bridge.last)
    <3>1. client'.rev < bridge'.nextRev /\ client'.rev <= Delivered(bridge')
      BY <1>2, <1>4, <2>1, <2>3
    <3> QED
      BY <1>2, <1>3, <1>4, <2>1, <2>3, <3>1 DEF Mirror
  <2> QED
    BY <2>2, <2>3 DEF Advances, f
<1>6. /\ requests' \in Seq(Requests)
      /\ \A i \in DOMAIN requests' : (i \in DOMAIN requests /\ requests'[i] = requests[i]) \/ Aside(requests'[i])
  BY AppendedRequests
<1>7. ConnectOK'
  <2>1. \A i \in DOMAIN requests' : requests'[i].page <= epoch
    BY <1>1, <1>6 DEF ConnectOK, Aside
  <2>2. \A i \in DOMAIN requests : ~(requests[i].kind = "connect" /\ requests[i].page = epoch)
    BY <1>1, <1>2 DEF ConnectOK
  <2>3. \A i \in DOMAIN requests' : ~(requests'[i].kind = "connect" /\ requests'[i].page = epoch)
    BY <1>6, <2>2 DEF Aside
  <2> QED
    BY <2>1, <2>3 DEF ConnectOK
<1>8. AcksOK(bridge', epoch, acks')
  <2>1. acks' = <<[rev |-> f.rev, page |-> epoch]>>
    BY <1>2 DEF f
  <2>2. Len(acks') = 1 /\ acks' # <<>> /\ acks'[1].page = epoch
    <3>1. PICK a : a = [rev |-> f.rev, page |-> epoch]
      OBVIOUS
    <3>2. acks' = <<a>>
      BY <2>1, <3>1
    <3>3. a.page = epoch
      BY <3>1
    <3>4. Len(<<a>>) = 1 /\ <<a>> # <<>> /\ <<a>>[1] = a
      OBVIOUS
    <3> QED
      BY <3>2, <3>3, <3>4
  <2> QED
    BY <1>2, <1>3, <1>4, <2>1, <2>2 DEF AcksOK
<1>9. ClientFacts'
  <2>1. ExitOK'
    BY <1>1, <1>3 DEF ExitOK, Unwired
  <2>2. ResyncOK(client')
    BY DEF Advances
  <2> QED
    BY <1>5, <1>7, <1>8, <2>1, <2>2 DEF ClientFacts
<1>10. \A c \in Calls : Learns(c) => calls[c].status = "waiting" /\ calls'[c].id = calls[c].id /\ calls'[c].status # "waiting"
  BY DEF Learns, Outcomes
<1>11. \A c \in Calls : calls'[c] = calls[c] \/ Moves(c)
  BY <1>10, WaitingMoves
<1>12. \A i \in DOMAIN requests' : requests'[i].call \in Calls <=> requests'[i].kind \in CommandKinds \cup {"login"}
  BY <1>1, <1>6 DEF CallsOK, Aside, CommandKinds
<1>13. \A i \in DOMAIN requests' : requests'[i].call \in Calls /\ requests'[i].page = epoch' =>
              i \in DOMAIN requests /\ requests'[i] = requests[i] /\ requests[i].page = epoch
  BY <1>6 DEF Aside
<1>14. CallsOK' /\ CommandIds' \subseteq CommandIds
  <2>1. replies' \subseteq replies
    OBVIOUS
  <2> HIDE DEF CommandIds, Moves
  <2> QED
    BY <1>4, <1>11, <1>12, <1>13, <2>1, CallsMove
<1> HIDE DEF CommandIds
<1>15. ReportsOK'
  <2>1. client'.life # "ready" \/ Agree(client'.snap, bridge.last)
    BY DEF Advances
  <2>2. \A c \in Calls : calls'[c].status \in Outcomes /\ calls'[c].id # 0 =>
              calls'[c] = calls[c] \/ Told(calls'[c].id, calls'[c].status)
    BY DEF Learns
  <2>3. /\ \A i \in DOMAIN settlements' : settlements'[i].id \in CommandIds => Told(settlements'[i].id, settlements'[i].outcome)
        /\ \A i \in DOMAIN settlements' : settlements'[i].id < bridge.nextId
    BY DEF Remembers
  <2> QED
    BY <1>4, <1>14, <2>1, <2>2, <2>3, ReportsMove
<1>16. TypeOK'
  <2>1. /\ IsClient' /\ client'.rev \in Nat /\ client'.life \in {"booting", "ready", "resyncing", "failed", "closed"}
    BY DEF Advances
  <2>2. client'.resync.on \in BOOLEAN /\ client'.resync.replied \in BOOLEAN
    BY DEF Advances
  <2>3. settlements' \in Seq(Settlements)
    BY DEF Remembers
  <2> QED
    BY <1>1, <1>6, <2>1, <2>2, <2>3 DEF TypeOK
<1>17. \A i \in DOMAIN requests' : requests'[i].kind = "cancel" /\ requests'[i].target # 0 => Apart(bridge, requests'[i].target)
  BY <1>1, <1>6 DEF IdsOK, Aside
<1>18. \A c \in Calls : calls'[c].id # 0 => Apart(bridge, calls'[c].id)
  BY <1>1, <1>10 DEF IdsOK
<1>19. \A r \in replies' : r.call \in Calls /\ r.id # 0 => Apart(bridge, r.id)
  BY <1>1 DEF IdsOK
<1>20. epoch <= epoch' /\ CallFacts'
  BY <1>1, <1>14, <1>15 DEF CallFacts
<1> QED
  BY <1>3, <1>9, <1>14, <1>16, <1>17, <1>18, <1>19, <1>20, PageFollows

LEMMA SnapshotAdvances ==
    ASSUME IInv, bridge.wire # <<>>, bridge.inFlight.kind = "snapshot", client.life \notin {"failed", "closed"},
           client' = Awaited([client EXCEPT
                           !.life = IF @ = "resyncing" /\ bridge.inFlight.reason # "resynchronization"
                                    THEN @ ELSE "ready",
                           !.snap = bridge.inFlight.snapshot, !.rev = bridge.inFlight.rev], bridge.inFlight)
    PROVE  Advances
<1> DEFINE f == bridge.inFlight
           life == IF client.life = "resyncing" /\ f.reason # "resynchronization" THEN client.life ELSE "ready"
           d == [client EXCEPT !.life = life, !.snap = f.snapshot, !.rev = f.rev]
           e == [d EXCEPT !.resync.frame = f]
<1>1. /\ IsClient /\ ResyncOK(client) /\ client.resync.on \in BOOLEAN /\ client.resync.replied \in BOOLEAN
      /\ client.life \in {"booting", "ready", "resyncing", "failed", "closed"}
  BY DEF IInv, TypeOK, ClientFacts
<1>2. /\ f # NoFrame /\ FrameOK(bridge) /\ f.rev \in Nat \ {0} /\ client.rev \in Nat /\ client.rev < f.rev
  BY FrameFacts
<1>3. f.snapshot = bridge.last /\ bridge.last \in Snapshots
  BY <1>2 DEF FrameOK
<1>a. Agree(f.snapshot, bridge.last)
  BY <1>3 DEF Agree
<1>4. client' = Awaited(d, f)
  OBVIOUS
<1>5. life \in {"ready", "resyncing"} /\ (client.life = "ready" => life = "ready") /\ (f.reason = "resynchronization" => life = "ready")
  BY <1>1
<1>b. d = [client EXCEPT !.life = life, !.snap = f.snapshot, !.rev = f.rev]
  OBVIOUS
<1> HIDE DEF life, f, d
<1>6. /\ d = [life |-> life, snap |-> f.snapshot, rev |-> f.rev, resync |-> client.resync]
      /\ d.life = life /\ d.snap = f.snapshot /\ d.rev = f.rev /\ d.resync = client.resync
  BY <1>1, <1>b DEF IsClient
<1>7. CASE f.reason = "resynchronization" /\ client.resync.on /\ client.resync.frame = NoFrame
  <2>1. client' = Resynchronized(e) /\ life = "ready"
    BY <1>4, <1>5, <1>6, <1>7 DEF Awaited, f
  <2>2. /\ e = [life |-> life, snap |-> f.snapshot, rev |-> f.rev, resync |-> e.resync]
        /\ e.resync = [on |-> client.resync.on, replied |-> client.resync.replied, frame |-> f]
        /\ e.life = life /\ e.snap = f.snapshot /\ e.rev = f.rev
        /\ e.resync.on = client.resync.on /\ e.resync.replied = client.resync.replied /\ e.resync.frame = f
    <3>1. IsClient
      BY <1>1
    <3> QED
      BY <1>6, <3>1 DEF IsClient
  <2> HIDE DEF e
  <2>3. CASE ~client.resync.replied
    <3>1. client' = e
      BY <2>1, <2>2, <2>3 DEF Resynchronized
    <3>2. IsClient' /\ client'.rev = f.rev /\ client'.snap = f.snapshot /\ client'.life = "ready"
      BY <2>1, <2>2, <3>1 DEF IsClient
    <3>3. client'.resync.on = client.resync.on /\ client'.resync.replied = client.resync.replied /\ client'.resync.frame = f
      BY <2>2, <3>1
    <3>4. ResyncOK(client')
      <4>1. client'.resync.on
        BY <1>7, <3>3
      <4> QED
        BY <1>2, <3>2, <3>3, <4>1 DEF ResyncOK
    <3>5. client'.resync.on \in BOOLEAN /\ client'.resync.replied \in BOOLEAN
      BY <1>1, <3>3
    <3> QED
      BY <1>2, <1>3, <1>a, <3>2, <3>4, <3>5 DEF Advances, f
  <2>4. CASE client.resync.replied
    <3>1. client' = [e EXCEPT !.resync = NoResync,
                   !.life = IF e.rev > e.resync.frame.rev THEN @ ELSE "ready",
                   !.snap = IF e.rev > e.resync.frame.rev THEN @ ELSE e.resync.frame.snapshot,
                   !.rev = IF e.rev > e.resync.frame.rev THEN @ ELSE e.resync.frame.rev]
      BY <1>2, <2>1, <2>2, <2>4 DEF Resynchronized
    <3>2. ~(e.rev > e.resync.frame.rev)
      BY <1>2, <2>2
    <3>3. client' = [e EXCEPT !.resync = NoResync, !.life = "ready", !.snap = e.resync.frame.snapshot, !.rev = e.resync.frame.rev]
      BY <3>1, <3>2
    <3> HIDE DEF NoResync
    <3>4. client' = [life |-> "ready", snap |-> f.snapshot, rev |-> f.rev, resync |-> NoResync]
      BY <2>2, <3>3
    <3>5. client'.life = "ready" /\ client'.snap = f.snapshot /\ client'.rev = f.rev /\ client'.resync = NoResync
      BY <3>4
    <3>6. IsClient'
      BY <3>4, <3>5, NewClientFields DEF IsClient
    <3>7. ResyncOK(client') /\ client'.resync.on \in BOOLEAN /\ client'.resync.replied \in BOOLEAN
      BY <3>5, NewClientFields DEF ResyncOK
    <3> QED
      BY <1>2, <1>3, <1>a, <3>5, <3>6, <3>7 DEF Advances, f
  <2> QED
    BY <1>1, <2>3, <2>4
<1>8. CASE ~(f.reason = "resynchronization" /\ client.resync.on /\ client.resync.frame = NoFrame)
  <2>1. client' = d
    BY <1>4, <1>6, <1>8 DEF Awaited
  <2>2. IsClient' /\ client'.rev = f.rev /\ client'.snap = f.snapshot /\ client'.life = life /\ client'.resync = client.resync
    BY <1>1, <1>6, <2>1 DEF IsClient
  <2>3. ResyncOK(client')
    BY <1>1, <1>2, <1>5, <2>2 DEF ResyncOK
  <2> QED
    BY <1>1, <1>2, <1>3, <1>a, <1>5, <2>2, <2>3 DEF Advances, f
<1> QED
  BY <1>7, <1>8

\* A delta or a notice that follows what the client has.
LEMMA NextAdvances ==
    ASSUME IInv, bridge.wire # <<>>, NEW snap \in Snapshots, Agree(snap, bridge.last),
           client.life \notin {"failed", "closed"},
           client' = [client EXCEPT !.snap = snap, !.rev = bridge.inFlight.rev]
    PROVE  Advances
<1>1. /\ IsClient /\ ResyncOK(client) /\ client.resync.on \in BOOLEAN /\ client.resync.replied \in BOOLEAN
      /\ client.life \in {"booting", "ready", "resyncing", "failed", "closed"}
  BY DEF IInv, TypeOK, ClientFacts
<1>2. bridge.inFlight.rev \in Nat \ {0} /\ client.rev \in Nat /\ client.rev < bridge.inFlight.rev
  BY FrameFacts
<1>3. /\ client' = [life |-> client.life, snap |-> snap, rev |-> bridge.inFlight.rev, resync |-> client.resync]
      /\ client'.life = client.life /\ client'.snap = snap /\ client'.rev = bridge.inFlight.rev /\ client'.resync = client.resync
  BY <1>1 DEF IsClient
<1>4. IsClient'
  BY <1>1, <1>3 DEF IsClient
<1>5. ResyncOK(client')
  BY <1>1, <1>2, <1>3 DEF ResyncOK
<1> QED
  BY <1>1, <1>2, <1>3, <1>4, <1>5 DEF Advances

\* A client that has given up ignores the frame.
LEMMA IgnoredFrame ==
    ASSUME IInv, client.life \in {"failed", "closed"}, client' = Awaited(client, bridge.inFlight)
    PROVE  Advances
<1>1. /\ IsClient /\ ResyncOK(client) /\ client.resync.on \in BOOLEAN /\ client.resync.replied \in BOOLEAN
      /\ client.rev \in Nat
  BY DEF IInv, TypeOK, ClientFacts
<1>2. ~client.resync.on
  BY <1>1 DEF ResyncOK
<1>3. client' = client
  BY <1>2 DEF Awaited
<1>4. IsClient'
  BY <1>1, <1>3 DEF IsClient
<1> QED
  BY <1>1, <1>3, <1>4 DEF Advances

LEMMA DeltaAdvances ==
    ASSUME IInv, bridge.wire # <<>>, bridge.inFlight.kind = "delta", client.life \notin {"failed", "closed"},
           client.rev # 0, bridge.inFlight.rev = client.rev + 1
    PROVE  /\ client.snap.active = bridge.inFlight.snapshot.active
           /\ client' = [client EXCEPT !.snap = ApplyDelta(@, bridge.inFlight), !.rev = bridge.inFlight.rev] => Advances
<1> DEFINE f == bridge.inFlight
           snap == ApplyDelta(client.snap, f)
<1>1. FrameOK(bridge) /\ client.snap \in Snapshots /\ Agree(client.snap, f.base)
  BY FrameFacts
<1>2. f.snapshot = bridge.last /\ bridge.last \in Snapshots /\ f.base \in Snapshots /\ DeltaBetween(f.base, bridge.last)
  BY <1>1 DEF FrameOK
<1>3. snap = [client.snap EXCEPT !.session = bridge.last.session]
  BY <1>1, <1>2 DEF ApplyDelta, Agree
<1>4. client.snap.active = bridge.last.active
  BY <1>1, <1>2 DEF Agree, DeltaBetween
<1>5. client' = [client EXCEPT !.snap = ApplyDelta(@, bridge.inFlight), !.rev = bridge.inFlight.rev] =>
          client' = [client EXCEPT !.snap = snap, !.rev = bridge.inFlight.rev]
  OBVIOUS
<1>6. bridge.last.session \in Nat
  BY <1>2 DEF Snapshots
<1> HIDE DEF f, snap
<1>7. PICK old : old = client.snap
  OBVIOUS
<1>8. snap \in Snapshots
  BY <1>1, <1>3, <1>6, <1>7 DEF Snapshots
<1>9. Agree(snap, bridge.last)
  <2>1. /\ snap.active = client.snap.active /\ snap.session = bridge.last.session /\ snap.catalog = client.snap.catalog
        /\ snap.generation = client.snap.generation /\ snap.shutting = client.snap.shutting
    BY <1>1, <1>3 DEF Snapshots
  <2> QED
    BY <1>1, <1>2, <2>1 DEF Agree, DeltaBetween
<1> QED
  BY <1>2, <1>4, <1>5, <1>8, <1>9, NextAdvances DEF f

LEMMA NoticeAdvances ==
    ASSUME IInv, bridge.wire # <<>>, bridge.inFlight.kind = "notice", client.life \notin {"failed", "closed"},
           client.rev # 0, bridge.inFlight.rev = client.rev + 1,
           client' = [client EXCEPT !.rev = bridge.inFlight.rev]
    PROVE  Advances /\ Agree(client'.snap, bridge.last)
<1>1. client.snap \in Snapshots /\ Agree(client.snap, bridge.last)
  BY FrameFacts
<1>2. IsClient
  BY DEF IInv, TypeOK
<1>3. client' = [client EXCEPT !.snap = client.snap, !.rev = bridge.inFlight.rev]
  BY <1>2 DEF IsClient
<1>4. client'.snap = client.snap
  BY <1>2 DEF IsClient
<1> QED
  BY <1>1, <1>3, <1>4, NextAdvances

LEMMA ResyncAdvances ==
    ASSUME IInv, client.life # "ready", RequestResync(client)
    PROVE  Advances /\ client'.life # "ready"
<1>1. Calms /\ client'.life # "ready"
  BY RequestResyncKeeps
<1>2. client.rev \in Nat /\ client.life \in {"booting", "ready", "resyncing", "failed", "closed"}
  BY DEF IInv, TypeOK
<1> QED
  BY <1>1, <1>2 DEF Calms, Advances

LEMMA CallsStay ==
    ASSUME IInv, UNCHANGED <<calls, settlements>>
    PROVE  /\ calls' \in [Calls -> CallStates] /\ \A c \in Calls : calls'[c] = calls[c] \/ Learns(c)
           /\ Remembers
<1>1. calls \in [Calls -> CallStates]
  BY DEF IInv, TypeOK
<1>2. settlements' = settlements \/ (settlements # <<>> /\ settlements' = Tail(settlements)) => Remembers
  BY RemembersSame DEF Remembers
<1> QED
  BY <1>1, <1>2

LEMMA ApplyNextKeeps ==
    ASSUME IInv, bridge.wire # <<>>, client.life \notin {"failed", "closed"}, ApplyNext(bridge.inFlight),
           IsBaseline(client, bridge.inFlight) \/ (client.rev # 0 /\ bridge.inFlight.rev = client.rev + 1)
    PROVE  /\ Advances /\ requests' = requests /\ calls' \in [Calls -> CallStates]
           /\ \A c \in Calls : calls'[c] = calls[c] \/ Learns(c)
           /\ Remembers
<1> DEFINE f == bridge.inFlight
<1>1. f # NoFrame /\ FrameOK(bridge)
  BY FrameFacts
<1>2. CASE f.kind = "snapshot"
  <2>1. /\ client' = Awaited([client EXCEPT
                           !.life = IF @ = "resyncing" /\ f.reason # "resynchronization"
                                    THEN @ ELSE "ready",
                           !.snap = f.snapshot, !.rev = f.rev], f)
        /\ UNCHANGED <<calls, settlements, requests>>
    BY <1>2 DEF ApplyNext
  <2>2. Advances
    BY <1>2, <2>1, SnapshotAdvances
  <2> QED
    BY <2>1, <2>2, CallsStay
<1>3. CASE f.kind = "delta"
  <2>1. client.rev # 0 /\ f.rev = client.rev + 1
    BY <1>3 DEF IsBaseline
  <2>2. /\ IF client.snap.active = f.snapshot.active
           THEN /\ client' = [client EXCEPT !.snap = ApplyDelta(@, f), !.rev = f.rev]
                /\ UNCHANGED <<calls, settlements>>
           ELSE Fail
        /\ UNCHANGED requests
    BY <1>3 DEF ApplyNext
  <2>3. client.snap.active = f.snapshot.active
    BY <1>3, <2>1, DeltaAdvances
  <2>4. client' = [client EXCEPT !.snap = ApplyDelta(@, f), !.rev = f.rev] /\ UNCHANGED <<calls, settlements, requests>>
    BY <2>2, <2>3
  <2>5. Advances
    BY <1>3, <2>1, <2>4, DeltaAdvances
  <2> QED
    BY <2>4, <2>5, CallsStay
<1>4. CASE f.kind = "notice"
  <2>1. client.rev # 0 /\ f.rev = client.rev + 1
    BY <1>4 DEF IsBaseline
  <2>2. client' = [client EXCEPT !.rev = f.rev] /\ Settle(f.notice) /\ UNCHANGED requests
    BY <1>4 DEF ApplyNext
  <2>3. Advances /\ Agree(client'.snap, bridge.last)
    BY <1>4, <2>1, <2>2, NoticeAdvances
  <2>4. InFlightNotice(bridge)
    BY <1>1, <1>4 DEF InFlightNotice
  <2> QED
    BY <2>2, <2>3, <2>4, SettleKeeps
<1> QED
  BY <1>1, <1>2, <1>3, <1>4 DEF FrameOK

LEMMA ApplyGapKeeps ==
    ASSUME IInv, bridge.wire # <<>>, client.life # "ready", ApplyGap(bridge.inFlight)
    PROVE  /\ Advances /\ (requests' = requests \/ \E x : Aside(x) /\ requests' = Append(requests, x))
           /\ calls' \in [Calls -> CallStates] /\ \A c \in Calls : calls'[c] = calls[c] \/ Learns(c)
           /\ Remembers
<1>1. RequestResync(client)
  BY DEF ApplyGap
<1>2. Advances /\ client'.life # "ready"
  BY <1>1, ResyncAdvances
<1>3. requests' = requests \/ \E x : Aside(x) /\ requests' = Append(requests, x)
  BY <1>1, RequestResyncKeeps
<1>4. /\ calls' \in [Calls -> CallStates] /\ \A c \in Calls : calls'[c] = calls[c] \/ Learns(c)
      /\ Remembers
  <2>1. CASE bridge.inFlight.kind = "notice"
    <3>1. InFlightNotice(bridge) /\ Settle(bridge.inFlight.notice)
      BY <2>1, FrameFacts DEF ApplyGap, InFlightNotice
    <3> QED
      BY <1>2, <3>1, SettleKeeps
  <2>2. CASE bridge.inFlight.kind # "notice"
    BY <2>2, CallsStay DEF ApplyGap
  <2> QED
    BY <2>1, <2>2
<1> QED
  BY <1>2, <1>3, <1>4

LEMMA ReceiveFrameKeeps ==
    ASSUME IInv, ReceiveFrame
    PROVE  IInv'
<1> DEFINE f == bridge.inFlight
<1>1. bridge.wire # <<>> /\ bridge' = [bridge EXCEPT !.wire = Tail(@)]
  BY DEF ReceiveFrame
<1>2. /\ Head(bridge.wire) = f /\ f.rev \in Nat \ {0} /\ client.rev \in Nat /\ client.rev < f.rev
      /\ client.life = "ready" => client.rev # 0 /\ f.rev = client.rev + 1
  BY <1>1, FrameFacts
<1>3. /\ IF client.life \in {"failed", "closed"} \/ (client.rev # 0 /\ f.rev <= client.rev)
         THEN /\ client' = Awaited(client, f)
              /\ UNCHANGED <<calls, settlements, requests>>
         ELSE IF IsBaseline(client, f) \/ (client.rev # 0 /\ f.rev = client.rev + 1)
         THEN ApplyNext(f)
         ELSE ApplyGap(f)
      /\ acks' = Append(acks, [rev |-> f.rev, page |-> epoch])
  BY <1>2 DEF ReceiveFrame
<1>4. UNCHANGED <<published, intents, uiNotices, replies, epoch, login, answers>>
  BY DEF ReceiveFrame, coordinatorVars
<1>5. ~(client.rev # 0 /\ f.rev <= client.rev)
  BY <1>2
<1>6. /\ Advances /\ (requests' = requests \/ \E x : Aside(x) /\ requests' = Append(requests, x))
      /\ calls' \in [Calls -> CallStates] /\ \A c \in Calls : calls'[c] = calls[c] \/ Learns(c)
      /\ Remembers
  <2>1. CASE client.life \in {"failed", "closed"}
    <3>1. client' = Awaited(client, f) /\ UNCHANGED <<calls, settlements, requests>>
      BY <1>3, <2>1
    <3> QED
      BY <2>1, <3>1, IgnoredFrame, CallsStay
  <2>2. CASE client.life \notin {"failed", "closed"} /\ (IsBaseline(client, f) \/ (client.rev # 0 /\ f.rev = client.rev + 1))
    <3>1. ApplyNext(f)
      BY <1>3, <1>5, <2>2
    <3> QED
      BY <1>1, <2>2, <3>1, ApplyNextKeeps
  <2>3. CASE client.life \notin {"failed", "closed"} /\ ~(IsBaseline(client, f) \/ (client.rev # 0 /\ f.rev = client.rev + 1))
    <3>1. ApplyGap(f)
      BY <1>3, <1>5, <2>3
    <3>2. client.life # "ready"
      BY <1>2, <2>3
    <3> QED
      BY <1>1, <3>1, <3>2, ApplyGapKeeps
  <2> QED
    BY <2>1, <2>2, <2>3
<1> QED
  BY <1>1, <1>3, <1>4, <1>6, FrameFollows

-----------------------------------------------------------------------------
(* The invariant. *)

LEMMA BridgeStarts ==
    ASSUME BridgeInit
    PROVE  /\ IsBridge(bridge)
           /\ bridge.channel = 0 /\ bridge.last = NoSnapshot /\ bridge.nextId = 1 /\ bridge.nextRev = 1
           /\ bridge.pending = {} /\ bridge.notices = <<>> /\ bridge.inFlight = NoFrame /\ bridge.resync = 0
           /\ bridge.unseen = {} /\ bridge.generation = 1 /\ bridge.dirty = TRUE /\ bridge.token = FALSE
           /\ bridge.started = FALSE /\ bridge.readyAcked = FALSE /\ bridge.exited = FALSE /\ bridge.failed = FALSE
           /\ bridge.overflow = FALSE /\ bridge.wire = <<>>
<1>1. PICK y, n : y = TRUE /\ n = FALSE
  OBVIOUS
<1>2. bridge = [channel |-> 0, last |-> NoSnapshot, nextId |-> 1, nextRev |-> 1, pending |-> {},
         notices |-> <<>>, inFlight |-> NoFrame, resync |-> 0, unseen |-> {}, generation |-> 1,
         dirty |-> y, token |-> n, started |-> n, readyAcked |-> n, exited |-> n, failed |-> n,
         overflow |-> n, wire |-> <<>>]
  BY <1>1, Zenon DEF BridgeInit
<1>3. IsBridge(bridge)
  BY <1>2 DEF IsBridge
<1>4. /\ bridge.channel = 0 /\ bridge.last = NoSnapshot /\ bridge.nextId = 1 /\ bridge.nextRev = 1
      /\ bridge.pending = {} /\ bridge.notices = <<>> /\ bridge.inFlight = NoFrame /\ bridge.resync = 0
      /\ bridge.unseen = {} /\ bridge.generation = 1 /\ bridge.wire = <<>>
  BY <1>2
<1>5. /\ bridge.dirty = y /\ bridge.token = n /\ bridge.started = n /\ bridge.readyAcked = n
      /\ bridge.exited = n /\ bridge.failed = n /\ bridge.overflow = n
  BY <1>2
<1>6. /\ bridge.dirty = TRUE /\ bridge.token = FALSE /\ bridge.started = FALSE /\ bridge.readyAcked = FALSE
      /\ bridge.exited = FALSE /\ bridge.failed = FALSE /\ bridge.overflow = FALSE
  BY <1>1, <1>5, Zenon
<1> QED
  BY <1>3, <1>4, <1>6

LEMMA InitHolds ==
    ASSUME Init
    PROVE  IInv
<1>1. /\ IsBridge(bridge)
      /\ bridge.channel = 0 /\ bridge.last = NoSnapshot /\ bridge.nextId = 1 /\ bridge.nextRev = 1
      /\ bridge.pending = {} /\ bridge.notices = <<>> /\ bridge.inFlight = NoFrame /\ bridge.resync = 0
      /\ bridge.unseen = {} /\ bridge.generation = 1 /\ bridge.wire = <<>>
  BY BridgeStarts DEF Init
<1>2. /\ bridge.dirty = TRUE /\ bridge.token = FALSE /\ bridge.started = FALSE /\ bridge.readyAcked = FALSE
      /\ bridge.exited = FALSE /\ bridge.failed = FALSE /\ bridge.overflow = FALSE
  BY BridgeStarts DEF Init
<1>3. /\ published = [active |-> 1, session |-> 1, catalog |-> 1, recovery |-> 0] /\ intents = <<>> /\ uiNotices = <<>>
      /\ acks = <<>> /\ replies = {} /\ epoch = 1 /\ client = NewClient /\ calls = [c \in Calls |-> NewCall]
      /\ settlements = <<>> /\ answers = {} /\ requests = <<Request("connect", "connect", 0)>>
  BY DEF Init, BridgeInit
<1>4. login.id = 0 /\ login \in [id : Nat, opened : BOOLEAN, ids : SUBSET Nat] /\ login.ids = {}
  <2>1. PICK n : n = FALSE
    OBVIOUS
  <2>2. login = [id |-> 0, opened |-> n, ids |-> {}]
    BY <2>1, Zenon DEF Init
  <2>3. n \in BOOLEAN
    BY <2>1, Zenon
  <2> QED
    BY <2>2, <2>3
<1>5. \A c \in Calls : calls[c] \in CallStates /\ calls[c].status = "idle" /\ calls[c].id = 0
  BY <1>3 DEF NewCall, CallStates
<1>6. /\ DOMAIN requests = {1} /\ requests \in Seq(Requests) /\ requests[1].kind = "connect" /\ requests[1].call = "connect"
      /\ requests[1].page = 1
  <2>1. PICK x : x = Request("connect", "connect", 0)
    OBVIOUS
  <2>2. x.kind = "connect" /\ x.call = "connect" /\ x.page = 1 /\ x \in Requests
    BY <1>3, <2>1 DEF Request, Requests, OtherCalls
  <2>3. requests = <<x>>
    BY <1>3, <2>1
  <2> QED
    BY <2>2, <2>3
<1>7. CommandIds = {}
  BY <1>3, <1>5 DEF CommandIds
<1>8. NoSnapshot \notin Snapshots
  BY DEF NoSnapshot, Snapshots
<1>9. BridgeTypeOK(bridge)
  <2>1. bridge.last \in Snapshots \cup {NoSnapshot} /\ bridge.notices \in Seq(Entries)
    BY <1>1
  <2>2. bridge.pending \subseteq 1 .. bridge.nextId - 1 /\ bridge.unseen \subseteq Watches
    BY <1>1
  <2>3. bridge.channel \in Nat /\ bridge.nextId \in Nat \ {0} /\ bridge.nextRev \in Nat \ {0} /\ bridge.resync \in Nat /\ bridge.generation \in Nat
    BY <1>1
  <2> QED
    BY <1>1, <1>2, <2>1, <2>2, <2>3 DEF BridgeTypeOK
<1>10. TypeOK
  <2>1. published \in Ports
    BY <1>3 DEF Ports
  <2>2. IsClient /\ client.rev \in Nat /\ client.life = "booting"
    BY <1>3, NewClientFields DEF IsClient
  <2>3. client.resync.on \in BOOLEAN /\ client.resync.replied \in BOOLEAN
    BY <1>3, NewClientFields
  <2>4. calls \in [Calls -> CallStates]
    BY <1>3, <1>5
  <2>5. intents \in Seq(Intents) /\ uiNotices \in Seq(UiNotices) /\ settlements \in Seq(Settlements)
    BY <1>3
  <2> QED
    BY <1>3, <1>4, <1>6, <2>1, <2>2, <2>3, <2>4, <2>5 DEF TypeOK
<1>11. DOMAIN bridge.notices = {} /\ ~InFlightNotice(bridge)
  BY <1>1 DEF InFlightNotice
<1>12. StreamOK(bridge, epoch)
  BY <1>1, <1>3 DEF StreamOK
<1>13. QueueOK(bridge)
  <2>1. Cardinality(bridge.pending) <= MaxPending
    BY <1>1, FS_EmptySet, CapacityAssumption
  <2> QED
    BY <1>1, <1>2, <1>11, <2>1 DEF QueueOK
<1>14. FreshOK(bridge, published)
  BY <1>1, <1>2, <1>8 DEF FreshOK
<1>15. ShutdownOK(bridge)
  BY <1>2, <1>11 DEF ShutdownOK
<1>16. CoverOK(bridge, published, answers, CommandIds)
  BY <1>7, <1>11 DEF CoverOK
<1>17. ClientFacts
  <2>1. Mirror(bridge, epoch, client)
    BY <1>1, <1>3, NewClientFields DEF Mirror
  <2>2. AcksOK(bridge, epoch, acks)
    BY <1>1, <1>3 DEF AcksOK
  <2>3. ResyncOK(client)
    BY <1>3, NewClientFields DEF ResyncOK
  <2>4. ConnectOK
    BY <1>1, <1>3, <1>6, NewClientFields DEF ConnectOK
  <2>5. ExitOK
    BY <1>2 DEF ExitOK
  <2> QED
    BY <2>1, <2>2, <2>3, <2>4, <2>5 DEF ClientFacts
<1>18. CallFacts
  <2>1. requests[1].call \notin Calls
    BY <1>6, CallsAssumption
  <2>2. CallsOK
    BY <1>1, <1>3, <1>5, <1>6, <2>1 DEF CallsOK, FromCall, CommandKinds
  <2>3. ReportsOK
    BY <1>3, <1>5 DEF ReportsOK
  <2> QED
    BY <2>2, <2>3 DEF CallFacts
<1>19. LoginFacts
  <2>1. IdsOK
    BY <1>3, <1>4, <1>5, <1>6 DEF IdsOK
  <2>2. NoticesOK
    BY <1>3 DEF NoticesOK
  <2>3. IntentsOK
    BY <1>3, <1>4 DEF IntentsOK
  <2>4. SlotsAwaitAnswers
    BY <1>1 DEF SlotsAwaitAnswers
  <2> QED
    BY <2>1, <2>2, <2>3, <2>4 DEF LoginFacts
<1> QED
  BY <1>9, <1>10, <1>12, <1>13, <1>14, <1>15, <1>16, <1>17, <1>18, <1>19 DEF IInv, BridgeFacts

LEMMA StutterKeeps ==
    ASSUME IInv, UNCHANGED vars
    PROVE  IInv'
<1>1. /\ UNCHANGED <<bridge, published, intents, uiNotices, requests, acks, epoch, login, answers, replies, client, calls, settlements>>
  BY DEF vars, bridgeVars, clientVars, coordinatorVars
<1>2. calls \in [Calls -> CallStates]
  BY DEF IInv, TypeOK
<1> QED
  BY <1>1, <1>2, ClientStays, GivesUp

\* A step that may send a frame, whether or not the carrier takes it.
LEMMA SendingKeeps ==
    ASSUME IInv, NEW ok \in BOOLEAN, Sending(ok), UNCHANGED <<client, calls, settlements, coordinatorVars>>
    PROVE  IInv'
<1>1. CASE AcknowledgeFrame(ok)
  BY <1>1, AcknowledgeFrameKeeps
<1>2. CASE ShutdownCancelled(ok)
  BY <1>2, ShutdownCancelledKeeps
<1>3. CASE Connect(ok)
  BY <1>3, ConnectStep
<1>4. CASE Resynchronize(ok)
  BY <1>4, ResynchronizeKeeps
<1>5. CASE RequestShutdown(ok)
  BY <1>5, RequestShutdownKeeps
<1>6. CASE ReceiveNotice(ok)
  BY <1>6, ReceiveNoticeKeeps
<1>7. CASE Tick(ok)
  BY <1>7, TickKeeps
<1> QED
  BY <1>1, <1>2, <1>3, <1>4, <1>5, <1>6, <1>7 DEF Sending

LEMMA NextKeeps ==
    ASSUME IInv, Next
    PROVE  IInv'
<1>1. CASE BridgeStep
  <2>1. UNCHANGED <<client, calls, settlements, coordinatorVars>>
    BY <1>1 DEF BridgeStep, clientVars
  <2>2. CASE Sending(TRUE)
    BY <2>1, <2>2, SendingKeeps
  <2>3. CASE RefuseDispatch
    BY <2>1, <2>3, RefuseDispatchKeeps
  <2>4. CASE AdmitIntent
    BY <2>1, <2>4, AdmitIntentKeeps
  <2>5. CASE CancelAuthentication
    BY <2>1, <2>5, CancelAuthenticationKeeps
  <2>6. CASE \E watch \in Watches : WatchChanged(watch)
    BY <2>1, <2>6, WatchChangedKeeps
  <2> QED
    BY <1>1, <2>2, <2>3, <2>4, <2>5, <2>6 DEF BridgeStep
<1>2. CASE RefusedFrame
  BY <1>2, SendingKeeps DEF RefusedFrame
<1>3. CASE HostStep
  <2>1. UNCHANGED <<client, calls, settlements, coordinatorVars>>
    BY <1>3 DEF HostStep, clientVars
  <2>2. RequestClose \/ ShutdownTimeout(TRUE)
    BY <1>3 DEF HostStep
  <2> QED
    BY <2>1, <2>2, RequestCloseKeeps, TickKeeps
<1>4. CASE UserStep
  BY <1>4, UserKeeps
<1>5. CASE TimeoutStep
  BY <1>5, TimeoutKeeps
<1>6. CASE ReplyStep
  BY <1>6, ReceiveReplyKeeps DEF ReplyStep
<1>7. CASE ReceiveFrame
  BY <1>7, ReceiveFrameKeeps
<1>8. CASE CoordinatorStep
  BY <1>8, CoordinatorKeeps
<1>9. CASE PublishStep
  BY <1>9, PublishKeeps DEF PublishStep
<1> QED
  BY <1>1, <1>2, <1>3, <1>4, <1>5, <1>6, <1>7, <1>8, <1>9 DEF Next

\* The invariant the other theorems follow from: the bridge's queues, its
\* stream of frames and what it takes to be shown, the page's revision and
\* snapshot, its calls and the coordinator's sign-in fit together.
THEOREM BridgeAndClientAgree == Spec => []IInv
<1>1. Init => IInv
  BY InitHolds
<1>2. IInv /\ [Next]_vars => IInv'
  BY NextKeeps, StutterKeeps
<1> QED
  BY <1>1, <1>2, PTL DEF Spec

-----------------------------------------------------------------------------
(* What the invariant says. *)

\* A client that has applied every frame the bridge sent it shows what the
\* bridge last sent (applyFrame's splices and publish_projection's
\* last_snapshot never drift apart).
THEOREM ClientMirrorsHostHolds == Spec => []ClientMirrorsHost
<1>1. ASSUME IInv PROVE ClientMirrorsHost
  <2>1. SUFFICES ASSUME bridge.channel = epoch, client.rev # 0, client.rev = bridge.nextRev - 1
                 PROVE  Agrees(client.snap, bridge.last, SnapshotFields)
    BY DEF ClientMirrorsHost, Attached
  <2>2. Mirror(bridge, epoch, client) /\ bridge.nextRev \in Nat
    BY <1>1, EnvironmentHolds DEF IInv, ClientFacts, BridgeTypeOK
  <2>3. bridge.wire = <<>> /\ client.rev = Delivered(bridge)
    BY <2>1, <2>2 DEF Mirror, Delivered
  <2>4. Agree(client.snap, bridge.last)
    BY <2>1, <2>2, <2>3 DEF Mirror
  <2> QED
    BY <2>4 DEF Agree, Agrees, SnapshotFields
<1> QED
  BY <1>1, BridgeAndClientAgree, PTL

\* queue_notice never refuses a notice, and a slot of pending_requests is held
\* only while its answer is on its way.
THEOREM PendingAnswersFitHolds == Spec => []PendingAnswersFit
<1>1. ASSUME IInv PROVE PendingAnswersFit
  <2>1. NoticesFit
    BY <1>1, EnvironmentHolds DEF BridgeFacts, QueueOK, NoticesFit
  <2>2. SlotsAwaitAnswers
    BY <1>1 DEF IInv, LoginFacts
  <2> QED
    BY <2>1, <2>2 DEF PendingAnswersFit
<1> QED
  BY <1>1, BridgeAndClientAgree, PTL

LEMMA OutcomesHold ==
    ASSUME IInv
    PROVE  OutcomesAreShown
<1>1. SUFFICES ASSUME NEW c \in Calls, calls[c].status \in {"committed", "rejected"}, calls[c].id # 0
               PROVE  \E a \in AnswersTo(c) :
                         /\ a.outcome = calls[c].status
                         /\ client.life = "ready" =>
                              \A f \in {"active", "session", "catalog"} : a.published[f] <= client.snap[f]
  BY DEF OutcomesAreShown
<1>2. ReportsOK
  BY DEF IInv, CallFacts
<1>3. Reported(calls[c].id, calls[c].status)
  BY <1>1, <1>2 DEF ReportsOK, Outcomes
<1>4. PICK a \in answers : /\ a.id = calls[c].id /\ a.outcome = calls[c].status
                           /\ client.life = "ready" => Covers(client.snap, a)
  BY <1>3 DEF Reported
<1>5. a \in AnswersTo(c)
  BY <1>4 DEF AnswersTo
<1>6. client.life = "ready" => \A f \in {"active", "session", "catalog"} : a.published[f] <= client.snap[f]
  BY <1>4 DEF Covers
<1> QED
  BY <1>4, <1>5, <1>6

LEMMA GracefulExitHolds ==
    ASSUME IInv
    PROVE  GracefulExitIsComplete
<1>1. SUFFICES ASSUME bridge.readyAcked
               PROVE  /\ bridge.notices = <<>> /\ bridge.last.shutting
                      /\ \A id \in bridge.pending : ~TerminalNoticeOutstanding(bridge, id)
  BY DEF GracefulExitIsComplete
<1>2. ShutdownOK(bridge)
  BY EnvironmentHolds DEF BridgeFacts
<1>3. bridge.notices = <<>> /\ bridge.last.shutting /\ ~InFlightNotice(bridge)
  BY <1>1, <1>2 DEF ShutdownOK
<1> QED
  BY <1>3 DEF TerminalNoticeOutstanding, InFlightNotice

\* When a pump would change nothing, nothing is left to send.
LEMMA PumpIsIdle ==
    ASSUME IInv, Pump(bridge, TRUE) = bridge, Representable, bridge.channel # 0, bridge.inFlight = NoFrame
    PROVE  bridge.notices = <<>> /\ ~bridge.dirty
<1>1. Environment /\ BridgeFacts(bridge, epoch, published, answers, CommandIds) /\ BridgeTypeOK(bridge)
  BY EnvironmentHolds
<1>2. 0 \notin CommandIds /\ CommandIds \subseteq Nat
  BY CommandIdsNat DEF IInv
<1>3. bridge.nextRev \in Nat
  BY <1>1 DEF BridgeTypeOK
<1> HIDE DEF CommandIds, Representable, Environment, BridgeFacts
<1>4. LET c == Pump(bridge, TRUE) IN
      Representable /\ TRUE /\ bridge.channel # 0 /\ bridge.inFlight = NoFrame =>
         /\ bridge.resync # 0 \/ bridge.notices # <<>> => c.nextRev > bridge.nextRev
         /\ bridge.resync = 0 /\ bridge.notices = <<>> => ~c.dirty
  BY <1>1, <1>2, PumpKeeps
<1>5. /\ bridge.resync # 0 \/ bridge.notices # <<>> => bridge.nextRev > bridge.nextRev
      /\ bridge.resync = 0 /\ bridge.notices = <<>> => ~bridge.dirty
  BY <1>4
<1> QED
  BY <1>3, <1>5

LEMMA NothingLeftHolds ==
    ASSUME IInv
    PROVE  NothingLeftUnshown
<1>1. SUFFICES ASSUME Attached, client.life = "ready", Representable, Quiet
               PROVE  Agrees(client.snap, Snapshot(bridge), SnapshotFields) /\ bridge.notices = <<>>
  BY DEF NothingLeftUnshown
<1>2. bridge.channel = epoch /\ epoch # 0 /\ bridge.wire = <<>> /\ acks = <<>> /\ bridge.unseen = {} /\ ~CloseAsked
  BY <1>1 DEF Attached, Quiet, IInv, TypeOK
<1>3. Mirror(bridge, epoch, client) /\ AcksOK(bridge, epoch, acks) /\ BridgeTypeOK(bridge)
  BY EnvironmentHolds DEF IInv, ClientFacts
<1>4. FreshOK(bridge, published)
  BY EnvironmentHolds DEF BridgeFacts
<1>5. bridge.inFlight = NoFrame
  BY <1>2, <1>3 DEF AcksOK
<1>6. bridge.notices = <<>> /\ ~bridge.dirty
  BY <1>1, <1>2, <1>5, PumpIsIdle DEF Quiet
<1>7. Agree(client.snap, bridge.last)
  BY <1>1, <1>2, <1>3 DEF Mirror
<1>8. /\ bridge.last \in Snapshots /\ bridge.last.generation = bridge.generation
      /\ bridge.last.active = published.active /\ bridge.last.session = published.session
      /\ bridge.last.catalog = published.catalog
  BY <1>2, <1>4, <1>6 DEF FreshOK
<1>9. bridge.last.shutting = bridge.token
  <2>1. (bridge.last.shutting => bridge.token) /\ (bridge.started => bridge.last.shutting)
    BY <1>4, <1>6, <1>8 DEF FreshOK
  <2>2. bridge.token => bridge.started
    BY <1>2 DEF CloseAsked
  <2>3. bridge.last.shutting \in BOOLEAN /\ bridge.token \in BOOLEAN
    BY <1>3, <1>8 DEF Snapshots, BridgeTypeOK
  <2> QED
    BY <2>1, <2>2, <2>3
<1>10. Agree(bridge.last, Snapshot(bridge))
  <2>1. PICK t : t = bridge.token
    OBVIOUS
  <2>2. PICK s : s = Snapshot(bridge)
    OBVIOUS
  <2>3. /\ s.active = published.active /\ s.session = published.session
        /\ s.catalog = published.catalog /\ s.generation = bridge.generation
        /\ s.shutting = t
    BY <2>1, <2>2 DEF Snapshot
  <2> QED
    BY <1>8, <1>9, <2>1, <2>2, <2>3 DEF Agree
<1>11. Agree(client.snap, Snapshot(bridge))
  BY <1>7, <1>10 DEF Agree
<1> QED
  BY <1>6, <1>11 DEF Agree, Agrees, SnapshotFields

\* What the page reports of a command is what the coordinator answered, and is
\* shown; a graceful exit leaves no notice behind; and when all is quiet the page
\* shows what is published (wait_for_projection, publish_projection).
THEOREM NothingIsLostHolds == Spec => []NothingIsLost
<1>1. ASSUME IInv PROVE NothingIsLost
  BY <1>1, OutcomesHold, GracefulExitHolds, NothingLeftHolds DEF NothingIsLost
<1> QED
  BY <1>1, BridgeAndClientAgree, PTL
=============================================================================
