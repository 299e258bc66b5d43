--------------------------- MODULE ManagedProvider ---------------------------
(***************************************************************************)
(* The provider management wrapper of crates/autoharness-provider/src/     *)
(* managed.rs around one adapter: permits, the request window, deadlines,  *)
(* bounded retries, cancellation, the idle deadline of a stream and the    *)
(* durable catalog cache.  Of the adapters (client.rs of the Gemini and    *)
(* OpenAI crates, provider.rs of the Codex crate) it takes the dispatch of *)
(* a request and how its outcome is classified; what a stream says is      *)
(* ProviderStream's.  configure_provider of main.rs decides whether an     *)
(* adapter is wrapped at all.                                              *)
(*                                                                         *)
(* Time is relative: the entries of the request window and the cached      *)
(* catalog carry their age, and Tick lets them grow old.  A back-off may   *)
(* last any time.                                                          *)
(***************************************************************************)
EXTENDS Integers, FiniteSets

CONSTANTS
    Requests,           \* calls of list_models and stream_chat
    AdapterKinds,       \* the kinds of adapter there are
    MaxConcurrency,     \* ProviderPolicy: permits
    CatalogAttempts,    \* ProviderPolicy: dispatches of one catalog request
    DispatchAttempts,   \* ProviderPolicy: dispatches of one chat request
    RateLimit,          \* ProviderPolicy: requests in one window
    Window,             \* ProviderPolicy: length of the window, in ticks
    RefreshAfter,       \* ProviderPolicy: age up to which a cached catalog is fresh
    MaxStale            \* ProviderPolicy: age up to which it may replace a failed refresh

ASSUME PolicyAssumption ==
    /\ {MaxConcurrency, CatalogAttempts, DispatchAttempts, RateLimit, Window} \subseteq Nat \ {0}
    /\ RefreshAfter \in Nat /\ MaxStale \in Nat /\ RefreshAfter <= MaxStale

VARIABLES
    adapter,    \* its kind, and who built it: the launch or a factory
    req,        \* the state of each request
    holders,    \* requests that hold a permit
    window,     \* rate_window: the admissions it holds, with their ages
    recent,     \* observer: every admission within the last window
    catalog,    \* the models in memory, seen as what they say of the requested one
    cache       \* the durable catalog

vars == <<adapter, req, holders, window, recent, catalog, cache>>

Listings == {"supported", "unsupported"}
NoEntry == [models |-> "unknown", age |-> 0]

\* fed: the stream's idle deadline has just been started anew; accepted: observer, how often the
\* provider may have taken the request.
NewRequest == [op |-> "none", pc |-> "new", attempt |-> 0, cached |-> NoEntry,
               cancelled |-> FALSE, fed |-> FALSE, accepted |-> 0]

\* What is left of a request that has returned.
Returned(state, accepted) ==
    [NewRequest EXCEPT !.op = state.op, !.pc = "done", !.accepted = accepted]

Init ==
    /\ adapter \in [kind : AdapterKinds, builtAt : {"launch", "factory"}]
    /\ req = [r \in Requests |-> NewRequest]
    /\ holders = {} /\ window = {} /\ recent = {}
    /\ catalog = "unknown"
    /\ cache \in {NoEntry} \cup [models : Listings, age : {0, RefreshAfter + 1, MaxStale + 1}]

\* configure_provider: the factories wrap every adapter, the launch all but one kind.
Wrapped == ~(adapter.builtAt = "launch" /\ adapter.kind = "gemini")

-----------------------------------------------------------------------------
(* How a dispatch ends, and what may be done about it. *)

\* The provider has not taken the request, or says that it will not serve it.
Refusals == {"unreachable", "throttled", "conflict", "rejected"}

\* The provider may have taken the request although its answer did not come:
\* the adapter's wait for the headers, a broken connection, a catalog page that
\* is cut off, the wrapper's own deadline.
LostAnswers == {"headers_timeout", "broken", "cut_off", "deadline"}

\* Advice that takes a lost answer for a refusal.
RetryLostAlways(op) == TRUE

\* ReplaySafety::retry_advice, timeout_error and classify_catalog_read_error:
\* only a catalog request may be repeated after a lost answer.
RetryLost(op) == op # "chat"

\* The retry advice of an outcome: classify_status and classify_transport_error.
Retryable(op, outcome) ==
    \/ outcome \in {"unreachable", "throttled", "conflict"}
    \/ outcome \in {"headers_timeout", "cut_off", "deadline"} /\ RetryLost(op)

\* transient_cache_fallback
Transient(outcome) == outcome \in {"throttled", "unreachable"} \cup LostAnswers

Attempts(op) == IF op = "chat" THEN DispatchAttempts ELSE CatalogAttempts

-----------------------------------------------------------------------------
(* The start of a request. *)

At(r, pc) == req[r].pc = pc

Usable(entry, limit) == entry # NoEntry /\ entry.age <= limit

\* Where a request waits first: unwrapped, it is sent at once.
FirstWait == IF Wrapped THEN "permit" ELSE "sent"

\* list_models: the cached catalog is read once, with its age at that moment.
ListModels(r, op) ==
    /\ At(r, "new")
    /\ IF Wrapped /\ op = "prefer" /\ Usable(cache, RefreshAfter)
       THEN /\ req' = [req EXCEPT ![r] = Returned([@ EXCEPT !.op = op], 0)]
            /\ catalog' = cache.models
       ELSE /\ req' = [req EXCEPT ![r].op = op, ![r].pc = FirstWait, ![r].cached = cache]
            /\ UNCHANGED catalog
    /\ UNCHANGED <<adapter, holders, window, recent, cache>>

\* stream_chat: preflight against the models in memory.
StreamChat(r) ==
    /\ At(r, "new")
    /\ req' = [req EXCEPT ![r].op = "chat",
                          ![r].pc = IF Wrapped /\ catalog = "unsupported" THEN "done" ELSE FirstWait]
    /\ UNCHANGED <<adapter, holders, window, recent, catalog, cache>>

-----------------------------------------------------------------------------
(* acquire: a permit, then a place in the window, waiting for it with the  *)
(* permit in hand.                                                         *)

AcquirePermit(r) ==
    /\ At(r, "permit") /\ ~req[r].cancelled /\ Cardinality(holders) < MaxConcurrency
    /\ holders' = holders \cup {r}
    /\ req' = [req EXCEPT ![r].pc = "rate"]
    /\ UNCHANGED <<adapter, window, recent, catalog, cache>>

YoungerThan(entries, age) == {e \in entries : e.age < age}

InWindow == YoungerThan(window, Window)

\* A request is admitted once per dispatch, so its name and the number of the dispatch tell
\* admissions of one age apart; rate_window needs no names, being a queue of instants.
Admission(r) == [request |-> r, attempt |-> req[r].attempt, age |-> 0]

\* admit_rate; a request with a place to take does not look at its cancellation.
AdmitRate(r) ==
    /\ At(r, "rate") /\ Cardinality(InWindow) < RateLimit
    /\ window' = InWindow \cup {Admission(r)}
    /\ recent' = recent \cup {Admission(r)}
    /\ req' = [req EXCEPT ![r].pc = "sent"]
    /\ UNCHANGED <<adapter, holders, catalog, cache>>

-----------------------------------------------------------------------------
(* The end of a dispatch. *)


\* A failed dispatch gives its permit back before it waits for the next.
Freed(r, retries) == holders \ {r}

\* live_catalog and stream_chat: a retry, or for a catalog the entry read at the
\* start, if its age was within bounds then.
DispatchFails(r, outcome) ==
    LET op == req[r].op
        retries == Wrapped /\ req[r].attempt + 1 < Attempts(op) /\ Retryable(op, outcome)
        taken == req[r].accepted + (IF outcome \in LostAnswers THEN 1 ELSE 0)
        fallback == Wrapped /\ ~retries /\ op # "chat" /\ Transient(outcome)
                    /\ Usable(req[r].cached, MaxStale)
    IN  /\ At(r, "sent") /\ ~req[r].cancelled
        /\ outcome = "deadline" => Wrapped
        /\ outcome = "cut_off" => op # "chat"
        /\ req' = [req EXCEPT ![r] =
                      IF retries
                      THEN [@ EXCEPT !.pc = "backoff", !.attempt = req[r].attempt + 1,
                                     !.accepted = taken]
                      ELSE Returned(@, taken)]
        /\ holders' = Freed(r, retries)
        /\ catalog' = IF fallback THEN req[r].cached.models ELSE catalog
        /\ UNCHANGED <<adapter, window, recent, cache>>

\* retry_delay and wait_or_cancel
BackoffOver(r) ==
    /\ At(r, "backoff") /\ ~req[r].cancelled
    /\ req' = [req EXCEPT ![r].pc = "permit"]
    /\ UNCHANGED <<adapter, holders, window, recent, catalog, cache>>

\* A live catalog: in memory first, then in the durable cache.
ModelsListed(r, models) ==
    /\ At(r, "sent") /\ ~req[r].cancelled /\ req[r].op # "chat"
    /\ req' = [req EXCEPT ![r] =
                  IF Wrapped THEN [@ EXCEPT !.pc = "store", !.cached = [models |-> models, age |-> 0]]
                  ELSE Returned(@, @.accepted)]
    /\ holders' = holders \ {r}
    /\ catalog' = IF Wrapped THEN models ELSE catalog
    /\ UNCHANGED <<adapter, window, recent, cache>>

\* A cache that cannot be written changes nothing.
StoreCatalog(r, stored) ==
    /\ At(r, "store")
    /\ req' = [req EXCEPT ![r] = Returned(@, @.accepted)]
    /\ cache' = IF stored THEN req[r].cached ELSE cache
    /\ UNCHANGED <<adapter, holders, window, recent, catalog>>

-----------------------------------------------------------------------------
(* Streams: limit_stream keeps the permit to the end and starts the idle   *)
(* deadline anew at each event before the last.  Neither it nor the        *)
(* adapter bounds how long a stream lasts altogether.                      *)

StreamStarts(r) ==
    /\ At(r, "sent") /\ ~req[r].cancelled /\ req[r].op = "chat"
    /\ req' = [req EXCEPT ![r].pc = "stream", ![r].accepted = @ + 1]
    /\ UNCHANGED <<adapter, holders, window, recent, catalog, cache>>

Ends(r) ==
    /\ req' = [req EXCEPT ![r] = Returned(@, @.accepted)]
    /\ holders' = holders \ {r}
    /\ UNCHANGED <<adapter, window, recent, catalog, cache>>

StreamEvent(r) ==
    /\ At(r, "stream") /\ ~req[r].cancelled
    /\ req' = [req EXCEPT ![r].fed = TRUE]
    /\ UNCHANGED <<adapter, holders, window, recent, catalog, cache>>

\* No event yet since the deadline was started.
NoEventYet(r) ==
    /\ At(r, "stream") /\ req[r].fed
    /\ req' = [req EXCEPT ![r].fed = FALSE]
    /\ UNCHANGED <<adapter, holders, window, recent, catalog, cache>>

\* A terminal event, an error, or the end of the adapter's stream.
StreamEnds(r) == At(r, "stream") /\ ~req[r].cancelled /\ Ends(r)

IdleTimeout(r) == At(r, "stream") /\ ~req[r].cancelled /\ ~req[r].fed /\ Wrapped /\ Ends(r)

Cancel(r) ==
    /\ ~At(r, "new") /\ ~At(r, "done") /\ ~req[r].cancelled
    /\ req' = [req EXCEPT ![r].cancelled = TRUE]
    /\ UNCHANGED <<adapter, holders, window, recent, catalog, cache>>

\* Every wait prefers the cancellation to what it waits for.
CancelTaken(r) ==
    /\ req[r].cancelled
    /\ \/ req[r].pc \in {"permit", "sent", "backoff", "stream"}
       \/ At(r, "rate") /\ Cardinality(InWindow) >= RateLimit
    /\ Ends(r)

-----------------------------------------------------------------------------
AtMost(n, limit) == IF n < limit THEN n ELSE limit
Aged(entries) == {[e EXCEPT !.age = AtMost(@ + 1, Window)] : e \in entries}

Tick ==
    /\ window' = Aged(window)
    /\ recent' = YoungerThan(Aged(recent), Window)
    /\ cache' = IF cache = NoEntry THEN cache ELSE [cache EXCEPT !.age = AtMost(@ + 1, MaxStale + 1)]
    /\ UNCHANGED <<adapter, req, holders, catalog>>

Start(r) == StreamChat(r) \/ \E op \in {"prefer", "refresh"} : ListModels(r, op)

Answered(r) ==
    \/ \E outcome \in Refusals \cup LostAnswers : DispatchFails(r, outcome)
    \/ \E models \in Listings : ModelsListed(r, models)
    \/ StreamStarts(r) \/ StreamEvent(r) \/ StreamEnds(r)

Resumed(r) ==
    \/ AcquirePermit(r) \/ AdmitRate(r) \/ BackoffOver(r) \/ NoEventYet(r) \/ IdleTimeout(r)
    \/ CancelTaken(r)
    \/ \E stored \in BOOLEAN : StoreCatalog(r, stored)

Next ==
    \/ \E r \in Requests : Start(r) \/ Answered(r) \/ Resumed(r) \/ Cancel(r)
    \/ Tick

\* Timers fire, and a task that can go on is polled.  Nothing is assumed of the provider, which may
\* stay silent, or go on sending, for ever.
Fairness ==
    /\ WF_vars(Tick)
    /\ \A r \in Requests :
          /\ WF_vars(AcquirePermit(r)) /\ WF_vars(AdmitRate(r))
          /\ WF_vars(BackoffOver(r)) /\ WF_vars(CancelTaken(r))
          /\ WF_vars(NoEventYet(r)) /\ WF_vars(IdleTimeout(r))
          /\ WF_vars(\E stored \in BOOLEAN : StoreCatalog(r, stored))
          /\ WF_vars(DispatchFails(r, "headers_timeout") \/ DispatchFails(r, "deadline"))

Spec == Init /\ [][Next]_vars /\ Fairness

-----------------------------------------------------------------------------
(* Properties. *)

\* A chat request is never dispatched again once the provider may have taken
\* it, however its deadlines, its retries and the adapter's own timeout fall
\* (stream_chat, ReplaySafety::retry_advice, timeout_error).
TakenAtMostOnce ==
    \A r \in Requests : req[r].op = "chat" => req[r].accepted <= 1

\* No window of the configured length sees more requests admitted than the
\* configured number, retries included (admit_rate).
RateWindowRespected == Cardinality(recent) <= RateLimit

\* A wrapped provider never has more dispatches and streams open than permits,
\* through retries, cancellations and timeouts (acquire, limit_stream).
PermitsRespected ==
    Wrapped => Cardinality({r \in Requests : req[r].pc \in {"sent", "stream"}}) <= MaxConcurrency

\* Retries spend neither the provider's patience nor the user's money twice,
\* and take no more of the provider at a time than its policy says.
DispatchIsMetered == TakenAtMostOnce /\ RateWindowRespected /\ PermitsRespected

\* A stream that is never cut off: its provider never stops sending, or, where
\* nothing watches it, never says another word.
NeverCutOff(r) == <>[]At(r, "stream") /\ []<>(Wrapped => req[r].fed)

=============================================================================
