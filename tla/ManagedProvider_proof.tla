----------------------- MODULE ManagedProvider_proof -----------------------
(***************************************************************************)
(* The theorems of the provider management wrapper.  The inductive         *)
(* invariant has three parts: what each state of a request says of its     *)
(* permit and of the dispatches the provider may have taken, the permits,  *)
(* and the request window, which holds what the observer saw admitted      *)
(* within the last window.                                                 *)
(***************************************************************************)
EXTENDS ManagedProvider, FiniteSetTheorems, TLAPS

Pcs == {"new", "permit", "rate", "sent", "backoff", "store", "stream", "done"}
Ops == {"none", "prefer", "refresh", "chat"}
Entries == [models : Listings \cup {"unknown"}, age : Nat]
RequestStates ==
    [op : Ops, pc : Pcs, attempt : Nat, cached : Entries, cancelled : BOOLEAN,
     fed : BOOLEAN, accepted : Nat]
Admissions == [request : Requests, attempt : Nat, age : 0 .. Window]

TypeOK ==
    /\ req \in [Requests -> RequestStates]
    /\ holders \subseteq Requests
    /\ window \subseteq Admissions /\ recent \subseteq Admissions
    /\ catalog \in Listings \cup {"unknown"}
    /\ cache \in Entries

\* A chat request that waits for a dispatch, or for the answer to one, has not
\* been taken by the provider.
Untaken(state) ==
    /\ state.pc # "new" => state.op # "none"
    /\ state.op = "chat" =>
          /\ state.accepted <= 1
          /\ state.pc \in {"permit", "rate", "sent", "backoff"} => state.accepted = 0
    /\ state.pc = "new" => state.accepted = 0

\* A permit is held from its acquisition to the end of the dispatch or stream.
NeedsPermit(state) == state.pc \in {"rate", "sent", "stream"}
PermitsHeld ==
    /\ IsFiniteSet(holders) /\ Cardinality(holders) <= MaxConcurrency
    /\ Wrapped => \A r \in Requests : NeedsPermit(req[r]) => r \in holders

\* The observer and the window agree, and the window is within its limit.
WindowIsExact ==
    /\ recent = InWindow
    /\ IsFiniteSet(recent) /\ Cardinality(recent) <= RateLimit

\* A request is admitted once per dispatch: no admission of the dispatch it
\* waits for is in the window.
AdmittedBefore(state, n) ==
    /\ state.pc # "new"
    /\ state.pc \in {"permit", "rate", "backoff"} => n < state.attempt
    /\ state.pc = "sent" => n <= state.attempt
OneAdmissionPerDispatch == \A e \in window : AdmittedBefore(req[e.request], e.attempt)

IInv ==
    /\ TypeOK
    /\ \A r \in Requests : Untaken(req[r])
    /\ PermitsHeld
    /\ WindowIsExact
    /\ OneAdmissionPerDispatch

-----------------------------------------------------------------------------

\* What is left of a request.
LEMMA ReturnedState ==
  ASSUME NEW state \in RequestStates, NEW n \in Nat
  PROVE  /\ Returned(state, n) \in RequestStates
         /\ Returned(state, n).op = state.op
         /\ Returned(state, n).pc = "done"
         /\ Returned(state, n).accepted = n
  BY DEF Returned, NewRequest, NoEntry, RequestStates, Pcs, Ops, Entries, Listings

\* The idle deadline of a stream tells nothing else about it.
LEMMA FedState ==
  ASSUME NEW state \in RequestStates, NEW b \in BOOLEAN, Untaken(state)
  PROVE  LET other == [state EXCEPT !.fed = b]
         IN  /\ other \in RequestStates /\ Untaken(other)
             /\ NeedsPermit(other) => NeedsPermit(state)
             /\ \A n \in Nat : AdmittedBefore(state, n) => AdmittedBefore(other, n)
<1> DEFINE other == [state EXCEPT !.fed = b]
<1>1. /\ other \in RequestStates /\ other.op = state.op /\ other.pc = state.pc
      /\ other.accepted = state.accepted /\ other.attempt = state.attempt
  BY DEF RequestStates
<1> HIDE DEF other
<1>2. /\ other \in RequestStates /\ Untaken(other)
      /\ NeedsPermit(other) => NeedsPermit(state)
      /\ \A n \in Nat : AdmittedBefore(state, n) => AdmittedBefore(other, n)
  BY <1>1 DEF Untaken, NeedsPermit, AdmittedBefore
<1> QED
  BY <1>2 DEF other

\* A request moves on, gives its permit back or keeps it, and is admitted to
\* nothing.
LEMMA RequestMoves ==
  ASSUME IInv, NEW r \in Requests, NEW state \in RequestStates, req' = [req EXCEPT ![r] = state],
         Untaken(state), holders' = holders \/ holders' = holders \ {r},
         Wrapped /\ NeedsPermit(state) => NeedsPermit(req[r]) /\ holders' = holders,
         \A n \in Nat : AdmittedBefore(req[r], n) => AdmittedBefore(state, n),
         UNCHANGED <<adapter, window, recent>>, catalog' \in Listings \cup {"unknown"}, cache' \in Entries
  PROVE  IInv'
<1> USE DEF IInv
<1>1. req'[r] = state /\ \A q \in Requests \ {r} : req'[q] = req[q]
  BY DEF TypeOK
<1>2. TypeOK'
  BY DEF TypeOK
<1>3. \A q \in Requests : Untaken(req[q])'
  <2> SUFFICES ASSUME NEW q \in Requests PROVE Untaken(req'[q])
    BY DEF Untaken
  <2>1. Untaken(req[q])
    OBVIOUS
  <2> QED
    BY <1>1, <2>1
<1>4. PermitsHeld'
  <2>1. IsFiniteSet(holders') /\ Cardinality(holders') <= Cardinality(holders)
    BY FS_Subset DEF PermitsHeld
  <2>2. Cardinality(holders') <= MaxConcurrency
    BY <2>1, FS_CardinalityType, PolicyAssumption DEF PermitsHeld
  <2>3. ASSUME Wrapped, NEW q \in Requests, NeedsPermit(req'[q]) PROVE q \in holders'
    <3>1. CASE q = r
      BY <1>1, <2>3, <3>1 DEF PermitsHeld
    <3>2. CASE q # r
      BY <1>1, <2>3, <3>2 DEF PermitsHeld
    <3> QED
      BY <3>1, <3>2
  <2> QED
    BY <2>1, <2>2, <2>3 DEF PermitsHeld, NeedsPermit, Wrapped
<1>5. WindowIsExact'
  BY DEF WindowIsExact, InWindow, YoungerThan
<1>6. OneAdmissionPerDispatch'
  <2> SUFFICES ASSUME NEW e \in window PROVE AdmittedBefore(req'[e.request], e.attempt)
    BY DEF OneAdmissionPerDispatch, AdmittedBefore
  <2>1. AdmittedBefore(req[e.request], e.attempt) /\ e.request \in Requests /\ e.attempt \in Nat
    BY DEF OneAdmissionPerDispatch, TypeOK, Admissions
  <2> QED
    BY <1>1, <2>1
<1> QED
  BY <1>2, <1>3, <1>4, <1>5, <1>6

\* A request that has returned needs nothing any more.
LEMMA RequestEnds ==
  ASSUME IInv, NEW r \in Requests, NEW n \in Nat, req' = [req EXCEPT ![r] = Returned(req[r], n)],
         req[r].pc # "new", req[r].op = "chat" => n <= 1, holders' = holders \/ holders' = holders \ {r},
         UNCHANGED <<adapter, window, recent>>, catalog' \in Listings \cup {"unknown"}, cache' \in Entries
  PROVE  IInv'
<1> DEFINE state == Returned(req[r], n)
<1>1. req[r] \in RequestStates
  BY DEF IInv, TypeOK
<1>2. state \in RequestStates /\ state.op = req[r].op /\ state.pc = "done" /\ state.accepted = n
  BY <1>1, ReturnedState
<1>3. Untaken(state) /\ ~NeedsPermit(state) /\ \A m \in Nat : AdmittedBefore(state, m)
  BY <1>2 DEF IInv, Untaken, NeedsPermit, AdmittedBefore
<1> HIDE DEF state
<1> QED
  BY <1>2, <1>3, RequestMoves DEF state

-----------------------------------------------------------------------------
(* The steps of a request.                                                 *)

\* The start of a request.
LEMMA StartStep ==
  ASSUME IInv, NEW r \in Requests, Start(r)
  PROVE  IInv'
<1>0. TypeOK /\ req[r] \in RequestStates /\ Untaken(req[r])
  BY DEF IInv, TypeOK
<1>w. FirstWait \in {"permit", "sent"} /\ (Wrapped => FirstWait = "permit")
  BY DEF FirstWait
<1>a. At(r, "new") => \A n \in Nat : ~AdmittedBefore(req[r], n)
  BY DEF At, AdmittedBefore
<1>1. CASE StreamChat(r)
  <2> DEFINE pc == IF Wrapped /\ catalog = "unsupported" THEN "done" ELSE FirstWait
             state == [req[r] EXCEPT !.op = "chat", !.pc = pc]
  <2>1. req' = [req EXCEPT ![r] = state]
    BY <1>0, <1>1 DEF StreamChat, RequestStates, TypeOK
  <2>2. state \in RequestStates /\ state.op = "chat" /\ state.pc = pc /\ state.accepted = 0
    BY <1>0, <1>w, <1>1 DEF StreamChat, RequestStates, Ops, Pcs, At, Untaken
  <2>3. Untaken(state) /\ ~(Wrapped /\ NeedsPermit(state))
    BY <1>w, <2>2 DEF Untaken, NeedsPermit
  <2> HIDE DEF state
  <2> QED
    BY <1>0, <1>a, <1>1, <2>1, <2>2, <2>3, RequestMoves DEF StreamChat, TypeOK
<1>2. ASSUME NEW op \in {"prefer", "refresh"}, ListModels(r, op) PROVE IInv'
  <2>1. CASE Wrapped /\ op = "prefer" /\ Usable(cache, RefreshAfter)
    <3> DEFINE asked == [req[r] EXCEPT !.op = op]
               state == Returned(asked, 0)
    <3>1. req' = [req EXCEPT ![r] = state] /\ catalog' = cache.models
      BY <1>2, <2>1 DEF ListModels
    <3>2. asked \in RequestStates /\ asked.op = op
      BY <1>0 DEF RequestStates, Ops
    <3>3. state \in RequestStates /\ state.op = op /\ state.pc = "done" /\ state.accepted = 0
      BY <3>2, ReturnedState
    <3>4. Untaken(state) /\ ~NeedsPermit(state)
      BY <3>3 DEF Untaken, NeedsPermit
    <3>5. catalog' \in Listings \cup {"unknown"}
      BY <1>0, <3>1 DEF TypeOK, Entries
    <3> HIDE DEF state
    <3> QED
      BY <1>0, <1>a, <1>2, <3>1, <3>3, <3>4, <3>5, RequestMoves DEF ListModels, TypeOK
  <2>2. CASE ~(Wrapped /\ op = "prefer" /\ Usable(cache, RefreshAfter))
    <3> DEFINE state == [req[r] EXCEPT !.op = op, !.pc = FirstWait, !.cached = cache]
    <3>1. req' = [req EXCEPT ![r] = state] /\ UNCHANGED catalog
      BY <1>0, <1>2, <2>2 DEF ListModels, RequestStates, TypeOK
    <3>2. state \in RequestStates /\ state.op = op /\ state.pc = FirstWait
      BY <1>0, <1>w DEF RequestStates, Ops, Pcs, TypeOK
    <3>3. Untaken(state) /\ ~(Wrapped /\ NeedsPermit(state))
      BY <1>w, <3>2 DEF Untaken, NeedsPermit
    <3> HIDE DEF state
    <3> QED
      BY <1>0, <1>a, <1>2, <3>1, <3>2, <3>3, RequestMoves DEF ListModels, TypeOK
  <2> QED
    BY <2>1, <2>2
<1> QED
  BY <1>1, <1>2 DEF Start

\* The end of a dispatch, and of a stream.
LEMMA AnsweredStep ==
  ASSUME IInv, NEW r \in Requests, Answered(r)
  PROVE  IInv'
<1>0. TypeOK /\ req[r] \in RequestStates /\ Untaken(req[r])
  BY DEF IInv, TypeOK
<1>1. ASSUME NEW outcome \in Refusals \cup LostAnswers, DispatchFails(r, outcome) PROVE IInv'
  <2> DEFINE retries == Wrapped /\ req[r].attempt + 1 < Attempts(req[r].op) /\ Retryable(req[r].op, outcome)
             taken == req[r].accepted + (IF outcome \in LostAnswers THEN 1 ELSE 0)
  <2>1. taken \in Nat /\ (req[r].op = "chat" => taken <= 1) /\ req[r].pc = "sent"
    BY <1>0, <1>1 DEF DispatchFails, At, RequestStates, Untaken
  <2>2. /\ req' = [req EXCEPT ![r] = IF retries
                      THEN [req[r] EXCEPT !.pc = "backoff", !.attempt = req[r].attempt + 1,
                                          !.accepted = taken]
                      ELSE Returned(req[r], taken)]
        /\ holders' = holders \ {r} /\ UNCHANGED <<adapter, window, recent, cache>>
        /\ catalog' = req[r].cached.models \/ catalog' = catalog
    BY <1>1 DEF DispatchFails, Freed
  <2>3. catalog' \in Listings \cup {"unknown"} /\ cache' \in Entries
    BY <1>0, <2>2 DEF TypeOK, RequestStates, Entries
  <2>4. CASE retries
    <3> DEFINE count == req[r].attempt + 1
               state == [req[r] EXCEPT !.pc = "backoff", !.attempt = count, !.accepted = taken]
    <3>1. req' = [req EXCEPT ![r] = state]
      BY <1>0, <2>2, <2>4 DEF TypeOK, RequestStates
    <3>a. count \in Nat /\ count = req[r].attempt + 1
      BY <1>0 DEF RequestStates
    <3>2. /\ state \in RequestStates /\ state.op = req[r].op /\ state.pc = "backoff"
          /\ state.attempt = req[r].attempt + 1 /\ state.accepted = taken
      <4> HIDE DEF count, taken
      <4> QED
        BY <1>0, <2>1, <3>a DEF RequestStates, Pcs
    <3>3. req[r].op = "chat" => taken = 0
      BY <1>0, <2>1, <2>4 DEF Retryable, RetryLost, LostAnswers, Untaken
    <3>4. Untaken(state) /\ ~NeedsPermit(state)
      BY <1>0, <2>1, <3>2, <3>3 DEF Untaken, NeedsPermit
    <3>5. \A n \in Nat : AdmittedBefore(req[r], n) => AdmittedBefore(state, n)
      BY <1>0, <2>1, <3>2 DEF AdmittedBefore, RequestStates
    <3> HIDE DEF state, taken, retries
    <3> QED
      BY <2>2, <2>3, <3>1, <3>2, <3>4, <3>5, RequestMoves
  <2>5. CASE ~retries
    <3>1. req' = [req EXCEPT ![r] = Returned(req[r], taken)]
      BY <1>0, <2>2, <2>5 DEF TypeOK
    <3> HIDE DEF taken, retries
    <3> QED
      BY <2>1, <2>2, <2>3, <3>1, RequestEnds
  <2> QED
    BY <2>4, <2>5
<1>2. ASSUME NEW models \in Listings, ModelsListed(r, models) PROVE IInv'
  <2>1. /\ req[r].pc = "sent" /\ req[r].op # "chat" /\ req[r].op # "none" /\ req[r].accepted \in Nat
        /\ holders' = holders \ {r} /\ UNCHANGED <<adapter, window, recent, cache>>
        /\ catalog' \in Listings \cup {"unknown"} /\ cache' \in Entries
    BY <1>0, <1>2 DEF ModelsListed, At, TypeOK, Untaken, RequestStates
  <2>2. CASE Wrapped
    <3> DEFINE state == [req[r] EXCEPT !.pc = "store", !.cached = [models |-> models, age |-> 0]]
    <3>1. req' = [req EXCEPT ![r] = state]
      BY <1>0, <1>2, <2>2 DEF ModelsListed, TypeOK
    <3>2. state \in RequestStates /\ state.op = req[r].op /\ state.pc = "store"
      BY <1>0 DEF RequestStates, Pcs, Entries
    <3>3. Untaken(state) /\ ~NeedsPermit(state) /\ \A n \in Nat : AdmittedBefore(state, n)
      BY <2>1, <3>2 DEF Untaken, NeedsPermit, AdmittedBefore
    <3> HIDE DEF state
    <3> QED
      BY <2>1, <3>1, <3>2, <3>3, RequestMoves
  <2>3. CASE ~Wrapped
    <3>1. req' = [req EXCEPT ![r] = Returned(req[r], req[r].accepted)]
      BY <1>0, <1>2, <2>3 DEF ModelsListed, TypeOK
    <3> QED
      BY <2>1, <3>1, RequestEnds
  <2> QED
    BY <2>2, <2>3
<1>3. CASE StreamStarts(r)
  <2> DEFINE state == [req[r] EXCEPT !.pc = "stream", !.accepted = 1]
  <2>1. /\ req[r].pc = "sent" /\ req[r].op = "chat" /\ req[r].accepted = 0
        /\ UNCHANGED <<adapter, holders, window, recent, catalog, cache>>
    BY <1>0, <1>3 DEF StreamStarts, At, Untaken
  <2>2. req' = [req EXCEPT ![r] = state]
    BY <1>0, <1>3, <2>1 DEF StreamStarts, TypeOK, RequestStates
  <2>3. state \in RequestStates /\ state.op = "chat" /\ state.pc = "stream" /\ state.accepted = 1
    BY <1>0, <2>1 DEF RequestStates, Pcs
  <2>4. /\ Untaken(state) /\ NeedsPermit(req[r])
        /\ \A n \in Nat : AdmittedBefore(state, n)
    BY <2>1, <2>3 DEF Untaken, NeedsPermit, AdmittedBefore
  <2> HIDE DEF state
  <2> QED
    BY <1>0, <2>1, <2>2, <2>3, <2>4, RequestMoves DEF TypeOK
<1>5. CASE StreamEvent(r)
  <2> DEFINE state == [req[r] EXCEPT !.fed = TRUE]
  <2>1. req' = [req EXCEPT ![r] = state] /\ UNCHANGED <<adapter, holders, window, recent, catalog, cache>>
    BY <1>0, <1>5 DEF StreamEvent, TypeOK
  <2> HIDE DEF state
  <2> QED
    BY <1>0, <2>1, FedState, RequestMoves DEF TypeOK, state
<1>4. CASE StreamEnds(r)
  <2>1. req[r].pc = "stream" /\ req[r].accepted \in Nat /\ (req[r].op = "chat" => req[r].accepted <= 1)
    BY <1>0, <1>4 DEF StreamEnds, At, Untaken, RequestStates
  <2>2. req' = [req EXCEPT ![r] = Returned(req[r], req[r].accepted)]
    BY <1>0, <1>4 DEF StreamEnds, Ends, TypeOK
  <2> QED
    BY <1>0, <1>4, <2>1, <2>2, RequestEnds DEF StreamEnds, Ends, TypeOK
<1> QED
  BY <1>1, <1>2, <1>3, <1>4, <1>5 DEF Answered

\* A permit is taken while there is one.
LEMMA PermitStep ==
  ASSUME IInv, NEW r \in Requests, AcquirePermit(r)
  PROVE  IInv'
<1> USE DEF IInv
<1>0. TypeOK /\ req[r] \in RequestStates /\ Untaken(req[r])
  BY DEF TypeOK
<1> DEFINE state == [req[r] EXCEPT !.pc = "rate"]
<1>1. /\ req' = [req EXCEPT ![r] = state] /\ req[r].pc = "permit"
      /\ holders' = holders \cup {r} /\ Cardinality(holders) < MaxConcurrency
      /\ UNCHANGED <<adapter, window, recent, catalog, cache>>
  BY <1>0 DEF AcquirePermit, At, TypeOK
<1>2. /\ state \in RequestStates /\ state.op = req[r].op /\ state.pc = "rate"
      /\ state.accepted = req[r].accepted /\ state.attempt = req[r].attempt
  BY <1>0 DEF RequestStates, Pcs
<1>3. Untaken(state) /\ \A n \in Nat : AdmittedBefore(req[r], n) => AdmittedBefore(state, n)
  BY <1>0, <1>1, <1>2 DEF Untaken, AdmittedBefore
<1> HIDE DEF state
<1>4. req'[r] = state /\ \A q \in Requests \ {r} : req'[q] = req[q]
  BY <1>0, <1>1 DEF TypeOK
<1>5. TypeOK'
  BY <1>1, <1>2 DEF TypeOK
<1>6. \A q \in Requests : Untaken(req[q])'
  <2> SUFFICES ASSUME NEW q \in Requests PROVE Untaken(req'[q])
    BY DEF Untaken
  <2> QED
    BY <1>3, <1>4
<1>7. PermitsHeld'
  <2>0. IsFiniteSet(holders) /\ Cardinality(holders) \in Nat
    BY FS_CardinalityType DEF PermitsHeld
  <2>1. /\ IsFiniteSet(holders')
        /\ Cardinality(holders') = Cardinality(holders) \/ Cardinality(holders') = Cardinality(holders) + 1
    <3>1. IsFiniteSet(holders \cup {r})
      BY <2>0, FS_AddElement
    <3>2. Cardinality(holders \cup {r}) = IF r \in holders THEN Cardinality(holders) ELSE Cardinality(holders) + 1
      BY <2>0, FS_AddElement
    <3> QED
      BY <1>1, <3>1, <3>2
  <2>2. Cardinality(holders') <= MaxConcurrency
    BY <1>1, <2>0, <2>1, PolicyAssumption
  <2>3. ASSUME Wrapped, NEW q \in Requests, NeedsPermit(req'[q]) PROVE q \in holders'
    BY <1>1, <1>4, <2>3 DEF PermitsHeld
  <2> QED
    BY <1>1, <2>1, <2>2, <2>3 DEF PermitsHeld, NeedsPermit, Wrapped
<1>8. WindowIsExact'
  BY <1>1 DEF WindowIsExact, InWindow, YoungerThan
<1>9. OneAdmissionPerDispatch'
  <2> SUFFICES ASSUME NEW e \in window PROVE AdmittedBefore(req'[e.request], e.attempt)
    BY <1>1 DEF OneAdmissionPerDispatch, AdmittedBefore
  <2>1. AdmittedBefore(req[e.request], e.attempt) /\ e.request \in Requests /\ e.attempt \in Nat
    BY DEF OneAdmissionPerDispatch, TypeOK, Admissions
  <2> QED
    BY <1>3, <1>4, <2>1
<1> QED
  BY <1>5, <1>6, <1>7, <1>8, <1>9

\* A place in the window is taken while there is one.
LEMMA AdmitStep ==
  ASSUME IInv, NEW r \in Requests, AdmitRate(r)
  PROVE  IInv'
<1> USE DEF IInv
<1>0. TypeOK /\ req[r] \in RequestStates /\ Untaken(req[r])
  BY DEF TypeOK
<1> DEFINE state == [req[r] EXCEPT !.pc = "sent"]
           new == Admission(r)
<1>1. /\ req' = [req EXCEPT ![r] = state] /\ req[r].pc = "rate" /\ Cardinality(InWindow) < RateLimit
      /\ window' = InWindow \cup {new} /\ recent' = recent \cup {new}
      /\ UNCHANGED <<adapter, holders, catalog, cache>>
  BY <1>0 DEF AdmitRate, At, TypeOK
<1>2. /\ state \in RequestStates /\ state.op = req[r].op /\ state.pc = "sent"
      /\ state.accepted = req[r].accepted /\ state.attempt = req[r].attempt
  BY <1>0 DEF RequestStates, Pcs
<1>3. Untaken(state) /\ \A n \in Nat : AdmittedBefore(req[r], n) => AdmittedBefore(state, n)
  BY <1>0, <1>1, <1>2 DEF Untaken, AdmittedBefore, RequestStates
<1>4. new \in Admissions /\ new.request = r /\ new.attempt = req[r].attempt /\ new.age = 0 /\ 0 < Window
  BY <1>0, PolicyAssumption DEF Admission, Admissions, RequestStates
<1> HIDE DEF state, new
<1>5. req'[r] = state /\ \A q \in Requests \ {r} : req'[q] = req[q]
  BY <1>0, <1>1 DEF TypeOK
<1>6. TypeOK'
  BY <1>1, <1>2, <1>4 DEF TypeOK, InWindow, YoungerThan
<1>7. \A q \in Requests : Untaken(req[q])'
  <2> SUFFICES ASSUME NEW q \in Requests PROVE Untaken(req'[q])
    BY DEF Untaken
  <2> QED
    BY <1>3, <1>5
<1>8. PermitsHeld'
  <2>1. ASSUME Wrapped, NEW q \in Requests, NeedsPermit(req'[q]) PROVE q \in holders'
    <3>1. NeedsPermit(req[r])
      BY <1>1 DEF NeedsPermit
    <3> QED
      BY <1>1, <1>5, <2>1, <3>1 DEF PermitsHeld
  <2> QED
    BY <1>1, <2>1 DEF PermitsHeld, NeedsPermit, Wrapped
<1>9. WindowIsExact'
  <2>1. InWindow' = InWindow \cup {new} /\ recent = InWindow
    BY <1>1, <1>4 DEF InWindow, YoungerThan, WindowIsExact
  <2>2. IsFiniteSet(recent') /\ Cardinality(recent') <= Cardinality(recent) + 1 /\ Cardinality(recent) \in Nat
        /\ Cardinality(recent') \in Nat
    <3>1. IsFiniteSet(recent) /\ recent' = recent \cup {new}
      BY <1>1 DEF WindowIsExact
    <3>2. /\ IsFiniteSet(recent \cup {new})
          /\ Cardinality(recent \cup {new}) = Cardinality(recent) \/ Cardinality(recent \cup {new}) = Cardinality(recent) + 1
      BY <3>1, FS_AddElement
    <3>3. Cardinality(recent) \in Nat /\ Cardinality(recent \cup {new}) \in Nat
      BY <3>1, <3>2, FS_CardinalityType
    <3> QED
      BY <3>1, <3>2, <3>3
  <2> QED
    BY <1>1, <2>1, <2>2, PolicyAssumption DEF WindowIsExact
<1>10. OneAdmissionPerDispatch'
  <2> SUFFICES ASSUME NEW e \in window' PROVE AdmittedBefore(req'[e.request], e.attempt)
    BY DEF OneAdmissionPerDispatch, AdmittedBefore
  <2>1. CASE e \in window
    <3>1. AdmittedBefore(req[e.request], e.attempt) /\ e.request \in Requests /\ e.attempt \in Nat
      BY <2>1 DEF OneAdmissionPerDispatch, TypeOK, Admissions
    <3> QED
      BY <1>3, <1>5, <3>1
  <2>2. CASE e = new
    BY <1>0, <1>2, <1>4, <1>5, <2>2 DEF AdmittedBefore, RequestStates
  <2> QED
    BY <1>1, <2>1, <2>2 DEF InWindow, YoungerThan
<1> QED
  BY <1>6, <1>7, <1>8, <1>9, <1>10

\* The other waits of a request, and its cancellation.
LEMMA ResumedStep ==
  ASSUME IInv, NEW r \in Requests, Resumed(r) \/ Cancel(r)
  PROVE  IInv'
<1>0. TypeOK /\ req[r] \in RequestStates /\ Untaken(req[r])
  BY DEF IInv, TypeOK
<1>e. ASSUME Ends(r), req[r].pc # "new" PROVE IInv'
  <2>1. req' = [req EXCEPT ![r] = Returned(req[r], req[r].accepted)]
    BY <1>0, <1>e DEF Ends, TypeOK
  <2>2. req[r].accepted \in Nat /\ (req[r].op = "chat" => req[r].accepted <= 1)
    BY <1>0 DEF RequestStates, Untaken
  <2> QED
    BY <1>0, <1>e, <2>1, <2>2, RequestEnds DEF Ends, TypeOK
<1>1. CASE BackoffOver(r)
  <2> DEFINE state == [req[r] EXCEPT !.pc = "permit"]
  <2>1. /\ req' = [req EXCEPT ![r] = state] /\ req[r].pc = "backoff"
        /\ UNCHANGED <<adapter, holders, window, recent, catalog, cache>>
    BY <1>0, <1>1 DEF BackoffOver, At, TypeOK
  <2>2. /\ state \in RequestStates /\ state.op = req[r].op /\ state.pc = "permit"
        /\ state.accepted = req[r].accepted /\ state.attempt = req[r].attempt
    BY <1>0 DEF RequestStates, Pcs
  <2>3. /\ Untaken(state) /\ ~NeedsPermit(state)
        /\ \A n \in Nat : AdmittedBefore(req[r], n) => AdmittedBefore(state, n)
    BY <1>0, <2>1, <2>2 DEF Untaken, NeedsPermit, AdmittedBefore
  <2> HIDE DEF state
  <2> QED
    BY <1>0, <2>1, <2>2, <2>3, RequestMoves DEF TypeOK
<1>6. CASE NoEventYet(r)
  <2> DEFINE state == [req[r] EXCEPT !.fed = FALSE]
  <2>1. req' = [req EXCEPT ![r] = state] /\ UNCHANGED <<adapter, holders, window, recent, catalog, cache>>
    BY <1>0, <1>6 DEF NoEventYet, TypeOK
  <2> HIDE DEF state
  <2> QED
    BY <1>0, <2>1, FedState, RequestMoves DEF TypeOK, state
<1>2. CASE IdleTimeout(r)
  BY <1>2, <1>e DEF IdleTimeout, At
<1>3. CASE CancelTaken(r)
  BY <1>3, <1>e DEF CancelTaken, At
<1>4. ASSUME NEW stored \in BOOLEAN, StoreCatalog(r, stored) PROVE IInv'
  <2>1. /\ req' = [req EXCEPT ![r] = Returned(req[r], req[r].accepted)] /\ req[r].pc = "store"
        /\ cache' \in Entries /\ UNCHANGED <<adapter, holders, window, recent, catalog>>
    BY <1>0, <1>4 DEF StoreCatalog, At, TypeOK, RequestStates
  <2>2. req[r].accepted \in Nat /\ (req[r].op = "chat" => req[r].accepted <= 1)
    BY <1>0 DEF RequestStates, Untaken
  <2> QED
    BY <1>0, <2>1, <2>2, RequestEnds DEF TypeOK
<1>5. CASE Cancel(r)
  <2> DEFINE state == [req[r] EXCEPT !.cancelled = TRUE]
  <2>1. req' = [req EXCEPT ![r] = state] /\ UNCHANGED <<adapter, holders, window, recent, catalog, cache>>
    BY <1>0, <1>5 DEF Cancel, TypeOK
  <2>2. /\ state \in RequestStates /\ state.op = req[r].op /\ state.pc = req[r].pc
        /\ state.accepted = req[r].accepted /\ state.attempt = req[r].attempt
    BY <1>0 DEF RequestStates
  <2>3. /\ Untaken(state) /\ (NeedsPermit(state) => NeedsPermit(req[r]))
        /\ \A n \in Nat : AdmittedBefore(req[r], n) => AdmittedBefore(state, n)
    BY <1>0, <2>2 DEF Untaken, NeedsPermit, AdmittedBefore
  <2> HIDE DEF state
  <2> QED
    BY <1>0, <2>1, <2>2, <2>3, RequestMoves DEF TypeOK
<1> QED
  BY <1>1, <1>2, <1>3, <1>4, <1>5, <1>6, PermitStep, AdmitStep DEF Resumed

\* Time passes: an admission leaves the observer's window when it leaves the
\* provider's.
LEMMA TickStep ==
  ASSUME IInv, Tick
  PROVE  IInv'
<1> USE DEF IInv
<1> DEFINE Older(e) == [e EXCEPT !.age = AtMost(@ + 1, Window)]
<1>1. /\ UNCHANGED <<adapter, req, holders, catalog>> /\ window' = Aged(window)
      /\ recent' = YoungerThan(Aged(recent), Window)
  BY DEF Tick
<1>2. \A e \in Admissions :
         /\ Older(e) \in Admissions /\ Older(e).request = e.request /\ Older(e).attempt = e.attempt
         /\ Older(e).age < Window => e.age < Window
  BY PolicyAssumption DEF Admissions, AtMost
<1>3. \A S : Aged(S) = {Older(e) : e \in S}
  BY DEF Aged
<1> HIDE DEF Older
<1>4. cache' \in Entries
  BY PolicyAssumption DEF Tick, TypeOK, Entries, AtMost, NoEntry
<1>5. TypeOK'
  BY <1>1, <1>2, <1>3, <1>4 DEF TypeOK, YoungerThan
<1>6. WindowIsExact'
  <2>1. recent' = InWindow'
    BY <1>1, <1>2, <1>3 DEF TypeOK, WindowIsExact, InWindow, YoungerThan
  <2>2. IsFiniteSet(Aged(recent)) /\ Cardinality(Aged(recent)) <= Cardinality(recent)
    <3> DEFINE f == [e \in recent |-> Older(e)]
    <3>1. f \in Surjection(recent, Aged(recent))
      BY <1>3 DEF Surjection
    <3> HIDE DEF f
    <3> QED
      BY <3>1, FS_Surjection DEF WindowIsExact
  <2>3. IsFiniteSet(recent') /\ Cardinality(recent') <= Cardinality(Aged(recent))
    BY <1>1, <2>2, FS_Subset DEF YoungerThan
  <2>4. Cardinality(recent') \in Nat /\ Cardinality(Aged(recent)) \in Nat /\ Cardinality(recent) \in Nat
    BY <2>2, <2>3, FS_CardinalityType DEF WindowIsExact
  <2> QED
    BY <2>1, <2>2, <2>3, <2>4, PolicyAssumption DEF WindowIsExact
<1>7. OneAdmissionPerDispatch'
  <2> SUFFICES ASSUME NEW e \in window' PROVE AdmittedBefore(req[e.request], e.attempt)
    BY <1>1 DEF OneAdmissionPerDispatch, AdmittedBefore
  <2>1. PICK d \in window : e = Older(d)
    BY <1>1, <1>3
  <2> QED
    BY <1>2, <2>1 DEF OneAdmissionPerDispatch, TypeOK
<1> QED
  BY <1>1, <1>5, <1>6, <1>7 DEF PermitsHeld, Wrapped, NeedsPermit, Untaken

-----------------------------------------------------------------------------
(* The theorems.                                                           *)

\* The first state of the wrapper.
LEMMA InitStep == Init => IInv
<1> SUFFICES ASSUME Init PROVE IInv
  OBVIOUS
<1> USE DEF Init
<1>1. NewRequest \in RequestStates /\ NewRequest.pc = "new" /\ NewRequest.op = "none" /\ NewRequest.accepted = 0
  BY DEF NewRequest, RequestStates, Ops, Pcs, Entries, NoEntry
<1>2. TypeOK
  BY <1>1, PolicyAssumption DEF TypeOK, Entries, NoEntry
<1>3. \A r \in Requests : Untaken(req[r]) /\ ~NeedsPermit(req[r])
  BY <1>1 DEF Untaken, NeedsPermit
<1>4. PermitsHeld
  BY <1>3, FS_EmptySet, PolicyAssumption DEF PermitsHeld
<1>5. WindowIsExact /\ OneAdmissionPerDispatch
  BY FS_EmptySet, PolicyAssumption DEF WindowIsExact, InWindow, YoungerThan, OneAdmissionPerDispatch
<1> QED
  BY <1>2, <1>3, <1>4, <1>5 DEF IInv

\* The invariant of the wrapper: what a request's state says of its permit, of
\* its dispatches and of its place in the window.
THEOREM ProviderInvariant == Spec => []IInv
<1>1. IInv /\ [Next]_vars => IInv'
  <2> SUFFICES ASSUME IInv, [Next]_vars PROVE IInv'
    OBVIOUS
  <2>1. CASE UNCHANGED vars
    BY <2>1 DEF vars, IInv, TypeOK, Untaken, PermitsHeld, Wrapped, NeedsPermit, WindowIsExact, InWindow, YoungerThan,
                OneAdmissionPerDispatch, AdmittedBefore
  <2>2. CASE Next
    BY <2>2, StartStep, AnsweredStep, ResumedStep, TickStep DEF Next
  <2> QED
    BY <2>1, <2>2
<1> QED
  BY <1>1, InitStep, PTL DEF Spec

\* For any number of requests, any policy and any behaviour of the provider: a
\* chat request is not dispatched again once the provider may have taken it, no
\* window sees more admissions than the limit, and no more dispatches and
\* streams are open than permits.
THEOREM DispatchSafe == Spec => []DispatchIsMetered
<1>1. IInv => DispatchIsMetered
  <2> SUFFICES ASSUME IInv PROVE TakenAtMostOnce /\ RateWindowRespected /\ PermitsRespected
    BY DEF DispatchIsMetered
  <2>1. TakenAtMostOnce /\ RateWindowRespected
    BY DEF IInv, TakenAtMostOnce, RateWindowRespected, Untaken, WindowIsExact
  <2>2. ASSUME Wrapped
        PROVE  Cardinality({r \in Requests : req[r].pc \in {"sent", "stream"}}) <= MaxConcurrency
    <3> DEFINE open == {r \in Requests : req[r].pc \in {"sent", "stream"}}
    <3>1. open \subseteq holders
      BY <2>2 DEF IInv, PermitsHeld, NeedsPermit
    <3>2. IsFiniteSet(holders) /\ Cardinality(holders) <= MaxConcurrency /\ Cardinality(holders) \in Nat
      BY FS_CardinalityType DEF IInv, PermitsHeld
    <3> HIDE DEF open
    <3>3. IsFiniteSet(open) /\ Cardinality(open) <= Cardinality(holders)
      BY <3>1, <3>2, FS_Subset
    <3>4. Cardinality(open) <= MaxConcurrency
      BY <3>2, <3>3, FS_CardinalityType, PolicyAssumption
    <3> QED
      BY <3>4 DEF open
  <2> QED
    BY <2>1, <2>2 DEF PermitsRespected
<1> QED
  BY <1>1, ProviderInvariant, PTL

\* Every dispatch has an admission of its own, so that the window counts each
\* retry: what admit_rate adds was not there before.
THEOREM EveryDispatchIsCounted ==
  Spec => [][\A r \in Requests : AdmitRate(r) => Admission(r) \notin window \cup recent]_vars
<1>1. IInv => \A r \in Requests : AdmitRate(r) => Admission(r) \notin window \cup recent
  <2> SUFFICES ASSUME IInv, NEW r \in Requests, AdmitRate(r), Admission(r) \in window \cup recent PROVE FALSE
    OBVIOUS
  <2>1. req[r].pc = "rate" /\ req[r].attempt \in Nat
    BY DEF AdmitRate, At, IInv, TypeOK, RequestStates
  <2>2. Admission(r) \in window
    BY DEF IInv, WindowIsExact, InWindow, YoungerThan
  <2>3. AdmittedBefore(req[Admission(r).request], Admission(r).attempt)
    BY <2>2 DEF IInv, OneAdmissionPerDispatch
  <2> QED
    BY <2>1, <2>3 DEF Admission, AdmittedBefore
<1> QED
  BY <1>1, ProviderInvariant, PTL DEF Spec
=============================================================================
