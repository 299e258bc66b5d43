------------------------------ MODULE SseDecoder ------------------------------
(***************************************************************************)
(* The incremental server-sent-event framing of                            *)
(* crates/autoharness-provider/src/sse.rs, and the turn-scoped secret scan *)
(* of secret.rs, as functions on the adapters' state.                      *)
(*                                                                         *)
(* A byte is a record whose kind is "CR", "LF", or "data" or "comment" for *)
(* the content of a data or a comment line.  Secrets are short sequences   *)
(* of letters.  The byte order mark and the other fields of an event are   *)
(* not represented.                                                        *)
(***************************************************************************)
EXTENDS Integers, Sequences, FiniteSets, SequencesExt

LineEnds == {"CR", "LF"}

NewDecoder == [buffer |-> <<>>, content |-> FALSE, carriageReturn |-> FALSE]

\* decode_frame: the data lines of a complete event; none for comments alone.
DataLines(bytes) == SelectSeq(bytes, LAMBDA b : b.kind = "data")

\* A decoder that takes the LF of a CR LF for a line end of its own.
PushEveryLineEnd(decoder, byte, limit) ==
    LET grown == Append(decoder.buffer, byte)
        blank == byte.kind \in LineEnds /\ ~decoder.content
    IN  IF Len(decoder.buffer) = limit
        THEN [decoder |-> decoder, frames |-> <<>>, failed |-> TRUE]
        ELSE [decoder |-> [buffer |-> IF blank THEN <<>> ELSE grown,
                           content |-> byte.kind \notin LineEnds, carriageReturn |-> FALSE],
              frames |-> IF blank /\ DataLines(grown) # <<>> THEN <<DataLines(grown)>> ELSE <<>>,
              failed |-> FALSE]

\* push, one byte: a blank line ends the event; the LF after a CR ends nothing.
Push(decoder, byte, limit) ==
    LET second == byte.kind = "LF" /\ decoder.carriageReturn
        skipped == second /\ decoder.buffer = <<>>
        grown == Append(decoder.buffer, byte)
        blank == ~second /\ byte.kind \in LineEnds /\ ~decoder.content
    IN  IF ~skipped /\ Len(decoder.buffer) = limit
        THEN [decoder |-> decoder, frames |-> <<>>, failed |-> TRUE]
        ELSE [decoder |-> [buffer |-> IF skipped \/ blank THEN <<>> ELSE grown,
                           content |-> IF second THEN decoder.content ELSE byte.kind \notin LineEnds,
                           carriageReturn |-> ~second /\ byte.kind = "CR"],
              frames |-> IF blank /\ DataLines(grown) # <<>> THEN <<DataLines(grown)>> ELSE <<>>,
              failed |-> FALSE]

-----------------------------------------------------------------------------
(* Secrets. *)

OccursAt(secret, text, i) ==
    i + Len(secret) - 1 <= Len(text) /\ SubSeq(text, i, i + Len(secret) - 1) = secret

Holds(text, secret) == \E i \in 1..Len(text) : OccursAt(secret, text, i)

\* redact: every occurrence, from the left, becomes one mark.
Redact(text, secret) ==
    LET rest[i \in 1..(Len(text) + Len(secret))] ==
            CASE i > Len(text) -> <<>>
              [] i <= Len(text) /\ OccursAt(secret, text, i) -> <<"mark">> \o rest[i + Len(secret)]
              [] OTHER -> <<text[i]>> \o rest[i + 1]
    IN  rest[1]

\* A scan that looks at each fragment by itself.
ObserveAlone(tail, text, secret) == [found |-> Holds(text, secret), tail |-> <<>>]

\* observe_text: the fragment after what is left of the earlier ones; one letter
\* less than the secret is kept.
Observe(tail, text, secret) ==
    LET combined == tail \o text
        kept == IF Len(combined) < Len(secret) - 1 THEN Len(combined) ELSE Len(secret) - 1
    IN  [found |-> Holds(combined, secret),
         tail |-> SubSeq(combined, Len(combined) - kept + 1, Len(combined))]

CountOf(text, letter) == Cardinality({i \in 1..Len(text) : text[i] = letter})

\* byte_multiset_contains: the letters of the secret in any order.
MayContain(text, secret) == \A x \in ToSet(secret) : CountOf(secret, x) <= CountOf(text, x)

\* observe_structured
ObserveStructured(tail, text, secret) ==
    IF MayContain(text, secret) THEN [found |-> TRUE, tail |-> tail] ELSE Observe(tail, text, secret)
===============================================================================
