----------------------------- MODULE CommandLog -----------------------------
(***************************************************************************)
(* What the durable engine promises its callers: a command takes effect at *)
(* most once, however often it is sent; the caller may be left without an  *)
(* answer, but is never told of an effect that did not happen; and after a *)
(* session was deleted none of its commands takes effect.                  *)
(***************************************************************************)
CONSTANTS Sessions, Tags

\* A command identity is generated for one command of one session.
Commands == Sessions \X Tags

VARIABLES
    done, \* commands that took effect
    told, \* commands whose success was reported
    gone  \* deleted sessions

Init ==
    /\ done = {}
    /\ told = {}
    /\ gone = {}

Do(c) ==
    /\ c \in Commands \ done
    /\ c[1] \notin gone
    /\ done' = done \cup {c}
    /\ told' \in {told, told \cup {c}}
    /\ UNCHANGED gone

Drop(s) ==
    /\ gone' = gone \cup {s}
    /\ UNCHANGED <<done, told>>

Next ==
    \/ \E c \in Commands : Do(c)
    \/ \E s \in Sessions : Drop(s)

Spec == Init /\ [][Next]_<<done, told, gone>>

=============================================================================
