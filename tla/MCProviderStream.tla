--------------------------- MODULE MCProviderStream ---------------------------
(* Small streams of every dialect for TLC. *)
EXTENDS ProviderStream

Framing(ends, lines, heartbeat) == [ends |-> ends, lines |-> lines, heartbeat |-> heartbeat]

MCStreams ==
    {<<"codex", Framing("CRLF", 2, TRUE)>>, <<"codex", Framing("CRLF", 3, FALSE)>>,
     <<"generate", Framing("CR", 2, TRUE)>>, <<"openai", Framing("LF", 1, FALSE)>>,
     <<"interactions", Framing("LF", 1, FALSE)>>}
MCTexts == {<<"a">>, <<"b", "a">>}
MCFragments == {<<"a">>, <<"b", "end">>, <<"end">>}
MCArguments == {<<"end">>, <<"a", "end">>}
MCSecret == <<"a", "b">>
===============================================================================
