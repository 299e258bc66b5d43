---------------------------- MODULE MCMemoryView ----------------------------
(* Ledgers to start from: more memories than a page holds or fewer, distinct *)
(* and equal timestamps, proposals and active memories, in the session and   *)
(* in the workspace.                                                         *)
EXTENDS MemoryView

Created(seed, at) == [seed |-> seed, at |-> at]

MCStarts ==
    {<<Created("explicit", 2), Created("contradicting", 1), Created("tool", 1)>>,
     <<Created("compaction", 2), Created("compaction", 1), Created("tool", 2)>>,
     <<Created("compaction", 1), Created("none", 0), Created("explicit", 1)>>}

MCFilters == {[DefaultQuery EXCEPT !.status = "proposed", !.literal = TRUE]}
=============================================================================
