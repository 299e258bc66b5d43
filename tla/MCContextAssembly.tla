--------------------------- MODULE MCContextAssembly ---------------------------
(* Instance of ContextAssembly for TLC: three candidates of which two tie in  *)
(* their score and one is not eligible.                                       *)
EXTENDS ContextAssembly

Memory(revision, size) ==
    [revision |-> revision, size |-> size, status |-> "active", trust |-> "user_approved",
     scope |-> "workspace", sensitivity |-> "internal", conflicted |-> FALSE, inScope |-> TRUE,
     valid |-> TRUE, exact |-> FALSE, lexical |-> 9750, confidence |-> 10000, age |-> 0]

MCQueries ==
    {{Memory(1, 1), Memory(2, 1), [Memory(3, 1) EXCEPT !.conflicted = TRUE]}}

=============================================================================
