SPECIFICATION Spec
CONSTANTS
    Memories = {1, 2, 3}
    Starts <- MCStarts
    Session = s
    Workspace = w
    NoSession = none
    MaxRevisions = 2
    PageSize = 2
    ExportPageSize = 1
    Mentions = {1, 2}
    Named = {3}
    Heavy = {2, 3}
    Filters <- MCFilters
    MaxUndertakings = 4
CHECK_DEADLOCK FALSE
INVARIANTS
    PageIsWhatWasAsked
PROPERTIES
    ChangesWhatWasReviewed
    DeletionIsArchived
