SPECIFICATION FairSpec
CONSTANTS
    r1 = r1
    r2 = r2
    fa = fa
    fb = fb
    x = x
    y = y
    Kinds = {"graph", "drive", "gmail", "soql", "sql", "rest", "bucket",
             "item", "file"}
    Items <- MCItems
    Folders <- MCFolders
    Roots <- MCRoots
    Home <- MCHome
    Holds <- MCHolds
    First <- MCFirst
    Before <- MCBefore
    MaxChanges <- MCMaxChanges
    MaxMessages = 1
INVARIANTS
    CursorNeverAhead
    LiveRowsRemembered
    WrongIdFails
PROPERTIES
    CatchesUp
