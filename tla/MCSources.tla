------------------------------ MODULE MCSources ------------------------------
EXTENDS Sources

CONSTANTS r1, r2, fa, fb, x, y

MCItems == {fa, fb, x, y}
MCFolders == {fa, fb}
MCRoots == {r1, r2}
MCHome == [i \in MCItems |-> IF i = x THEN r1 ELSE r2]
MCHolds == [k \in Kinds |-> CASE k = "drive" -> {fa, fb, x}
                              [] OTHER -> {x, y}]
In(i, folder) == [id |-> i, at |-> folder, gone |-> FALSE]
MCBefore == [k \in Kinds |-> IF k = "drive"
                             THEN <<In(fa, r1), In(fb, fa), In(x, fb)>>
                             ELSE <<>>]
MCFirst == [k \in Kinds |-> CASE k \in {"graph", "drive"} -> r1
                              [] k \in {"item", "file"} -> x
                              [] k \in {"rest", "bucket"} -> "column"
                              [] OTHER -> NoParent]
MCMaxChanges == [k \in Kinds |-> CASE k = "drive" -> 5
                                   [] k \in {"item", "file"} -> 2
                                   [] OTHER -> 3]
=============================================================================
