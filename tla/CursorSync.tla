----------------------------- MODULE CursorSync -----------------------------
(***************************************************************************)
(* Sources that walk a modification stamp: Salesforce                      *)
(* (providers/salesforce/source.py, kind "soql"), SQL (sources/sql.py,     *)
(* kind "sql"), a REST API (sources/rest.py, kind "rest") and files of     *)
(* records (sources/filesystem.py, kind "bucket", one record a file).  The *)
(* library builds dlt's Incremental (landing/instrument.py), which keeps   *)
(* the greatest stamp of the rows it saw; all but the last push that value *)
(* into their query.  A stamp counts half seconds: SOQL compares with      *)
(* whole ones.                                                             *)
(*                                                                         *)
(* The scope of a REST Binding is its cursor_path, a column or a JSONPath; *)
(* that of files is their cursor, or "none".                               *)
(***************************************************************************)
EXTENDS Sync

CursorKinds == {"soql", "sql", "rest", "bucket"}
Unseen == [seen |-> FALSE, last |-> 0, path |-> conf]
CursorInit == res = Unseen

CursorHost(i, m) == IF Alive(i, m) THEN LastOf(i, m) ELSE 0

\* The stamp of a change is the clock's, which may not have moved on.
LastStamp == IF Now = 0 THEN 0 ELSE log[Now].at
CursorChange(i) ==
    \E at \in LastStamp .. LastStamp + 1, gone \in BOOLEAN :
        /\ gone => Alive(i, Now)
        /\ Change(i, at, gone)

\* dlt keeps one state for each cursor_path.
Stored == IF res.path = conf THEN res ELSE Unseen

\* The state of a Run grows as it reads; its query is what it began with.
FirstRequest == CASE kind = "rest" -> [pc |-> "page", after |-> 0]
                  [] kind = "bucket" -> [pc |-> "list"]
                  [] OTHER -> [pc |-> "query"]
CursorStart ==
    /\ kind \in CursorKinds
    /\ Begin(Over(FirstRequest, [start |-> Stored, res |-> Stored]))

\* Mutant: rounded to the next second.
LiteralUp(stamp) == IF kind = "soql" THEN stamp + (stamp % 2)
                                    ELSE stamp

\* soql_literal: whole seconds, down.
Literal(stamp) == IF kind = "soql" THEN stamp - (stamp % 2)
                                  ELSE stamp

\* A cursor-less resource takes every row; files are all read.
Cursored == ~ (kind = "bucket" /\ job.scope = "none")

\* build_soql, build_query and start_param: ">=", never ">".
AtLeast(e, stamp) == e.at >= Literal(stamp)

\* A WHERE, a request parameter, or nothing.
Asked(e) == kind # "bucket" /\ job.start.seen =>
               AtLeast(e, job.start.last)

\* The closed lower bound of dlt's Incremental.
Selected(e) ==
    /\ Asked(e)
    /\ Cursored /\ job.start.seen => e.at >= job.start.last

\* queryAll serves the recycle bin too; a SELECT what is there.
Returned(i) ==
    /\ LastOf(i, Now) # 0
    /\ Selected(Entry(i, Now))
    /\ Entry(i, Now).gone => kind = "soql" /\ LastOf(i, Now) > floor
Rows == {i \in Items : Returned(i)}

\* The Incremental has seen the rows of these items.
Seen(items) ==
    IF ~ Cursored THEN job.res
    ELSE [job.res EXCEPT !.seen = @ \/ items # {},
                         !.last = Max({@} \cup
                                     {Entry(i, Now).at : i \in items})]

NeverServed == {i \in Items : ~ Alive(i, Now) /\ ~ Returned(i)}

\* _tombstone_for: the identity, and the stamp that Seen is to see.
Emitted(i) == IF Entry(i, Now).gone THEN Tombstone(i) ELSE Record(i)

\* One answer has it all, deletions with the rest.
Query ==
    /\ kind \in {"soql", "sql"}
    /\ job.pc = "query"
    /\ Finish(Seen(Rows), {Emitted(i) : i \in Rows}, NeverServed)

\* An API that lists its records by the cursor serves them in pages, and what
\* changes meanwhile is listed again.
ApiPage ==
    /\ Reading("rest", "page")
    /\ LET rows == {i \in Rows : LastOf(i, Now) > job.after}
           upto(m) == {i \in rows : LastOf(i, Now) <= m}
       IN  \/ \E m \in {LastOf(i, Now) : i \in rows} :
                 Go([after |-> m, res |-> Seen(upto(m)),
                     batch |-> Yield({Record(i) : i \in upto(m)})])
           \/ Finish(Seen(rows), {Record(i) : i \in rows}, NeverServed)

\* The files are listed first, and then opened one by one.
ListFiles ==
    /\ Reading("bucket", "list")
    /\ Go([pc |-> "file", todo |-> {i \in Items : Alive(i, Now)},
           read |-> [i \in Items |-> 0]])

ReadFile ==
    /\ Reading("bucket", "file")
    /\ \E i \in {j \in job.todo : Alive(j, Now)} :
          LET row == {i} \cap Rows
          IN  Go([todo |-> job.todo \ {i},
                  read |-> [job.read EXCEPT ![i] = LastOf(i, Now)],
                  res |-> Seen(row),
                  batch |-> Yield({Record(j) : j \in row})])

\* A file that was listed and is gone fails the Run.
FileGone ==
    /\ Reading("bucket", "file")
    /\ \E i \in job.todo : ~ Alive(i, Now)
    /\ Fail

\* What was written since its file was listed or opened was not seen.
LastFile ==
    /\ Reading("bucket", "file")
    /\ job.todo = {}
    /\ Finish(job.res, {},
              NeverServed \cup {i \in Items : LastOf(i, Now) # job.read[i]})

Cursor == CursorStart \/ Query \/ ApiPage \/ ListFiles \/ ReadFile
          \/ FileGone \/ LastFile

\* What no later Run asks for again, or keeps: stamps before the one kept.
CursorRead ==
    IF (kind = "bucket" /\ conf = "none") \/ ~ Stored.seen THEN 0
    ELSE Max({0} \cup {n \in 1 .. Now : log[n].at < Stored.last})
=============================================================================
