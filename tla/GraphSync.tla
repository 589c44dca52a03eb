------------------------------ MODULE GraphSync ------------------------------
(***************************************************************************)
(* providers/microsoft/files.py: driveItems through Graph's delta feed.    *)
(* The delta link is kept with the scope it was issued for.  An entry that *)
(* the record filter skips is at the place "out".                          *)
(***************************************************************************)
EXTENDS Sync

CONSTANT Home      \* the scope each item belongs to

GraphInit == res = [link |-> 0, scope |-> "none", seen |-> FALSE]

GraphHost(i, m) ==
    IF Alive(i, m) /\ Home[i] = res.scope /\ Entry(i, m).at = "in"
    THEN LastOf(i, m) ELSE 0

\* Renamed out of name_glob: the filter skips the change and the row stays.
Renamed(i) == Alive(i, Now) /\ Entry(i, Now).at = "out"

GraphChange(i) ==
    \E gone \in BOOLEAN, at \in {"in", "out"} :
        /\ gone => Alive(i, Now) /\ at = Entry(i, Now).at
        /\ Change(i, at, gone)

GraphStart == kind = "graph" /\ Begin([pc |-> "delta"])

\* The request the stored link names, or the one without a token, which serves
\* the whole hierarchy of the scope.
Request(link, resynced) ==
    [pc |-> "page", link |-> link, upto |-> Now, resynced |-> resynced,
     listed |-> {},
     todo |-> {i \in Items : /\ Home[i] = job.scope
                             /\ IF link = 0 THEN Alive(i, Now)
                                            ELSE Changed(i, link)}]

\* Mutant: a link is followed whatever scope it was issued for.
DeltaOfAnyScope ==
    /\ Reading("graph", "delta")
    /\ Go(Request(res.link, FALSE))

\* A token issued for another drive or folder is not used.
Delta ==
    /\ Reading("graph", "delta")
    /\ Go(Request(IF res.scope = job.scope THEN res.link ELSE 0, FALSE))

Served == job.link = 0 \/ job.link >= floor

\* 410: the state is dropped and the feed read from the start, once a Run.
Resync ==
    /\ Reading("graph", "page")
    /\ ~ Served
    /\ ~ job.resynced
    /\ Go(Request(0, TRUE))

\* record_for: None for what the filter skips, else a row or a tombstone.
RecordFor(i) ==
    CASE Entry(i, Now).gone -> {Tombstone(i)}
      [] ~ Entry(i, Now).gone /\ Entry(i, Now).at = "in" -> {Record(i)}
      [] OTHER -> {}

\* A page of changed items as they are now, one that was served before and
\* changed again among them; there is a next link.
Page ==
    /\ Reading("graph", "page")
    /\ Served
    /\ \E some \in SUBSET job.todo \ {{}},
          again \in SUBSET {i \in Items \ job.todo : /\ Home[i] = job.scope
                                                     /\ Changed(i, job.upto)} :
          Go([batch |-> Yield(UNION {RecordFor(i) : i \in some \cup again}),
              todo |-> job.todo \ some,
              listed |-> job.listed \cup some \cup again])

\* The page that carries the delta link.
LastPage ==
    /\ Reading("graph", "page")
    /\ Served
    /\ Finish([job.res EXCEPT !.link = job.upto, !.scope = job.scope],
              UNION {RecordFor(i) : i \in job.todo},
              IF job.link = 0 THEN Items \ (job.listed \cup job.todo)
                               ELSE {})

\* item_id: the item's own metadata is the whole feed, and its absence a
\* deletion once an item was seen; before that the Run fails.
ItemStart == kind = "item" /\ Begin([pc |-> "item"])

SingleItem ==
    /\ Reading("item", "item")
    /\ LET i == job.scope IN
       \/ /\ Alive(i, Now)
          /\ Finish([job.res EXCEPT !.seen = TRUE], {Record(i)}, {})
       \/ /\ ~ Alive(i, Now)
          /\ job.res.seen
          /\ Finish(job.res, {Tombstone(i)}, {})

Graph == GraphStart \/ Delta \/ Resync \/ Page \/ LastPage
Item == ItemStart \/ SingleItem
=============================================================================
