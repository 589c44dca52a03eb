----------------------------- MODULE Projecting ------------------------------
(***************************************************************************)
(* projections/runner.py with the landing layer below it: what the host's  *)
(* records come to show of one landed resource while packages land, runs   *)
(* read and write in batches, fail and are made up for, and the mapping is *)
(* edited, regraded and replayed.  ProjectionRuns has the rows that order  *)
(* these runs; here they are the loads a run is queued or owed for.        *)
(***************************************************************************)
EXTENDS Mapping, Batches, TLC

CONSTANTS Workers,
          Resources,   \* "wide" is unpivoted, the others emit tombstones
          Keys,        \* the records, or cases, each of them has
          Stages,      \* of a case, in a resource that is unpivoted
          Docs,        \* the mappings a customer may write for each
          Target,      \* the host's TargetDefinition
          BatchSizes,  \* PROJECTION_BATCH_SIZE, for each
          Policies,    \* on_invalid_record
          MaxLoads,    \* bound: packages
          MaxRequests  \* bound: edits of the mapping and replays, of each

ASSUME TargetAssumption == TargetDefined(Target)
ASSUME LandingAssumption ==
    /\ MaxLoads \in Nat
    /\ IsFiniteSet(Stages)
    /\ \A r \in Resources : IsFiniteSet(Keys[r])
ASSUME SizesAssumption ==
    \A r \in Resources : BatchSizes[r] \subseteq Nat \ {0}
ASSUME EditAssumption == "edit" \notin Workers

VARIABLES
    resource, size, policy,   \* configuration
    table,      \* the landed row of each merge key
    loads,      \* packages loaded, numbered as their load ids sort
    doc,        \* Projection.mapping and filters
    status,     \* Projection.status
    requests,
    queued,     \* loads whose run has been dispatched and has not begun
    owed,       \* loads no run has projected or is projecting
    job,        \* the run each worker executes
    host,       \* the records the host's writer keeps, by identity
    \* history
    behind,     \* why only a replay can help: "edit", whose replay is not over
    astray      \* identities a row has lost, or that runs raced for
configVars == <<resource, size, policy>>
mappingVars == <<doc, status, requests, behind>>
workVars == <<queued, owed>>
projectingVars == <<configVars, table, loads, mappingVars, workVars, job, host,
                    astray>>

NoJob == [pc |-> "idle"]
NoRow == [load |-> 0, gone |-> FALSE, tag |-> 0]
Running(w) == job[w] # NoJob

-----------------------------------------------------------------------------
(* The landing table *)

Contents == 1 .. 2          \* how a record's tag reads: a number, a word
TagOf(c) == IF c = 1 THEN Text("whole", 1) ELSE Text("word", 8)
KeyOf(k) == Text("word", k)

RowIds == Keys[resource] \X (IF resource = "wide" THEN Stages ELSE {0})
Business == IF resource = "wide" THEN {"id", "stage", "val", "tag"}
            ELSE {"id", "val", "tag"}
MergeKey == Business \ {"val", "tag"}
Landed == [known |-> loads > 0,
           emits |-> resource # "wide",
           key |-> MergeKey,
           columns |-> [c \in Business \cup InternalColumns |->
                          CASE c = "val" -> "bigint"
                            [] c = "_connector_deleted" -> "bool"
                            [] OTHER -> "text"]]

\* What is not in the merge key is NULL in a tombstone.
Columns(id, row) ==
    [c \in Business \cup InternalColumns |->
        CASE c = "id" -> KeyOf(id[1])
          [] c = "stage" -> Text("word", id[2])
          [] c = "val" -> IF row.gone THEN Null
                          ELSE Value("bigint", "whole", row.load)
          [] c = "tag" -> IF row.gone \/ row.tag = 0 THEN Null
                          ELSE TagOf(row.tag)
          [] c = "_connector_deleted" -> Value("bool", "flag",
                                               IF row.gone THEN 1 ELSE 0)
          [] c = "_connector_binding_id" -> Text("word", 9)]

\* unpivot: the stages of a case that is emitted, all of them, empty, when
\* none is filled in.
StagesOf(filled) == IF filled = {} THEN Stages ELSE filled

\* The tables that loading a package may lead to.  The stages of a case are
\* replaced as one: the merge key of an unpivoted resource is the case.
WideMerge(S) ==
    {[id \in RowIds |->
        IF id[1] \notin S THEN table[id]
        ELSE IF id[2] \in StagesOf(filled[id[1]])
             THEN [load |-> loads + 1, gone |-> FALSE,
                   tag |-> IF id[2] \in filled[id[1]] THEN 1 ELSE 0]
             ELSE NoRow] : filled \in [S -> SUBSET Stages]}
FeedMerge(S) ==
    {[id \in RowIds |->
        IF id[1] \notin S THEN table[id]
        ELSE [load |-> loads + 1, gone |-> c[id[1]] = 0, tag |-> c[id[1]]]] :
            c \in [S -> Contents \cup {0}]}

-----------------------------------------------------------------------------
(* A row becomes a record *)

CoerceField(f, v) ==
    IF f \in DOMAIN Target.fields
    THEN Coerce(Target.fields[f].kind, FALSE, v) ELSE v

Lacks(values, fields) ==
    \E f \in fields : f \notin DOMAIN values \/ values[f] = Null

Named(values) ==
    [f \in Target.identity |-> IF f \in DOMAIN values THEN values[f] ELSE Null]

Outcome(gone, values) ==
    IF \E f \in DOMAIN values : values[f] = NoColumn THEN "broken"
    ELSE IF \/ \E f \in DOMAIN values : Failed(values[f])
            \/ Lacks(Named(values), Target.identity)
            \/ ~ gone /\ Lacks(values, Required(Target))
         THEN "invalid"
         ELSE IF gone THEN "delete" ELSE "upsert"

Record(gone, values) ==
    [op |-> Outcome(gone, values), id |-> Named(values), values |-> values]

\* _project: only the identity of a tombstone is evaluated.
Project(d, id, row) ==
    LET cols == Columns(id, row)
    IN  Record(row.gone,
               [f \in DOMAIN d.mapping
                       \cap (IF row.gone THEN Target.identity
                             ELSE DOMAIN d.mapping) |->
                  CoerceField(f, Evaluate(d.mapping[f], cols))])

\* What the mapping makes of the row as it is.
Present == {id \in RowIds : table[id] # NoRow}
Made(id) == Project(doc, id, table[id])

-----------------------------------------------------------------------------
(* Landing: services/runs.py _after_success *)

\* detect_drift: of what validator.py asks only this is asked again.  No
\* column has variants here.
DetectedDrift(d) ==
    IF Compiles(d) /\ MappedColumns(d) \subseteq Business
    THEN "active" ELSE "invalid"

\* refresh_projection_drift promotes no draft.
DriftStatus(current, d) ==
    IF current = "draft" THEN current ELSE DetectedDrift(d)

\* The identity of the row is another one, or there is no row any more.
Moves(id) ==
    \/ table'[id] = NoRow
    \/ Project(doc, id, table'[id]).id # Made(id).id

Land ==
    /\ loads < MaxLoads
    /\ \E S \in SUBSET Keys[resource] \ {{}} :
          table' \in IF resource = "wide" THEN WideMerge(S) ELSE FeedMerge(S)
    /\ loads' = loads + 1
    /\ status' = DriftStatus(status, doc)
    /\ queued' = queued \cup (IF status' = "active" THEN {loads + 1} ELSE {})
    /\ owed' = owed \cup {loads + 1}
    /\ astray' = astray \cup {Made(id).id : id \in {x \in Present : Moves(x)}}
    /\ UNCHANGED <<configVars, doc, requests, behind, job, host>>

-----------------------------------------------------------------------------
(* The mapping: services/projections.py *)

ActivateProjection ==
    /\ loads > 0
    /\ status # "active"
    /\ status' = IF Errors(doc, Target, Landed) = {} THEN "active"
                 ELSE "invalid"
    /\ UNCHANGED <<configVars, table, loads, doc, requests, behind, workVars,
                   job, host, astray>>

IdentityMappingChanged(d) ==
    \E f \in Target.identity :
        \/ (f \in DOMAIN doc.mapping) # (f \in DOMAIN d.mapping)
        \/ /\ f \in DOMAIN doc.mapping \cap DOMAIN d.mapping
           /\ doc.mapping[f] # d.mapping[f]

\* What was queued for the earlier version is superseded, and owed again.
UpdateMapping ==
    /\ requests < MaxRequests[resource]
    /\ \E d \in Docs[resource], acknowledge \in BOOLEAN :
          /\ d # doc
          /\ acknowledge \/ ~ IdentityMappingChanged(d)
          /\ doc' = d
          /\ status' = StatusFor(d, Target, Landed)
    /\ requests' = requests + 1
    /\ behind' = behind \cup (IF loads > 0 THEN {"edit"} ELSE {})
    /\ queued' = {}
    /\ UNCHANGED <<configVars, table, loads, owed, job, host, astray>>

-----------------------------------------------------------------------------
(* A run *)

\* ORDER_COLUMNS: by load, and by a content hash within one.
Ordered(ids) ==
    {order \in SetToSeqs(ids) :
        \A m, n \in DOMAIN order :
            m < n => table[order[m]].load <= table[order[n]].load}

\* The row is skipped by the filter, ends the run, or becomes a record.
Filtered(id) == ~ Matches(doc, Columns(id, table[id]))
EndsTheRun(id) ==
    /\ ~ Filtered(id)
    /\ \/ Made(id).op = "broken"
       \/ Made(id).op = "invalid" /\ policy = "fail"
IsRecord(id) == ~ Filtered(id) /\ Made(id).op \in {"upsert", "delete"}

\* The records that are read before one of the rows that end the run: all of
\* earlier loads, and any of its own.
Before(end, ends, records) ==
    {rows \in SUBSET records :
        /\ \A id \in ends : table[end].load <= table[id].load
        /\ \A id \in records :
              /\ table[id].load < table[end].load => id \in rows
              /\ id \in rows => table[id].load <= table[end].load}

Entry(id) ==
    [row |-> id, load |-> table[id].load,
     op |-> Made(id).op, id |-> Made(id).id, values |-> Made(id).values]

Begun(mode, S, records, broken) ==
    [pc |-> "writing", mode |-> mode, loads |-> S, doc |-> doc,
     records |-> records, broken |-> broken, next |-> 1, deleted |-> {},
     errors |-> Errors(doc, Target, Landed),
     atOnce |-> IF records = <<>> THEN host
                ELSE Written(host, Collapse(records, {}), mode = "full"),
     alone |-> TRUE]

Reads(w, mode, S, rows, broken) ==
    \E order \in Ordered(rows) :
        job' = [job EXCEPT ![w] =
                  Begun(mode, S, [n \in DOMAIN order |-> Entry(order[n])],
                        broken)]

Begin(w, mode, S) ==
    LET ids == {id \in Present : table[id].load \in S}
        ends == {id \in ids : EndsTheRun(id)}
        records == {id \in ids : IsRecord(id)}
    IN  \/ ends = {} /\ Reads(w, mode, S, records, "no")
        \/ \E end \in ends : \E rows \in Before(end, ends, records) :
              Reads(w, mode, S, rows,
                    IF table[end].gone THEN "tombstone" ELSE "row")

\* execute of a queued row, whatever the Projection's status is by now.
RunQueued(w) ==
    /\ ~ Running(w)
    /\ \E l \in queued :
          /\ Begin(w, "incremental", {l})
          /\ queued' = queued \ {l}
          /\ owed' = owed \ {l}
    /\ UNCHANGED <<configVars, table, loads, mappingVars, host, astray>>

\* dispatch_pending: every load that no run answers for.
Sweep(w) ==
    /\ ~ Running(w)
    /\ status = "active"
    /\ owed \ queued # {}
    /\ Begin(w, "incremental", owed \ queued)
    /\ owed' = owed \cap queued
    /\ UNCHANGED <<configVars, table, loads, mappingVars, queued, host, astray>>

\* replay_projection: no load window, and nothing asks for the status.
Replay(w) ==
    /\ ~ Running(w)
    /\ loads > 0
    /\ Compiles(doc)
    /\ requests < MaxRequests[resource]
    /\ requests' = requests + 1
    /\ Begin(w, "full", 1 .. MaxLoads)
    /\ UNCHANGED <<configVars, table, loads, doc, status, behind, workVars,
                   host, astray>>

Remaining(w) == Len(job[w].records) - job[w].next + 1
Full(w) == Remaining(w) >= size
Partial(w) == Remaining(w) > 0 /\ ~ Full(w) /\ job[w].broken = "no"

\* The row has not been replaced since it was read.
Current(rec) == table[rec.row].load = rec.load

\* The identities for which a batch has the last word.
Settled(w, batch) ==
    {i \in Ids(batch) : \A n \in DOMAIN batch :
        batch[n].id = i =>
            /\ Current(batch[n])
            /\ i \in job[w].deleted => batch[n].op = "delete"}

\* What a replay deletes although it has been projected: it read too early.
Wiped(w) ==
    {Made(id).id : id \in {x \in Present : table[x].load \notin owed}}
        \ Ids(job[w].records)

\* The first batch of a replay leaves nothing of what was there.
WriteBatch(w) ==
    /\ Running(w)
    /\ Full(w) \/ Partial(w)
    /\ LET last == IF Full(w) THEN job[w].next + size - 1
                   ELSE Len(job[w].records)
           batch == SubSeq(job[w].records, job[w].next, last)
           collapsed == Collapse(batch, job[w].deleted)
           replace == job[w].mode = "full" /\ job[w].next = 1
           settled == Settled(w, batch)
       IN  /\ host' = Written(host, collapsed, replace)
           /\ astray' = (IF replace THEN Wiped(w) ELSE astray \ settled)
                          \cup (Ids(batch) \ settled)
           /\ behind' = (IF replace THEN {w} ELSE behind) \cup
                         (IF job[w].doc # doc THEN {"edit"} ELSE {})
           /\ job' = [v \in Workers |->
                IF v = w
                THEN [job[w] EXCEPT !.next = last + 1,
                                    !.deleted = @ \cup collapsed.deletes]
                ELSE IF Running(v) THEN [job[v] EXCEPT !.alone = FALSE]
                ELSE NoJob]
    /\ UNCHANGED <<configVars, table, loads, doc, status, requests, workVars>>

Succeed(w) ==
    /\ Running(w)
    /\ Remaining(w) = 0
    /\ job[w].broken = "no"
    /\ job' = [job EXCEPT ![w] = NoJob]
    /\ behind' = behind \
          (IF job[w].mode = "full" /\ job[w].records # <<>> THEN {w} ELSE {})
    /\ UNCHANGED <<configVars, table, loads, doc, status, requests, workVars,
                   host, astray>>

\* Mutant: a run that failed still answers for its loads.
FailAnswers(w) ==
    /\ Running(w)
    /\ job' = [job EXCEPT ![w] = NoJob]
    /\ UNCHANGED <<configVars, table, loads, mappingVars, workVars, host,
                   astray>>

\* A row that is no record under "fail", a writer that raises, or a kill that
\* the sweep finds out about: a failed run answers for nothing.
Fail(w) ==
    /\ Running(w)
    /\ job' = [job EXCEPT ![w] = NoJob]
    /\ owed' = owed \cup (IF job[w].mode = "full" THEN {} ELSE job[w].loads)
    /\ UNCHANGED <<configVars, table, loads, mappingVars, queued, host, astray>>

-----------------------------------------------------------------------------
ProjectingInit ==
    /\ resource \in Resources
    /\ size \in BatchSizes[resource]
    /\ policy \in Policies
    /\ table = [id \in RowIds |-> NoRow]
    /\ loads = 0
    /\ doc \in Docs[resource]
    /\ status = "draft"
    /\ requests = 0
    /\ queued = {}
    /\ owed = {}
    /\ job = [w \in Workers |-> NoJob]
    /\ host = [i \in {} |-> Null]
    /\ behind = {}
    /\ astray = {}

ProjectingNext ==
    \/ Land
    \/ ActivateProjection
    \/ UpdateMapping
    \/ \E w \in Workers :
          \/ RunQueued(w)
          \/ Sweep(w)
          \/ Replay(w)
          \/ WriteBatch(w)
          \/ Succeed(w)
          \/ Fail(w)

ProjectingSpec == ProjectingInit /\ [][ProjectingNext]_projectingVars

-----------------------------------------------------------------------------
(* Properties *)

Projects == {id \in Present : ~ Filtered(id) /\ Made(id).op = "upsert"}

\* Rows that the mapping, the filter or the policy keep from speaking for
\* their identity: two that share it, one the filter stops (a tombstone of
\* which is NULL wherever the filter looks), one that is no record.
Muted ==
    {Made(id).id : id \in {x \in Present :
        \/ Filtered(x)
        \/ Made(x).op = "invalid"
        \/ \E y \in Present \ {x} : Made(y).id = Made(x).id}}

\* When no run is left to do, the host shows what has landed, under the mapping
\* as it is: in whatever order loads were projected, failed, retried or swept
\* up, and whatever landed or was deleted meanwhile.  Not for an identity that
\* is muted, that a row had and lost, or that two runs raced for.
HostShowsLanding ==
    /\ behind = {}
    /\ owed = {}
    /\ \A w \in Workers : ~ Running(w)
    => LET shown == {Made(id).id : id \in Projects}
       IN  /\ \A id \in Projects :
                 LET i == Made(id).id
                 IN  \/ i \in Muted \cup astray
                     \/ i \in DOMAIN host /\ host[i] = Made(id).values
           /\ DOMAIN host \subseteq shown \cup Muted \cup astray

\* "Fails every run forever from the first tombstone on" is what the validator
\* is there to prevent: no tombstone breaks a run of a mapping it accepts.
TombstonesProject ==
    \A w \in Workers :
        Running(w) /\ job[w].errors = {} => job[w].broken # "tombstone"

\* "The host's end state must not depend on PROJECTION_BATCH_SIZE": a run that
\* nobody else wrote beside leaves what one batch would have left.
BatchesDoNotMatter ==
    [][\A w \in Workers :
          Succeed(w) /\ job[w].alone => host = job[w].atOnce]_projectingVars
=============================================================================
