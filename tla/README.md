# Verification of django-connectors

`django_connectors` lands data from external sources (REST, SQL, files, Google,
Microsoft, Salesforce) through dlt into landing tables, and projects landed rows
into Django models under a mapping a customer edits. It has no server of its
own: every operation is a function that some process calls, be it a cron job, a
Celery worker, a web worker or the admin. All coordination goes through a few
database rows, written by `UPDATE ... WHERE` or by plain `save()`, through dlt's
working directory on disk, and through the cursors dlt keeps for each source.
The hard part of the system is what happens when these calls interleave, are
repeated, or stop half way, and when the provider's data moves while it is read;
that is what the modules here are about.

Paths below are relative to `src/django_connectors/`.

## Inventory

| Component | State | Operations | Hard behaviour |
|---|---|---|---|
| Binding lease (`locks.py`, `models/binding.py`) | one `BindingLock` row per Binding: token, acquired_at, expires_at | `acquire` (UPDATE an expired row, else INSERT), `release`, `renew`, `reap_expired` | two statements and an instant read before both; a holder that outlives its lease; a holder that dies |
| Run lifecycle (`services/runs.py`, `models/run.py`) | `Run` rows; the Binding's status, last_* and landing schema; the Connection's status | `enqueue_run`, `run_binding` (lease, start, drain, execute, succeed, fail or block, release), `reap_stale_runs` | kill between any two saves; a task delivered twice; the reaper's stale SELECT; saves of objects loaded long before |
| Landing runner (`landing/runner.py`) | dlt's packages: extracted, normalized, loaded | `execute`, `_verify`, `drain_pending`, `has_pending_data` | dlt loads whatever is pending instead of extracting, and reports success; attribution of load ids |
| Landing helpers (`landing/*.py`) | landing tables, indexes, schema | instrumented columns, merge keys, tombstones, cursors; index provisioning; access | two versions of one row in one package; what a deletion leaves of a row |
| Sources and their cursors (`sources/`, `providers/`) | dlt's resource state: delta link, change token, history id, last stamp | one feed each: Graph delta, Drive changes, Gmail history, SOQL, SQL, REST, files, single items | a provider that changes while it is read; cursors that expire; a Binding that is pointed elsewhere |
| Provider requests and credentials (`providers/*/auth.py`, `auth/`, `secrets/`) | the stored material, a token for one Run | tokens, retries, the reading of refusals | a throttle, an outage or a mistake taken for a revocation; a token that ends in a Run |
| Spreadsheets and workbooks (`google/sheets.py`, `microsoft/excel.py`) | modification time or content tag recorded in dlt's state | a grid becomes records | headers that collide, blanks, merged cells; content edited between two requests |
| Retention and standing (`services/retention.py`, `models/connection.py`) | tables, dlt's state, Binding and Connection status | purge, reset, delete; setup, revoke, store | order of steps; a Run that is in flight or starts meanwhile; stale objects saved over newer rows |
| Projection lifecycle (`services/projections.py`) | `Projection` (mapping, version, status), `ProjectionRun` rows | `update_mapping`, `activate_projection`, `dispatch_after_run`, `execute_projection_run`, `retry_projection_run`, `replay_projection`, the reaper and the sweep | at-least-once delivery, dispatches that are lost, a mapping edited while rows are queued |
| Projection runner and mapping (`projections/`) | the host's records, a ProjectionRun's verdict | compile, validate, evaluate, `execute`, `_collapse`, `dispatch_pending` | version check, claim and verdict are three statements; batches; deletions; data that does not fit |
| Scheduler, Celery wrappers (`scheduler/`) | `Binding.next_run_at`, `dirty` | `run_due_bindings` (`_claim`, `_defer`), tasks | compare-and-swap by two schedulers; a dirty flag cleared too early; at-least-once delivery |
| Webhooks (`webhooks/`) | cache keys; `WebhookSubscription` rows and the provider's own | `receive`, `_schedule`; register, renew, expire, delete | bursts, a delivery during a Run; provider calls between read and save |
| API, admin, configuration, conformance kit | settings | request handling | none of their own |

How they interact: a webhook delivery or the scheduler queues a `Run`; a worker
executes it under the Binding's lease with a credential of its Connection; a
source reads from the cursor dlt holds; rows and cursor are loaded together;
success dispatches a `ProjectionRun` per projection; the sweeps
(`reap_stale_runs`, `dispatch_pending_projections`, `renew_due_webhooks`) repair
what was lost. Every arrow may be lost or doubled.

What makes each component correct:

* lease: two unexpired leases never coexist; a stranger's release or reap never
  frees a live lease; a dead worker blocks nobody for ever;
* runs: one Run in flight per Binding, a succeeded Run fetched from its source
  and left nothing pending, every landed load is named by the Run that extracted
  it or by a recovery Run, a finished Run stays what it is, no Run runs for ever;
* sources: a cursor never gets ahead of the rows, a table catches up with its
  provider, a row that is live can still be taken away, a wrong id is an error;
* credentials: only a dead credential takes a Connection out of service;
* retention: what is deleted leaves nothing behind, and no cursor stands beyond
  rows that are gone;
* projections: a row is executed at most once, with the mapping of its version,
  and succeeds only when written; every load is projected in the end; the host
  shows what has landed, whatever the batches were;
* scheduler and webhooks: one claim per due moment, no delivery forgotten, a
  subscription renewed before it lapses and never claimed without the provider.

## Modules

| Module | What it is |
|---|---|
| `LeaseContract` | what a Binding's lease promises: grant, renew, release, reap, expiry and abandonment as single steps |
| `Lease` | `locks.py` statement by statement, with a clock; shown to implement `LeaseContract` (`ImplementsContract`, an `INSTANCE` with the row mapped to its owner) |
| `RunLifecycle` | one Binding's Runs and its dlt pipeline, built on `LeaseContract` |
| `ProjectionRuns` | the ProjectionRuns of one Projection |
| `Scheduling` | how a change at the provider becomes a Run; built on `LeaseContract` |
| `Sync` | what every source does around its feed: begin, yield, load rows and state together, fail |
| `GraphSync`, `DriveSync`, `GmailSync`, `CursorSync` | the feeds, one module per kind of cursor, each on `Sync` |
| `Sources` | one Binding of any of the nine kinds of source: their composition, and the properties |
| `Standing` | who takes a Binding and a Connection out of service and who puts them back, beside purge, reset, deletion and setup |
| `Subscriptions` | webhook subscriptions against a provider that forgets them |
| `Mapping` | the mapping language as operators: which documents compile and validate, what they evaluate to |
| `Batches` | what the projection runner hands to the host in a batch, and what the host makes of it, as operators |
| `Projecting` | the projection runner over the landing table, built on `Mapping` and `Batches` |
| `Tables` | grids to records, as operators |
| `Requests` | how answers are read: retries, errors, blame, as operators |
| `Fetching` | the Runs of a spreadsheet, a workbook or an org's objects, built on `Tables` and `Requests` |
| `LeaseProofs`, `RunProofs`, `ProjectionProofs`, `SchedulingProofs`, `SourcesProofs`, `StandingProofs`, `FetchingProofs` | TLAPS proofs, one module per specification |
| `OutsideProofs` | TLAPS proofs about what is kept outside this system: the host's records (`Batches`, `Projecting`) and a provider's registrations (`Subscriptions`) |
| `MC*` | model values, inputs and symmetry for TLC |

### Lease

The row is `row`, a record of token and deadline, or no row. `acquire` is cut
where the code lets others in: `StartAcquire` reads `timezone.now()`, `TakeOver`
or `UpdateMatchesNothing` is the UPDATE, `Insert` or `InsertCollides` the INSERT
whose IntegrityError means the lease was lost. `Release`, `Renew` and
`ReapExpired` are one statement each. `Crash` forgets the worker and leaves its
row. Tokens are numbered (`uuid4` never repeats one). The clock ticks between
statements, at most `MaxTime` times.

### RunLifecycle

A worker's `pc` walks through `run_binding`: `acquire`, `start`, `check` (the
drain decision), `normalize` / `load` / `loading` / `verify` (shared by a drain
and by `pipeline.run`), `record` or `fail`, `release`. The cuts are the points at
which another process can see or change what the code reads: every save, every
stage of dlt, every reading of the pipeline. `rec` is the recovery Run while one
is being filled, as in `_drain_pending_if_needed`. dlt is external and is
modelled by what this code relies on: `pipeline.run` with something pending
loads that and does not consult the source, `load` picks up every normalized
package, two processes on one working directory take each other's packages.

`overruns` counts leases that expired under a live worker, which the code allows
because nothing calls `locks.renew`; the properties a lease is there for are
stated for behaviours without one. An exception out of `_start` leaves the lease
behind as a kill does, and so is part of `Crash`. An exception out of the Run's
own `_succeed` or `_fail`, and a `BaseException`, releases it and leaves the Run
as it is: `Interrupt`.

### ProjectionRuns

One Projection; a row is absent, queued, running or has a verdict. `Load` is the
object a call reads, so that its mapping version and status can be old when they
are used; `Claim` is the conditional UPDATE that goes with it, `Supersede`,
`Finish` and `Fail` the plain saves. `Crash` stands for a kill and for a
dispatch that never arrives. `SelectDropped`/`Rescue` and
`SelectAbandoned`/`FailAbandoned` are the two loops of the reaper, each with its
SELECT apart from its saves, `SweepRead`/`SweepCreate` the sweep. `Age` is the
passing of the grace period. What a row reads and writes is in `Projecting`.

### Scheduling

One Binding, the deliveries under way for it, the sweeps (`run_due_bindings`) and
the workers that take `run_binding` tasks. The code cuts a sweep at its SELECT,
at `_claim` or `_defer`, and at the queueing with its dispatch, and so does the
module: `Select`, `Claim` or `ClaimLost` or `Defer`, `Dispatch`. `next_run_at`
is the condition of a compare-and-swap and a moment in time, and those are the
two things kept of it: `slot` is the identity of its value, of which a sweep
holds the one it selected in `sel`, and `due` says that it has come. Between
`Select` and `Claim` anything may happen to the flag, the slot and the Run.

A request passes `Receive` (the replay key is set), then `MarkDirty` or
`OpenWindow`, then `QueueRun`; it may die in between, and the provider may send
the same delivery again or give up. `enqueue_run` deduplicates against the one
queued Run, so that `queued` is a flag; `tasks` counts the messages that name the
queued Run and those that name one that is not queued any more. The lease
expires only under a worker that died. Executing inline is a dispatch that a
worker takes at once. The rate limit, the size cap and the signature only refuse
a request and are left out.

`ForgottenOnlyByFailure` is the statement the docstrings of `_schedule` and
`_claim` make between them, with its provisos: a change no Run has read has a
place to be remembered (its delivery, the flag, the queued Run, the sweep about
to queue one, a Run that has yet to read) until one of the listed things happens.

### Sync, its four feeds, and Sources

The provider is `log`, the sequence of its changes; a change says which item,
where it is then (a parent, "in" or "out" of a filter, or a time stamp) and
whether it is gone. An item's version is the position of its latest change, and
the landing table keeps for each item the version its row shows. `Begin` starts a
Run from the committed resource state, a feed's actions yield records and
tombstones and change `job.res`, and `Load` commits both or `Fail` neither: dlt
writes the state in the package it loads. Of two rows of one item in a package
the newest wins if `_dedup_sort_column` found a hint, and any of them otherwise
(`Candidates`). `Repoint` is an edit of `Binding.config` between Runs, `Expire`
the end of what the provider serves of its history.

| kind | code | what its actions are |
|---|---|---|
| `graph`, `item` | `microsoft/files.py` | pages of a delta feed from the link of the scope, a resync on 410, the record filter; a single item and its 404 |
| `drive`, `file` | `google/drive.py` | start token, cold walk folder by folder, the changes feed entry by entry with folders learned and subtrees dropped, an expired token; a single file |
| `gmail` | `google/gmail.py` | profile, listing page by page, parking at `max_messages_per_run`, history pages, messages fetched one by one, a history id that is too old |
| `soql`, `sql` | `salesforce/source.py`, `sql.py` | one query from the stored stamp, truncated for SOQL; deletions from the recycle bin |
| `rest` | `rest.py` | pages by the cursor while records change |
| `bucket` | `filesystem.py` | a listing and then file by file, filtered by one cursor |

Drive's folders are relations, not searches: what is above a folder, a subtree
and the folders known above one (`Above`, `Subtree`, `KnownAbove`) are the least
sets closed under "parent of", and a cold walk takes the children of a folder in
any order the listing may have (`Listing`).

`CursorNeverAhead` is the abstract promise: what the committed cursor claims to
have read is in the table. It is stated with the provider's side of the bargain
(changes a feed never serves, such as the deletions a SELECT cannot see) and with
`Hidden`, the one case Drive gets wrong. `CatchesUp` is its liveness half: when
the provider stops changing and Runs succeed, the table shows it.

### Standing

A Binding's columns, its Connection's status, what its tables hold of the
source's rows (none, only what came after a cursor whose rows were dropped, or
all), dlt's cursor, and the credential, as a number that a rotation raises and
that the provider may refuse. Run, operator and setup each hold the objects they
loaded and save them later; `retention.py` is one action per save or drop, and
each of its failures an action of its own. Tables go one by one (`DropTable`),
and between two of them a Run may land (`refilled`) or a fault may end the purge:
`Drop` is the last one, `DropRaises` an exception that puts the previous status
back with whatever is gone gone, `DropUnseen` one that finds no tables to drop,
`OpDies` a kill. `KeepState` is the `pipeline.drop()` that fails and is only
logged. `why` and `revoker` are history: the causes the properties name, "halfway"
for a purge that stopped between two tables or before dlt's state.

### Subscriptions

Every service (`create`, `renew`, `delete`, the due sweep) is a caller with a row
in hand, cut before and after its call to the provider. `Lead`, `RenewAt`,
`Applied` and `FailedRenewal` are the arithmetic of the moment of renewal,
translated as it is written. A provider may name no expiry, and forgets a
registration at the moment it named. An adapter may name the moment of renewal
itself (`NamedMoments`), and then `Applied` takes its word. `retried` is history:
the rows whose last renewal failed, the one case in which `renew_at` may be the
expiry itself.

### Mapping and Projecting

A mapping is a record per node whose domain is the set of its keys; a value is a
type, how its text reads, and an identity, which is all that casts, comparisons
and filters tell apart. `Compiles` and `Errors` say what `compiler.py` and
`validator.py` accept, `Evaluate` and `Coerce` what a row becomes. `Projecting`
lands packages into a table whose rows may be tombstones or the stages of an
unpivoted case, and executes queued, swept and replayed runs over it in batches,
under both policies for invalid records, against a host that keeps records by
identity. Two variables are history and say when the host may differ. `astray`
has the identities that a row has lost, or that a run wrote or wiped from a row
replaced since it was read, until a batch whose records of them are all current
has the last word. `behind` says why only a
replay can help: the mapping was edited, or a replay has replaced what the host
had and is not over.

### Tables, Requests and Fetching

`Tables` is the path from a grid to records: column names with their suffixes
and reserved names, ragged and blank rows, missing keys, hidden sheets, merged
ranges, and the file's columns over a sheet's of the same name (`Stamped`).
`Requests` reads answers: which are retried with what delay under which budget,
and which error a status, a reason or a token endpoint's refusal is. Retries have
two levels. The session, which is dlt's, sends a request again (`Resends`) when
it gets no answer or one of the statuses it was told: Google's only the 5xx,
Microsoft's none, Salesforce's 429 and every 5xx. What it gives back the client
may ask for again (`AsksAgain`): Google's the throttles, Microsoft's 429, 503 and
504 within a budget of waiting, Salesforce's nothing.
`Fetching` runs them: a Run takes its credential (`NoCredential`, `NoToken`,
`Unusable`, `Misconfigured` or `Begin`), makes one request after another while
the provider throttles, refuses and fails, its token lapses (Google's is renewed,
the others' is not), sheet and configuration are edited, and lands what it parsed
together with the modification time it read before. `Rotate` replaces the stored
material, with or without a slip: `Usable` is what each backend needs of it.
`why` in an answer and `blame` are what is really wrong, which no client is told.

`LandsTheSheet` is told from the cells that are seen, without the functions that
read them: `CellAt` is what is seen at a place, a merged range being one cell;
`Entered` the rows that show something, down to the last that something was
entered in; `KeyAt` the column of a merge key: the first one whose header is
named like it, or, for a name that a suffix may have made (`id_2`, beside a
header `id`), the first one that dlt's naming gives it. It says that every such
row is in the table with each cell in a column of its own, under the one row of
its key or by itself. It excuses a configuration edited while the content was
not, and a merge key that is one of the file's own columns.

## Runs

| Run | Bounds | Shows |
|---|---|---|
| `lease` | 2 workers, timeouts 1 and 2, clock to 4, 4 tokens | exclusion, ownership, recovery from dead workers, refinement of the contract |
| `run_safety` | 2 workers, 3 Runs, 2 packages, 1 repeated task, 1 fault | exclusion, honest verdicts, attribution, finished Runs, the reaper |
| `run_liveness` | 2 workers, 2 Runs, 1 overrun | `RunningEnds` |
| `projections` | 2 workers, 2 rows, 2 loads, 2 versions, 1 request, 1 fault | claim, version, verdicts |
| `projection_liveness` | 2 workers, 5 rows, 1 load, 2 versions, 1 fault | `EveryLoadProjected` |
| `scheduling` | 2 workers, 2 sweeps, 1 delivery, 1 task | `OneClaim`, `ForgottenOnlyByFailure` |
| `scheduling_liveness` | 2 workers, 1 sweep, 1 delivery, 1 task | every change is read, every queued Run ends |
| `sources` | nine kinds, each with 2 or 3 items; 2 or 3 changes, Drive 5 of which 3 precede the Binding | cursors are never ahead, live rows are remembered, wrong ids fail, tables catch up |
| `subscriptions` | 1 subscription, 2 callers, lifetimes none, 1 and 4, lead 3, clock to 4 | renewal in time, rows that keep their word |
| `standing` | 2 workers; two operations, an edit and a fault, then two operations, an overlap and a fault, then one operation with a replaced credential, an edit and an overlap | nothing stranded, no cursor beyond its rows, no revocation without cause |
| `projecting` | 2 workers, three resources, 2 loads, batches of 1 and 3, both policies, 1 edit or replay | the host shows the landing table, tombstones project, batches do not matter |
| `fetching` | five backends, up to 4 contents and 5 configurations each, 1 edit, 1 reconfiguration, 2 pages, a session that sends twice, Retry-After none or 300 (which Graph's client cuts to 120) | blame, the sheet is landed, Runs end |

The bounds are the smallest in which each case happens: two workers are needed
for a race and a third adds only another copy of the second; three Runs allow a
crashed Run, its recovery and a follow-up; two packages allow a stolen one; two
mapping versions allow a stale one. A clock of four instants lets a lease of two
be taken, expire, be taken over and expire again. In the liveness run of the
projections TLC finds that no behaviour with that many faults uses all five rows
up. One delivery is enough in `Scheduling`, because the same one may be sent, die
and be sent again, and arrive as a new change once it was read.

In `sources` each kind has the items its hazards take: Drive two folders and a
file (a move, a rename and a child that changed before), Gmail two messages and
`MaxMessages` 1, so that every backfill parks; the others two items, for
two versions in one package and for stamps that are equal. A Binding is pointed
elsewhere once and not back, and history expires whenever it may, except where
that only repeats a state. `subscriptions` has one row, since rows share nothing
but their callers (the proof covers any number), and lifetimes below, at and
above the lead. `projecting` has two records for batches and races; nodes of a
mapping nest one level. A batch of `fetching` contents was chosen for what goes
wrong with sheets: colliding, reserved and unusable headers, blank cells and
rows, keys that repeat or are missing, a key that is a suffixed name, merged
ranges, no rows and no file. Two sends of the session and five attempts of
Google's and Graph's clients let each level give up, and a Retry-After above the
cap lets Graph's budget end before its attempts do.
A token lapses at most once in a Run; stored material is lost only between Runs,
because it is read only then.

`CHECK_DEADLOCK FALSE` is set where behaviours really end: when the clock, the
rows, the packages or the faults of the instance are used up, or a Connection
stays out of service. Kills in `RunLifecycle` are not bounded.

## Fairness

* a worker that is in the middle of a call and is not killed goes on (weak
  fairness of its `Progress`, in `Fetching` of `Execute`): it is a process that
  runs Python, and every request ends, by a timeout at the latest;
* the clock passes the deadline of a lease nobody holds;
* the periodic entries fire: `beat_schedule` has one each for
  `run_due_bindings`, `reap_stale_runs` and `dispatch_pending_projections`, and
  its docstring says why they must be installed. In `Sources` this is that Runs
  keep starting: its `Progress` holds the beginning of a Run, the steps of its
  feed and the load.

Nothing is assumed about new work arriving, about dispatches arriving or about
sources succeeding, except where a property says so: `CatchesUp` is for
behaviours in which, from some point on, the provider is quiet, no Run fails and
nobody points the Binding elsewhere. `RunningEnds` assumes that the
kills stop at some point: a row taken again and again by workers that die would
hold the reaper off. `EveryChangeRead` assumes that faults stop and that the
Binding stays usable from some point on, `QueuedRunEnds` also that Runs by hand
stop: without end they could keep the floor (`min_run_interval`) from ever
passing. `EveryRunEnds` assumes nothing of the provider: it may throttle for ever.

## What is proved

Each theorem is `Spec => []P` or `Spec => [][A]_vars`, for every value of the
constants under the named assumptions; four are about operators, and
`TombstonesRunOn` has one more hypothesis (`KeysSpeak`, below). What the named
assumptions say is that bounds are naturals, batch sizes positive, model values
differ, sets are finite where they are counted or read in batches, a minting
backend serves its own provider; and of a source (`SyncAssumption`,
`BeforeAssumption`, `FirstAssumption`, `DriveAssumption`) that what the provider held before the Binding existed is a
history a provider can have: in time order, over when it is over, each folder in
a folder. For sheets they say that dlt's naming gives names
(`TablesAssumption`), and that a grid is made of texts and absent cells, a merged
range has corners and no two worksheets share a name (`ContentsAssumption`); of
dlt's session, that it sends a request at least once (`RequestsAssumption`).
Where `P` is not inductive the proof module has the invariant that is.

* `LeaseProofs`: `IInv` is the type invariant, that tokens in use are fresh ones,
  that an acquire began at an instant not after now, and that a live holder's
  token is the row's. The last conjunct alone is not inductive: a token that is
  still to be inserted must not be that of another worker, and an UPDATE with an
  old instant must not match a row that is still live. `Refinement` maps the row
  to its owner and shows that each statement is a step of `LeaseContract` or a
  stutter.
* `RunProofs`: `RunInv` joins `Typed`, `Held` (a worker between acquire and
  release is among the holders, and unless a lease overran the holder is unique),
  `Recovering`, `Known`, `Fresh` (what is in hand was extracted by the Run in
  hand unless it is a recovery Run) and the two properties. `SucceededMeansFetched`
  needs to know that while one worker is in its try block nobody else moves
  packages; `CreditedToExtractor` also that a Run that goes on to extract found
  nothing pending.
  Three more invariants stand beside it. `PipelineInv`: at most one
  package is pending, a load takes all that is normalized, and what a worker
  verified is on no row yet; it gives `GreenMeansDrained`, and that `_verify`
  refuses nothing of a worker that is alone. `RecordInv` says what the row of a
  Run reads while a worker has it, that no Run is in two hands, and that what
  the reaper selected has no worker and gets none. Every part of it excuses the
  Runs whose task was delivered twice, one by one, since `FinishedStaysFinished`
  and `ReaperSparesTheLiving` promise something for the others. `CreditInv` is
  `LandedIsCredited` itself, inductive beside the other two.
* `ProjectionProofs`: `ProjectionInv` joins `Typed`, `Existing`, `Claimed`,
  `Versioned`, `AllWritten`, `Sole` and `Deserted`. `ClaimedOnce` needs that a row
  still in the queue has no claim; `RunsItsVersion` that no copy in a worker's
  hand is older than the row it loaded, reaping loops included; `VerdictStands`
  that a row is executed by the worker that claimed it, and that a row the reaper
  selected has no executor, each unless the row is excused.
* `SchedulingProofs`: `SchedulingInv` adds to the types that the sweeps about to
  queue a Run hold values that are neither the Binding's nor one another's.
  `NothingElseForgets` is proved action by action.
* `SourcesProofs`, over any items, folders, histories, page and message limits:
  `WrongIds` (a wrong id fails its Run), `RowsRemembered` (a live row of Drive can
  still be taken away) and `NeverAhead` (what the committed cursor claims to have
  read is in the table, for each of the nine kinds). `Common` is what all kinds
  share: the types, the log and what it says of each item, and that a package
  holds versions of the log. Each kind then has its own account of what is yielded
  when the cursor moves: `GraphInv` up to which page, `GmailInv` which messages
  are still to be fetched, listed or parked, `CursorInv` which part of a query
  came by, `FileInv` and `DriveInv` for single files and for what a package of
  Drive removes.
  Drive's cold walk and folders need `TreeInv`: the provider's folders have no
  cycle (`Acyclic`); the folders and files in the entry form a tree below the
  scope (`Rooted`); what the entry says of anything that has not changed since its
  token is `Right`; and the entry has every item that is `Plain` (in scope, with
  no folder on the way that changed after what is in it) and that old
  (`Complete`). While a walk lasts only the folders already listed are covered
  (`Found`); that nothing is left out when none is pending is where `Acyclic` is
  needed: missing items would each be in a missing folder, for ever.
  That a set of changes has a latest and a listing a last one rests on
  well-founded minima (`Least`, `Greatest`), not on an induction.
* `StandingProofs`: `Accounted` joins `Typed`, `RevokerDead` (a worker that is
  about to block holds a credential the provider refuses), `Overlapped` (a Run
  and an operation that are under way together say so), `RowsAccounted` and
  `CursorAccounted`. The last two follow rows and cursor through every step of a
  purge, where neither property holds by itself: from the first table that is
  dropped to the drop of the state a cursor does stand beyond rows that are gone,
  and a purge that stops there must leave its cause behind.
* `OutsideProofs`, the host. `HostIsRight` is `HostShowsLanding`, over any workers,
  rows, mappings, targets, batch sizes and number of packages. Its invariant
  `HostInv` joins the shape of the state, `Faithful` (a record in a run's hand, of
  a row that is still as it was, is what the run's mapping makes of that row),
  `ReplayedAsIs` (a replay that wrote with an earlier mapping shows as an edit)
  and `Accounted`: unless only a replay can help, each row that projects is shown
  by the host, or a run owes it, or its identity is astray or muted by another
  row, or a replay is still to write it; and each record of the host has a row
  behind it, for one of the same reasons. A batch is where it is hard: what it
  leaves of an identity is the last word of its records (`HostSettled`), and that
  has to be the word of the row as it is (`SettledTold`).
  `BatchesAreOne` is `BatchesDoNotMatter`. Its invariant `AllInStep` compares the
  host, for each run that was alone with it, with one batch of all the records
  written so far, and rests on the algebra of `Batches`: `BoundaryDoesNotMatter`
  says that two batches leave the host with what one batch of their records
  would, and `BatchesMayBeCutAnywhere` that any number do, of any sizes.
  `TombstoneNamesItsRow` says of every mapping the validator accepts that a
  tombstone deletes the identity its live row was upserted under, because a node
  reads nothing but its columns; the mapping must not read an identity from
  `_connector_deleted`. `TombstonesRunOn` is `TombstonesProject` for mappings of
  which `KeysSpeak` is true: accepted, they make a record of some row of each key
  and satisfy that condition. It is about the constants and the resource, and TLC,
  asked for it on the instance of the run `projecting`, finds it true throughout.
  Without it the statement is false: a key whose text does not cast fails its run
  under the policy `fail`, tombstone or not.
  The first attempt at `HostIsRight` failed for a reason: the history it excused
  the host with was too coarse, and with three packages TLC finds a host that
  shows a row nothing excuses, which the run with two never reached. `astray` and
  `behind` are what the proof needed in its place.
* `OutsideProofs`, subscriptions: `Known` joins the types, `Kept` (the provider keeps a
  registration for its lifetime), `AllSound` (row, provider and what callers have
  in hand agree, unless an excuse is recorded) and `DueBeforeItLapses`. The
  arithmetic of `Lead` and `RenewAt` is proved for every lifetime and every lead.
* `FetchingProofs`: `FetchInv` is that a Run's token has lapsed only where tokens
  are minted, and `BlamedForCause`; the lemmas below it go through every answer
  and every refusal each provider may give.
  `NamesAreDistinct` is about `ColumnNames`, for every header, width and set of
  reserved names: each column gets a name of its own that is not reserved, and
  that of its header unless it is taken. Names are a recursive function, whose
  equation `NamesExist` establishes; what it computes is shown at the least
  column at which it would fail.
  `ContentLanded` says that after the latest edit came through the table shows
  the rows that the present content is read as under the present configuration
  (`ShowsContent`). `LandInv` is its invariant: it follows the mark (what is
  recorded of the content), the rows in a Run's hand and the table through edits
  of either. A Run that skips must know that the mark it read is still the
  recorded one and speaks for the configuration it holds; one that read the
  content before an edit must not record the mark of after it.
  `SheetLanded` is `LandsTheSheet`. It joins `ContentLanded` to `ReadAs`: the
  rows that are read are one for each row that shows something and has its key,
  and have each cell under the name of its column. `RangeReadAs` and
  `BookReadAs` prove that of a spreadsheet's range and of a workbook, from
  `ColumnsAre` (a column is found by its name, and a merge key finds the column
  that `KeyAt` says it means, suffixed or not; since each name is made from those
  before it alone, `NamesPrefix`, it does not matter how wide the grid is) and
  `GridIs` (what is cut off a worksheet shows nothing, and what is left shows what
  the sheet does, merged ranges included).
  The proof found two things the runs had not: the file's columns replace a
  sheet's of the same name, which the model used to drop, and a merge key that
  is such a column is the same in every row of a file (see below).

Model-checked only: everything about liveness (`DeadWorkerDoesNotBlock`,
`RunningEnds`, `EveryLoadProjected`, `EveryChangeRead`, `QueuedRunEnds`,
`CatchesUp`, `EveryRunEnds`), since fairness and `ENABLED` are out of the prover's
reach. Each invariant and each action property of a run is stated by a theorem.

## What the code does not do

Statements of the documentation that do not hold, each an entry under "findings"
in `PROJECT.json`. The properties hold because each excuses its case by name;
without the excuse TLC finds it.

1. *One Run per Binding*: not once a Run outlasts `run_timeout`; `locks.renew`
   has no caller.
2. *`run_binding_task` is safe to deliver twice*: `run_binding` does not look at
   the Run's status, so the second delivery runs again and `_succeed` replaces
   `dlt_load_ids`.
3. *A ProjectionRun that is no longer queued is returned as it is*: after a
   mapping change `execute` saves SUPERSEDED on it whatever its status.
4. *A stale run is refused rather than executed*: the version is compared with
   an object read before the claim, and never again.
5. *A delivery during a Run earns a follow-up Run*: the sweep dispatches it while
   the first Run still holds the lease, and `run_binding` records a skip.
6. *A Binding that landed data cannot be deleted until its tables are dropped*:
   `landing_purged_at` outlives the purge, so one that was purged, enabled again
   and has landed rows is deleted with its tables left behind.
7. *A reset that clears the cursor*: `purge_binding_landing` only logs when
   `pipeline.drop()` fails, and the reset reports the cursor as cleared.
8. *Dropping the tables of a reset is the only way to lose rows that the source
   will never send again*: a purge that raises after it has dropped some of the
   tables puts the Binding's status back and keeps the cursor
   (`landing/access.py:217-237`, `services/retention.py:61-64`), and the next Run
   reads on from there.
9. *Only folders moved into scope hide their children* in Drive: any later change
   of a folder created in scope does, since the feed lists an item once.
10. *A 404 on an item no run has landed is a wrong id*: in `microsoft/files.py`
   the flag is kept per resource, so a second, wrong id lands a tombstone.
11. *`renew_at` is always strictly before `expires_at`, never equal to it*: after
    a failed renewal it is the earlier of a retry and the expiry
    (`webhooks/services.py:366`), and close to the expiry that is the expiry.
12. *A deleted subscription stops accepting immediately*: a renewal in flight
    saves it as active again.
13. *Projection observes deletions*: a filter on a column outside the merge key
    stops the tombstone, where that column is NULL.
14. *Drift promotes no Projection a validator marked invalid*: it does, for the
    reasons drift does not look for.
15. to 17. *Anything else must be some other exception*: an expired certificate in
    front of Google's token endpoint reads as an expired credential, and a Run
    that outlives its token or session (Microsoft, Salesforce) as a revoked one.

Smaller observations that are part of the models and no findings: the replay key
is set before the Run is queued, so a request that dies in between turns the
provider's retry into a duplicate; the floor is computed from finished attempts,
so a Run queued while another executes may start right after it; a replay whose
filter leaves no record replaces nothing (`projections/runner.py:180`); unpivoted
resources emit no tombstones, so a stage that disappears stays with the host; a
merge key of a workbook that is one of the file's columns (`_file_name`) passes
the check, because the sheet has a column of that name, and merges the rows of
each sheet into one, because the file's value then takes that column's place
(`providers/microsoft/excel.py:431`); the validator accepts an identity that is
read from `_connector_deleted` (`projections/validator.py:218`), and a tombstone
then names another identity than its row did; a
host whose clock is wrong is refused as one with a bad key is.

## External parts

Modelled from how this code uses them: dlt (packages, merge on the declared key,
any of two rows that share it unless told how to sort, state committed with its
package and forgotten after `pipeline.drop()`, the Incremental's closed lower
bound), the providers (feeds list each item at its latest change, pages of a
query end, an API that takes a cursor lists by it), dlt's session (it sends a
request `DLT_MAX_ATTEMPTS` times at most and then gives back the last answer, or
none), the task queue (a message is
delivered, twice or not at all), the host's writer (records by identity), an adapter for
webhooks (a moment of renewal that it names is before the expiry it names).

## Not modelled

* preview and discovery of remote resources, which only read; the shape of file
  and message records, content downloads, OAuth scopes, the consent handshake of
  Entra, assertion signing, encryption of secrets;
* `last_value_func: "min"` and dlt's paginators in REST; mapping nodes nested
  deeper than one level; columns that gain variants;
* the look-back horizon of the projection sweep (it covers every load) and two
  editors of one mapping at once, who would share a version;
* in `ProjectionRuns`, a Binding that is being purged, which the rescue and the
  sweep (`SelectDropped`, `SweepRead`) leave alone: `EveryLoadProjected` is about
  Bindings that are not; `StringField.max_length` in `Coerce`; a Drive scoped by a
  glob or to all of a user's files; the requests of a token endpoint one by one
  (their retries end, and the last refusal is what is read);
* several Bindings in one sweep, `limit` and its order, `tick`'s isolation of its
  steps, the rate limit, the size cap and signature checks of an endpoint;
* naming limits, index DDL, cache warming, schema snapshots and metrics;
* the HTTP API, the admin beyond the saves in `Standing`, settings, registries,
  the conformance kit and the migrations, which hold no state that changes
  while the system runs, or only tests it.

## What could follow

Two editors and the horizon in `ProjectionRuns`; the admission of a webhook (rate window and replay window, both
on a cache that may drop keys) as a module before `Scheduling`.
