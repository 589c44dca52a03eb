------------------------------ MODULE GmailSync ------------------------------
(***************************************************************************)
(* providers/google/gmail.py: messages through users.history, which        *)
(* expires, and a full listing that may be parked and resumed.             *)
(***************************************************************************)
EXTENDS Sync

CONSTANT MaxMessages   \* max_messages_per_run

\* history: gmail_history_id, if synced; parked: what the page token of a
\* parked backfill has listed already, if resume; mark: its watermark.
GmailInit == res = [history |-> 0, synced |-> FALSE,
                    parked |-> {}, mark |-> 0, resume |-> FALSE]

GmailHost(i, m) == IF Alive(i, m) THEN LastOf(i, m) ELSE 0

\* A message arrives, its labels change, or it is deleted for good.
GmailChange(i) ==
    /\ LastOf(i, Now) = 0 \/ Alive(i, Now)
    /\ \E gone \in BOOLEAN : /\ gone => Alive(i, Now)
                             /\ Change(i, 0, gone)

\* _emit_messages.
GmailStart ==
    /\ kind = "gmail"
    /\ Begin([pc |-> IF res.synced /\ ~ res.resume THEN "history"
                                                   ELSE "profile",
              pos |-> res.history, changed |-> {}, deleted |-> {}])

-----------------------------------------------------------------------------
(* The incremental path *)

Ids(positions, gone) ==
    {log[n].id : n \in {k \in positions : log[k].gone = gone}}

\* A page of users.history.list.
HistoryPage ==
    /\ Reading("gmail", "history")
    /\ job.pos >= floor
    /\ \E q \in job.pos + 1 .. Now :
          Go([pos |-> q,
              changed |-> job.changed \cup Ids(job.pos + 1 .. q, FALSE),
              deleted |-> job.deleted \cup Ids(job.pos + 1 .. q, TRUE)])

\* 404, before anything is yielded.
HistoryTooOld ==
    /\ Reading("gmail", "history")
    /\ job.pos < floor
    /\ Go([pc |-> "profile"])

\* The last page: its historyId is the mailbox's latest.
Plan ==
    /\ Reading("gmail", "history")
    /\ job.pos = Now
    /\ Go([pc |-> "fetch", changed |-> job.changed \ job.deleted])

\* _fetch_message: None for a message that is gone.
Fetched(i, ifGone) == IF Alive(i, Now) THEN {Record(i)} ELSE ifGone

FetchChanged ==
    /\ Reading("gmail", "fetch")
    /\ \E i \in job.changed :
          Go([changed |-> job.changed \ {i},
              batch |-> Yield(Fetched(i, {Tombstone(i)}))])

EmitDeleted ==
    /\ Reading("gmail", "fetch")
    /\ job.changed = {}
    /\ Finish([job.res EXCEPT !.history = job.pos],
              {Tombstone(i) : i \in job.deleted}, {})

-----------------------------------------------------------------------------
(* The full sync *)

\* The watermark of a parked backfill, or the profile's historyId.
Profile ==
    /\ Reading("gmail", "profile")
    /\ Go([pc |-> "list", todo |-> {}, emitted |-> 0,
           done |-> IF res.resume THEN res.parked ELSE {},
           mark |-> IF res.resume THEN res.mark ELSE Now])

\* What the listing still has to show, of what was there at the watermark.
Unlisted == {i \in Items \ job.done : Alive(i, Now) /\ Alive(i, job.mark)}

\* A page of users.messages.list, and the stubs on it one by one.
ListPage ==
    /\ Reading("gmail", "list")
    /\ job.todo = {}
    /\ \E page \in SUBSET {i \in Items \ job.done : Alive(i, Now)} :
          /\ page # {}
          /\ Go([todo |-> page, done |-> job.done \cup page])

FetchListed ==
    /\ Reading("gmail", "list")
    /\ \E i \in job.todo :
          Go([todo |-> job.todo \ {i}, emitted |-> job.emitted + 1,
              batch |-> Yield(Fetched(i, {}))])

MustPark == Unlisted # {} /\ job.emitted >= MaxMessages

\* Mutant: the listing starts anew instead of where it was parked.
ParkNowhere ==
    /\ Reading("gmail", "list")
    /\ job.todo = {}
    /\ MustPark
    /\ Finish([job.res EXCEPT !.parked = {}, !.mark = job.mark,
                              !.resume = TRUE], {}, {})

\* The cap is reached and there is another page.
Park ==
    /\ Reading("gmail", "list")
    /\ job.todo = {}
    /\ MustPark
    /\ Finish([job.res EXCEPT !.parked = job.done, !.mark = job.mark,
                              !.resume = TRUE], {}, {})

FullSyncEnds ==
    /\ Reading("gmail", "list")
    /\ job.todo = {}
    /\ Unlisted = {}
    /\ Finish([history |-> job.mark, synced |-> TRUE, parked |-> {},
               mark |-> 0, resume |-> FALSE], {}, Items \ job.done)

Gmail ==
    \/ GmailStart \/ HistoryPage \/ HistoryTooOld \/ Plan
    \/ FetchChanged \/ EmitDeleted
    \/ Profile \/ ListPage \/ FetchListed \/ Park \/ FullSyncEnds
=============================================================================
