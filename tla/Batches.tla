------------------------------- MODULE Batches -------------------------------
(***************************************************************************)
(* projections/runner.py _collapse, and what the host's writer makes of    *)
(* what it is handed: a batch of records becomes one record for each       *)
(* identity.                                                               *)
(***************************************************************************)
EXTENDS Naturals, Sequences, FiniteSetsExt

Ids(batch) == {batch[n].id : n \in DOMAIN batch}
Deletes(batch) ==
    {batch[n].id : n \in {m \in DOMAIN batch : batch[m].op = "delete"}}
Upserts(batch, i) ==
    {n \in DOMAIN batch : batch[n].id = i /\ batch[n].op # "delete"}

Collapsed(batch, ids) ==
    [upserts |-> [i \in ids |-> batch[Max(Upserts(batch, i))].values],
     deletes |-> Deletes(batch)]

\* Mutant: what earlier batches deleted is forgotten.
CollapseBatch(batch, deleted) ==
    Collapsed(batch, Ids(batch) \ Deletes(batch))

\* _collapse: one record for each identity; a delete wins over the whole run.
Collapse(batch, deleted) ==
    Collapsed(batch, Ids(batch) \ (Deletes(batch) \cup deleted))

\* The host's writer: by identity, and the whole scope anew when the first
\* batch of a replay says so.
Merged(records, collapsed) ==
    LET new == collapsed.upserts
        kept == DOMAIN records \ collapsed.deletes
    IN  [i \in kept \cup DOMAIN new |->
            IF i \in DOMAIN new THEN new[i] ELSE records[i]]
Written(records, collapsed, replace) ==
    Merged(IF replace THEN <<>> ELSE records, collapsed)
=============================================================================
