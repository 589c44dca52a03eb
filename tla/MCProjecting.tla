---------------------------- MODULE MCProjecting -----------------------------
EXTENDS Projecting

Field(kind, required) == [kind |-> kind, required |-> required]
MCTarget == [fields |-> [ext |-> Field("string", TRUE),
                         name |-> Field("integer", FALSE)],
             identity |-> {"ext"}]

Source(column) == [source |-> column]
Call(f, args) == [function |-> f, args |-> args]
Doc(ext, name, filters) ==
    [mapping |-> [ext |-> ext, name |-> name], filters |-> filters]
MCKeys == [feed |-> {2, 3}, single |-> {2}, wide |-> {2}]
MCBatchSizes == [feed |-> {1, 3}, single |-> {1}, wide |-> {1}]
MCMaxRequests == [feed |-> 0, single |-> 1, wide |-> 1]
Production == [field |-> "tag", op |-> "eq", value |-> Text("whole", 1)]

Marked == Doc(Source("tag"), Source("val"), {})
Plain == Doc(Source("id"), Source("val"), {})
FeedDocs ==
    {Doc(Source("id"), [source |-> "tag", cast |-> "integer"], {}),
     Doc(Source("id"), Source("val"), {Production}),
     Doc(Call("coalesce", <<Source("tag"), Source("id")>>), Source("val"), {}),
     Doc(Call("lower", <<Source("id")>>), Source("val"), {})}
WideDocs ==
    {Doc(Call("concat", <<Source("id"), Source("stage")>>), Source("val"), {}),
     Marked}
MCDocs == [feed |-> FeedDocs,
           single |-> FeedDocs \cup {Plain, Marked},
           wide |-> WideDocs]

WorkerSymmetry == Permutations(Workers)
=============================================================================
