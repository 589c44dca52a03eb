------------------------------- MODULE Mapping -------------------------------
(***************************************************************************)
(* projections/compiler.py, fields.py, targets.py and validator.py: what a *)
(* customer's mapping is, which mappings are accepted for a target, and    *)
(* what one of them makes of a landed row.                                 *)
(*                                                                         *)
(* A mapping is the JSON as it is written: a record per node, whose domain *)
(* is the set of keys that are there.  A value is its type, how its text   *)
(* reads, and which one it is; nodes nest one level deep (32 in the code). *)
(***************************************************************************)
EXTENDS Naturals, Sequences, FiniteSets, SequencesExt, FiniteSetsExt

Value(type, form, n) == [t |-> type, form |-> form, n |-> n]
Null == Value("null", "", 0)
Text(form, n) == Value("text", form, n)

\* One row's data is at fault, or the mapping is.
CastFails == Value("error", "InvalidRecordError", 0)
NoColumn == Value("error", "MappingValidationError", 0)
Failed(v) == v.t = "error"

Numeric == {"bigint", "double", "decimal"}
Numerals == {"whole", "scaled", "fraction"}   \* 5, 5.00 and 5.25

-----------------------------------------------------------------------------
(* fields.py *)

CastOptions ==
    LET number == {"strip", "decimal_separator"}
    IN  [string |-> {}, boolean |-> {}, json |-> {},
         integer |-> number, decimal |-> number, float |-> number,
         datetime |-> {"format", "timezone"}, date |-> {"format"}]
OptionKeys == UNION {CastOptions[c] : c \in DOMAIN CastOptions}

CompatibleTypes ==
    [string   |-> {"text", "bigint", "double", "bool", "timestamp", "date",
                   "time", "decimal"},
     integer  |-> {"bigint", "double", "bool", "text", "decimal"},
     decimal  |-> {"decimal", "bigint", "double", "text"},
     float    |-> {"double", "bigint", "decimal", "text"},
     boolean  |-> {"bool", "bigint", "text"},
     datetime |-> {"timestamp", "date", "text", "bigint"},
     date     |-> {"date", "timestamp", "text"},
     json     |-> {"json", "text"}]
UnmappableTypes == {"wei", "binary"}

\* int() of what is no float reads the text, so 5.00 is no integer.
ToInteger(v) ==
    IF v.t \in {"bool", "bigint"} \/ (v.t = "double" /\ v.form # "fraction")
       \/ (v.t # "double" /\ v.form = "whole")
    THEN Value("bigint", "whole", v.n) ELSE CastFails
ToNumber(type, native, v) ==
    IF v.t \in native \/ v.form \in Numerals THEN Value(type, v.form, v.n)
    ELSE CastFails
ToBoolean(v) ==
    IF v.t \in {"bool", "bigint", "double"}
       \/ v.form = "flag" \/ (v.form = "whole" /\ v.n \in {0, 1})
    THEN Value("bool", "flag", IF v.n = 0 THEN 0 ELSE 1) ELSE CastFails
ToDateTime(v, format) ==
    IF \/ v.t \in {"timestamp", "date", "bigint", "double", "bool"}
       \/ v.form \in (IF format THEN {"local"} ELSE {"date", "moment"})
    THEN Value("timestamp", "moment", v.n) ELSE CastFails
ToDate(v, format) ==
    IF \/ v.t \in {"timestamp", "date"}
       \/ v.t = "text" /\ v.form = IF format THEN "local" ELSE "date"
    THEN Value("date", "date", v.n) ELSE CastFails
ToJson(v) ==
    CASE v.t \in {"json", "object"} -> v
      [] v.t = "text" /\ v.form \in {"json", "flag"} \cup Numerals ->
           Value("json", v.form, v.n)
      [] OTHER -> CastFails

\* Field.coerce: None is never read.
Coerce(kind, format, v) ==
    IF v.t \in {"null", "error"} THEN v
    ELSE
    CASE kind = "string"   -> Text(v.form, v.n)
      [] kind = "integer"  -> ToInteger(v)
      [] kind = "decimal"  -> ToNumber("decimal", Numeric, v)
      [] kind = "float"    -> ToNumber("double", Numeric \cup {"bool"}, v)
      [] kind = "boolean"  -> ToBoolean(v)
      [] kind = "datetime" -> ToDateTime(v, format)
      [] kind = "date"     -> ToDate(v, format)
      [] kind = "json"     -> ToJson(v)

-----------------------------------------------------------------------------
(* compiler.py: which mappings compile *)

Has(spec, key) == key \in DOMAIN spec
Forms == {"source", "constant", "object", "function"}
FormsOf(spec) == DOMAIN spec \cap Forms
Is(spec, form) == FormsOf(spec) = {form}

OptionValid(spec, o) ==
    CASE o = "strip" ->
           LET point == IF Has(spec, "decimal_separator")
                        THEN spec.decimal_separator ELSE "."
           IN  point \notin spec.strip
      [] o = "decimal_separator" -> spec.decimal_separator \in {".", ","}
      [] OTHER -> spec[o] # "unknown"

\* _compile_cast and make_cast.
CastCompiles(spec) ==
    LET options == DOMAIN spec \cap OptionKeys
    IN  IF ~ Has(spec, "cast") THEN options = {}
        ELSE /\ spec.cast \in DOMAIN CastOptions
             /\ options \subseteq CastOptions[spec.cast]
             /\ \A o \in options : OptionValid(spec, o)

LeafCompiles(spec) ==
    /\ CastCompiles(spec)
    /\ \/ Is(spec, "constant")
       \/ /\ Is(spec, "source")
          /\ spec.source # ""
          /\ Has(spec, "json_path") => spec.json_path # ""

NodeCompiles(spec) ==
    \/ LeafCompiles(spec)
    \/ /\ Is(spec, "object")
       /\ CastCompiles(spec)
       /\ DOMAIN spec.object # {}
       /\ \A key \in DOMAIN spec.object : LeafCompiles(spec.object[key])
    \/ /\ Is(spec, "function")
       /\ CastCompiles(spec)
       /\ spec.function \in {"coalesce", "concat", "lower", "upper"}
       /\ Has(spec, "args") /\ spec.args # <<>>
       /\ spec.function \in {"lower", "upper"} => Len(spec.args) = 1
       /\ \A n \in DOMAIN spec.args : LeafCompiles(spec.args[n])

Unary == {"is_null", "is_not_null"}
Operators ==
    Unary \cup {"eq", "ne", "gt", "lt", "gte", "lte", "in", "not_in",
                "contains", "startswith", "endswith"}

FilterCompiles(f) ==
    /\ Has(f, "field") /\ f.field # ""
    /\ Has(f, "op") /\ f.op \in Operators
    /\ f.op \in Unary \/ Has(f, "value")

\* compile_mapping; doc is a Projection's mapping and filters.
Compiles(doc) ==
    /\ DOMAIN doc.mapping # {}
    /\ \A field \in DOMAIN doc.mapping : NodeCompiles(doc.mapping[field])
    /\ \A f \in doc.filters : FilterCompiles(f)

-----------------------------------------------------------------------------
(* compiler.py: what a node makes of a row *)

\* Whatever is not there, or is no JSON, is None.
WalkJson(v) == IF v.form = "json" THEN Text("word", v.n) ELSE Null

Cast(spec, v) ==
    IF Has(spec, "cast") THEN Coerce(spec.cast, Has(spec, "format"), v) ELSE v

EvaluateSource(spec, row) ==
    IF spec.source \notin DOMAIN row
    THEN IF Has(spec, "default") THEN spec.default ELSE NoColumn
    ELSE LET raw == row[spec.source]
             v == IF Has(spec, "json_path") THEN WalkJson(raw) ELSE raw
         IN  IF v = Null /\ Has(spec, "default") THEN spec.default
             ELSE Cast(spec, v)

EvaluateLeaf(spec, row) ==
    IF Is(spec, "constant") THEN spec.constant ELSE EvaluateSource(spec, row)

\* The first of vs that satisfies Test, else otherwise.
First(vs, Test(_), otherwise) ==
    LET hits == {n \in DOMAIN vs : Test(vs[n])}
    IN  IF hits = {} THEN otherwise ELSE vs[Min(hits)]

Coalesce(vs) == First(vs, LAMBDA v : v # Null, Null)
Concat(vs) ==
    LET Join(text, v) == Text("word", 10 * text.n + v.n)
    IN  First(vs, Failed, FoldLeft(Join, Text("word", 0), vs))

\* Texts come in pairs that differ in case, an even one and the next.
FoldCase(v) == IF v = Null \/ Failed(v) THEN v
               ELSE Text(v.form, 2 * (v.n \div 2))

Apply(spec, vs) ==
    Cast(spec, CASE spec.function = "coalesce" -> Coalesce(vs)
                 [] spec.function = "concat" -> Concat(vs)
                 [] OTHER -> FoldCase(vs[1]))

EvaluateObject(vs) ==
    IF \E v \in vs : Failed(v) THEN CHOOSE v \in vs : Failed(v)
    ELSE Value("object", "json", 0)

Evaluate(spec, row) ==
    CASE Is(spec, "object") ->
           EvaluateObject({EvaluateLeaf(spec.object[key], row) :
                              key \in DOMAIN spec.object})
      [] Is(spec, "function") ->
           Apply(spec, [n \in DOMAIN spec.args |->
                          EvaluateLeaf(spec.args[n], row)])
      [] OTHER -> EvaluateLeaf(spec, row)

ColumnOf(leaf) == IF Is(leaf, "source") THEN {leaf.source} ELSE {}
SourceColumns(spec) ==
    CASE Is(spec, "object") ->
           UNION {ColumnOf(spec.object[key]) : key \in DOMAIN spec.object}
      [] Is(spec, "function") ->
           UNION {ColumnOf(spec.args[n]) : n \in DOMAIN spec.args}
      [] OTHER -> ColumnOf(spec)

MappedColumns(doc) ==
    UNION {SourceColumns(doc.mapping[f]) : f \in DOMAIN doc.mapping}
    \cup {f.field : f \in doc.filters}

-----------------------------------------------------------------------------
(* compiler.py: filters *)

Truth(v) == IF v.t = "text" THEN v.form # "empty" ELSE v.n # 0
LooseEqual(a, b) ==
    \/ a = b
    \/ "bool" \in {a.t, b.t} /\ Truth(a) = Truth(b)
    \/ a.t \in Numeric /\ b.t \in Numeric /\ a.n = b.n
    \/ /\ {a.t, b.t} \in {{"text", type} : type \in Numeric}
       /\ a.form \in Numerals /\ b.form \in Numerals
       /\ a.n = b.n

\* What cannot be compared does not match; a NULL matches is_null only.
FilterMatches(f, row) ==
    LET v == IF f.field \in DOMAIN row THEN row[f.field] ELSE Null
        ordered == f.value.t = v.t \/ {f.value.t, v.t} \subseteq Numeric
    IN  IF f.op \in Unary THEN (v = Null) = (f.op = "is_null")
        ELSE /\ v # Null
             /\ CASE f.op = "eq" -> LooseEqual(v, f.value)
                  [] f.op = "ne" -> ~ LooseEqual(v, f.value)
                  [] f.op = "in" -> \E x \in f.value : LooseEqual(v, x)
                  [] f.op = "not_in" ->
                       \A x \in f.value : ~ LooseEqual(v, x)
                  [] f.op \in {"contains", "startswith", "endswith"} ->
                       v.n = f.value.n
                  [] f.op = "gt" -> ordered /\ v.n > f.value.n
                  [] f.op = "lt" -> ordered /\ v.n < f.value.n
                  [] f.op = "gte" -> ordered /\ v.n >= f.value.n
                  [] f.op = "lte" -> ordered /\ v.n <= f.value.n

Matches(doc, row) == \A f \in doc.filters : FilterMatches(f, row)

-----------------------------------------------------------------------------
(* targets.py: target.fields gives each field its kind, required or not *)

Required(target) == {f \in DOMAIN target.fields : target.fields[f].required}

\* TargetDefinition refuses anything else.
TargetDefined(target) ==
    /\ target.identity # {}
    /\ target.identity \subseteq DOMAIN target.fields
    /\ \A f \in target.identity : target.fields[f].kind # "json"

-----------------------------------------------------------------------------
(* validator.py *)

\* Columns the library adds to every landed row, tombstones included.
InternalColumns == {"_connector_binding_id", "_connector_deleted"}

FieldErrors(doc, target) ==
    LET nodes == DOMAIN doc.mapping
    IN  {e \in {"unknown", "required", "identity"} :
           CASE e = "unknown" -> ~ nodes \subseteq DOMAIN target.fields
             [] e = "required" -> ~ Required(target) \subseteq nodes
             [] e = "identity" -> ~ target.identity \subseteq nodes}

\* columns: the dlt type of each landed column.
Typed(doc, target, columns) ==
    {p \in (DOMAIN doc.mapping \cap DOMAIN target.fields)
                    \X (MappedColumns(doc) \cap DOMAIN columns) :
        p[2] \in SourceColumns(doc.mapping[p[1]])}
ColumnErrors(doc, target, columns) ==
    {e \in {"columns", "unmappable"} :
        CASE e = "columns" -> ~ MappedColumns(doc) \subseteq DOMAIN columns
          [] e = "unmappable" ->
               \E p \in Typed(doc, target, columns) :
                  columns[p[2]] \in UnmappableTypes}
TypeWarning(doc, target, columns) ==
    \E p \in Typed(doc, target, columns) :
        /\ columns[p[2]] \notin UnmappableTypes
        /\ columns[p[2]] \notin CompatibleTypes[target.fields[p[1]].kind]

IdentityNodes(doc, target) ==
    {doc.mapping[f] : f \in target.identity \cap DOMAIN doc.mapping}
NotScalar(doc, target) ==
    \E node \in IdentityNodes(doc, target) :
        \/ Is(node, "object")
        \/ Has(node, "cast") /\ node.cast = "json" /\ ~ Is(node, "constant")

IdentityColumns(doc, target) ==
    UNION {SourceColumns(node) : node \in IdentityNodes(doc, target)}

\* Mutant: a tombstone is taken to carry every column.
AlwaysObtainable(doc, target, key) == FALSE

\* A tombstone carries the merge key only.
Unobtainable(doc, target, key) ==
    /\ key # {}
    /\ ~ IdentityColumns(doc, target) \subseteq key \cup InternalColumns

\* landed: what is known of the landed resource; nothing before its first Run.
Errors(doc, target, landed) ==
    IF ~ Compiles(doc) THEN {"mapping"}
    ELSE FieldErrors(doc, target)
         \cup IF ~ landed.known THEN {}
              ELSE ColumnErrors(doc, target, landed.columns)
                   \cup (IF NotScalar(doc, target) THEN {"scalar"} ELSE {})
                   \cup (IF landed.emits
                            /\ Unobtainable(doc, target, landed.key)
                         THEN {"obtainable"} ELSE {})

Warned(doc, target, landed) ==
    \/ ~ landed.known
    \/ TypeWarning(doc, target, landed.columns)
    \/ landed.emits /\ ~ landed.key \subseteq IdentityColumns(doc, target)
    \/ landed.emits /\ landed.key = {}

StatusFor(doc, target, landed) ==
    IF Errors(doc, target, landed) # {} THEN "invalid"
    ELSE IF Warned(doc, target, landed) THEN "needs_review" ELSE "active"
=============================================================================
