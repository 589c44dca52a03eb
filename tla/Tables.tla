-------------------------------- MODULE Tables --------------------------------
(***************************************************************************)
(* How google/sheets.py and microsoft/excel.py turn a grid of cells into   *)
(* records.  A grid is a sequence of rows, a row a sequence of cells, and  *)
(* a cell a text; Null is a cell that is not there.  A column's name is    *)
(* <<base>>, or <<base, n>> when a suffix n tells it from the others.      *)
(***************************************************************************)
EXTENDS Naturals, Sequences, FiniteSetsExt, SequencesExt

CONSTANTS Null,
          Blanks,      \* texts of white space
          Identifier   \* dlt's naming: a header's name, <<>> if it has none

IsTuple(name) == /\ Len(name) \in Nat
                 /\ name = [i \in 1 .. Len(name) |-> name[i]]
ASSUME TablesAssumption ==
    \A text \in DOMAIN Identifier : IsTuple(Identifier[text])

IsBlank(cell) == cell = Null \/ cell \in Blanks
Cell(row, i) == IF i <= Len(row) THEN row[i] ELSE Null
Width(grid) == Max({0} \cup {Len(grid[i]) : i \in DOMAIN grid})

-----------------------------------------------------------------------------
(* Column names *)

\* The first of base, base_2, base_3, ... that is not taken.
Free(base, taken) ==
    IF base \notin taken THEN base
    ELSE Append(base, Min({n \in 2 .. Cardinality(taken) + 2 :
                             Append(base, n) \notin taken}))

BaseName(header, i) ==
    LET text == Cell(header, i)
        name == IF IsBlank(text) THEN <<>> ELSE Identifier[text]
    IN  IF name = <<>> THEN <<"column", i>> ELSE name

ColumnNames(header, width, reserved) ==
    LET names[i \in 0 .. width] ==
            IF i = 0 THEN <<>>
            ELSE Append(names[i - 1],
                        Free(BaseName(header, i),
                             reserved \cup Range(names[i - 1])))
    IN  names[width]

Position(columns, name) == CHOOSE i \in DOMAIN columns : columns[i] = name

-----------------------------------------------------------------------------
(* Google: one range of a spreadsheet *)

RowNumberColumn == <<"sheet_row_number">>

CellValue(cell) == IF IsBlank(cell) THEN Null ELSE cell
RowRecord(row, columns, number) ==
    [number |-> number, sheet |-> Null,
     cells |-> [c \in Range(columns) |->
                  CellValue(Cell(row, Position(columns, c)))]]
Populated(record) ==
    \E c \in DOMAIN record.cells : record.cells[c] # Null

\* The records of a range, or that it is refused; spec is a range_spec.
RowsFromValues(grid, spec) ==
    LET columns == ColumnNames(IF spec.header THEN grid[1] ELSE <<>>,
                               Width(grid), {RowNumberColumn})
        first == IF spec.header THEN 2 ELSE 1
        records == {RowRecord(grid[n], columns, n) : n \in first .. Len(grid)}
        filled == {r \in records : Populated(r)}
        keyless == {r \in filled : \E k \in spec.key : r.cells[k] = Null}
    IN  IF grid = <<>> THEN [ok |-> TRUE, rows |-> {}]
        ELSE IF \/ ~ spec.key \subseteq Range(columns)
                \/ keyless # {} /\ spec.missing = "error"
             THEN [ok |-> FALSE, rows |-> {}]
        ELSE [ok |-> TRUE, rows |-> filled \ keyless]

-----------------------------------------------------------------------------
(* Excel: one workbook, a sequence of worksheets *)

FileColumns == {<<"_file_id">>, <<"_file_name">>, <<"_file_path">>,
                <<"_file_modified_at">>, <<"_sheet_name">>, <<"_row_number">>}

\* The content of a merged range is its first cell's, unless unmerged.
FillMerged(grid, merged) ==
    [i \in DOMAIN grid |-> [j \in DOMAIN grid[i] |->
        LET over == {m \in merged : i \in m.top .. m.bottom
                                    /\ j \in m.left .. m.right}
        IN  IF over = {} THEN grid[i][j]
            ELSE LET m == CHOOSE m \in over : TRUE
                 IN  Cell(grid[m.top], m.left)]]

\* Blank rows at the end and blank columns on the right are dropped.
SheetGrid(sheet, unmerge) ==
    LET filled(g, i) == {j \in DOMAIN g[i] : ~ IsBlank(g[i][j])}
        last == Max({0} \cup {i \in DOMAIN sheet.grid :
                                filled(sheet.grid, i) # {}})
        kept == SubSeq(sheet.grid, 1, last)
        grid == IF unmerge THEN FillMerged(kept, sheet.merged) ELSE kept
        width == Max({0} \cup UNION {filled(grid, i) : i \in DOMAIN grid})
    IN  [i \in DOMAIN grid |-> [j \in 1 .. width |-> Cell(grid[i], j)]]

\* config.sheets names worksheets; none named means all that are visible.
SelectSheets(workbook, config) ==
    IF config.sheets # {} THEN {s \in workbook : s.name \in config.sheets}
    ELSE {s \in workbook : ~ s.hidden \/ config.hidden}

SheetRecords(sheet, grid, config) ==
    LET header == IF config.header = 0 THEN <<>> ELSE grid[config.header]
        columns == ColumnNames(header, Width(grid), {})
        first == config.header + config.skip + 1
    IN  {[number |-> n, sheet |-> sheet.name,
          cells |-> [c \in Range(columns) |->
                       grid[n][Position(columns, c)]]] :
             n \in {m \in first .. Len(grid) :
                      \E j \in DOMAIN grid[m] : ~ IsBlank(grid[m][j])}}

\* The sheet's own column loses to a column of the file's of the same name,
\* which is the same in every row but for the sheet's name and the number.
Stamp(record, c) == CASE c = <<"_sheet_name">> -> record.sheet
                      [] c = <<"_row_number">> -> record.number
                      [] OTHER -> Null
Stamped(record) ==
    [record EXCEPT !.cells =
        [c \in DOMAIN @ |-> IF c \in FileColumns THEN Stamp(record, c)
                            ELSE @[c]]]

\* What is not a workbook is Null here.
WorksheetRecords(workbook, config) ==
    LET selected == SelectSheets(workbook, config)
        grid == [s \in selected |-> SheetGrid(s, config.unmerge)]
        used == {s \in selected : grid[s] # <<>>}
    IN  IF \/ workbook = Null
           \/ \E n \in config.sheets : \A s \in workbook : s.name # n
           \/ \E s \in used : config.header > Len(grid[s])
        THEN [ok |-> FALSE, rows |-> {}]
        ELSE [ok |-> TRUE,
              rows |-> UNION {SheetRecords(s, grid[s], config) : s \in used}]

RowsForWorkbook(workbook, config) ==
    LET read == WorksheetRecords(workbook, config)
        blank == {r \in read.rows : \E k \in config.key : IsBlank(r.cells[k])}
    IN  IF \/ ~ read.ok
           \/ \E r \in read.rows : ~ config.key \subseteq DOMAIN r.cells
           \/ blank # {} /\ config.missing = "error"
        THEN [ok |-> FALSE, rows |-> {}]
        ELSE [ok |-> TRUE, rows |-> {Stamped(r) : r \in read.rows \ blank}]
==============================================================================
