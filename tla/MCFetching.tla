------------------------------ MODULE MCFetching ------------------------------
EXTENDS Fetching

Setup(source, backend, provider) ==
    [source |-> source, backend |-> backend, provider |-> provider]
Workspace == Setup("sheets", "google_workspace", "google")
Allauth == Setup("sheets", "allauth", "google")
Static == Setup("sheets", "static", "google")
Entra == Setup("workbook", "entra", "microsoft")
Salesforce == Setup("soql", "salesforce", "salesforce")
MCSetups == {Workspace, Allauth, Static, Entra, Salesforce}

\* Any cell may be in the header's row.
MCIdentifier ==
    [text \in {"a", "b", "c", "1", "2"} |-> <<text>>]
    @@ ("id" :> <<"id">>) @@ ("ID" :> <<"id">>) @@ ("id 2" :> <<"id", 2>>)
    @@ ("rows" :> <<"sheet_row_number">>) @@ ("name" :> <<"_file_name">>)
    @@ ("?" :> <<>>)

\* Names that collide, also in the key, names reserved, blank cells, ragged and
\* empty rows, no key or the same one twice, and no rows at all.
Grids ==
    {<<<<"id", "ID", "id 2">>, <<"1", "a", "b">>, <<"2">>>>,
     <<<<"id", "rows", "?">>, <<"1", "b", " ">>, <<>>, <<"1", "a", "c">>>>,
     <<<<"?", "id">>, <<"a", "2">>, <<"b", "", "c">>>>,
     <<>>}
Range1(key, header, missing, skip) ==
    [key |-> key, header |-> header, missing |-> missing,
     skip_unchanged |-> skip]
RangeSpecs ==
    {Range1({<<"id">>}, TRUE, "error", TRUE),
     Range1({<<"id", 2>>}, TRUE, "skip", TRUE),
     Range1({<<"column", 1>>}, FALSE, "skip", FALSE),
     Range1({}, TRUE, "error", FALSE),
     Range1({}, TRUE, "error", TRUE)}

Worksheet(name, hidden, grid, merged) ==
    [name |-> name, hidden |-> hidden, grid |-> grid, merged |-> merged]
Block(top, left, bottom, right) ==
    [top |-> top, left |-> left, bottom |-> bottom, right |-> right]
First(grid, merged) == Worksheet("first", FALSE, grid, merged)
Second == Worksheet("second", TRUE, <<<<"id">>, <<"1">>>>, {})
Third == Worksheet("third", FALSE, <<>>, {})
Workbooks ==
    {{First(<<<<"id", "ID", "name">>, <<"1", "a", "b">>,
              <<Null, Null, Null>>, <<"2", " ", "c">>>>, {}), Second},
     {First(<<<<"a", Null>>, <<"id", "id 2">>, <<"1", "b">>,
              <<Null, "c">>>>, {Block(3, 1, 4, 1)}), Second, Third},
     Null}
Book(key, header, skip, sheets, hidden, unmerge, missing) ==
    [key |-> key, header |-> header, skip |-> skip, sheets |-> sheets,
     hidden |-> hidden, unmerge |-> unmerge, missing |-> missing]
Books ==
    {Book({<<"id">>}, 1, 0, {}, FALSE, FALSE, "error"),
     Book({<<"id">>}, 2, 0, {"first"}, FALSE, TRUE, "error"),
     Book({}, 0, 1, {}, TRUE, FALSE, "error"),
     Book({<<"_file_name">>}, 1, 0, {"first"}, FALSE, FALSE, "skip")}

Object(fields, cursor, initial, batch) ==
    [fields |-> fields, cursor |-> cursor, initial |-> initial,
     batch |-> batch]
Objects == {Object(FALSE, TRUE, TRUE, 0), Object(TRUE, FALSE, FALSE, 200),
            Object(TRUE, FALSE, TRUE, 0), Object(TRUE, TRUE, FALSE, 199)}

\* For each flow material that makes a credential, and some that does not.
MCMaterials ==
    [s \in MCSetups |->
       CASE s = Workspace -> {{"client_email", "private_key", "token_uri"},
                              {"client_email", "private_key"}}
         [] s = Entra -> {{"client_id", "certificate_data"},
                          {"client_secret"}, {"client_id"}}
         [] s = Salesforce -> {{"client_id", "username", "private_key"},
                               {"client_id", "refresh_token"},
                               {"refresh_token", "username"},
                               {"client_id", "refresh_token", "jwt_bearer"}}
         [] OTHER -> {{}}]

MCContents == [s \in MCSetups |->
                 CASE s = Workspace -> Grids
                   [] s = Entra -> Workbooks
                   [] OTHER -> {<<<<"id">>, <<"1">>>>}]
MCConfigs == [s \in MCSetups |->
                CASE s = Workspace -> RangeSpecs
                  [] s = Entra -> Books
                  [] s = Salesforce -> Objects
                  [] OTHER -> {Range1({<<"id">>}, TRUE, "error", TRUE)}]
==============================================================================
