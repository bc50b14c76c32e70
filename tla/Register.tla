------------------------------- MODULE Register -------------------------------
(***************************************************************************)
(* The site register of one organization: api/routes/sites.py and the      *)
(* audit of services/registry_audit.py.  A name stands for name and city,  *)
(* which the import only uses together; its value for the columns that     *)
(* decide neither identity nor country.  Letter case and white space,      *)
(* which the keys and the audit ignore alike, are left out.                *)
(***************************************************************************)
EXTENDS Naturals, Sequences, FiniteSets, Functions

CONSTANTS
    Ids, NoId,  \* identifiers of the customer; NoId for an empty cell
    Names, Countries, Values,
    Files,      \* files a customer may send: sequences of rows
    Clerks,     \* imports that may be under way at once
    Typed,      \* rows entered by hand
    MaxEdits    \* bound

FileRow == [eid : Ids \cup {NoId}, name : Names, country : Countries, value : Values]

ASSUME RegisterAssumption ==
    /\ NoId \notin Ids /\ Typed \subseteq FileRow
    /\ Files \subseteq Seq(FileRow) \ {<<>>}

VARIABLES
    sites,   \* the rows of the table, in the order they were inserted
    imports, \* per clerk: what the import has read and worked out
    edits

registerVars == <<sites, imports, edits>>

NoImport == [before |-> <<>>, after |-> <<>>]

Stored(row) == [row |-> row, active |-> TRUE]
-----------------------------------------------------------------------------
RegisterInit ==
    /\ sites = <<>> /\ edits = 0
    /\ imports = [c \in Clerks |-> NoImport]

RowsOf(table) == [i \in DOMAIN table |-> table[i].row]

Uses(eid, rows) == Cardinality({i \in DOMAIN rows : rows[i].eid = eid})

NothingAmbiguous(file, table) == {} \* mutant: an identifier is always trusted
\* An identifier that repeats in the file or in the register, inactive rows too.
Ambiguous(file, table) ==
    {e \in Ids : Uses(e, file) > 1 \/ Uses(e, RowsOf(table)) > 1}

DedupeKey(row, ambiguous) ==
    IF row.eid = NoId THEN <<"name", row.name>>
    ELSE IF row.eid \in ambiguous THEN <<"both", row.eid, row.name>>
    ELSE <<"id", row.eid>>

\* by_key: of stored rows with one key, the last.
ByKey(table, ambiguous) ==
    LET KeyAt(i) == DedupeKey(table[i].row, ambiguous)
    IN  [k \in {KeyAt(i) : i \in DOMAIN table} |->
            CHOOSE i \in DOMAIN table : KeyAt(i) = k /\ \A j \in DOMAIN table : KeyAt(j) = k => j <= i]

Remembers(place, key, at) ==
    [k \in DOMAIN place \cup {key} |-> IF k = key THEN at ELSE place[k]]

\* One row of the file.  The row it matches, stored or added by this file, gets its
\* columns (an empty identifier keeps the stored one) and is active again.
ImportRow(work, row, ambiguous) ==
    LET key == DedupeKey(row, ambiguous)
    IN  IF key \notin DOMAIN work.place
        THEN [table |-> Append(work.table, Stored(row)),
              place |-> Remembers(work.place, key, Len(work.table) + 1)]
        ELSE LET i == work.place[key]
                 kept == IF row.eid = NoId THEN work.table[i].row.eid ELSE row.eid
             IN  [table |-> [work.table EXCEPT ![i] = Stored([row EXCEPT !.eid = kept])],
                  place |-> work.place]

\* import_sites: what a file makes of a register, row by row.
Imported(file, table) ==
    LET ambiguous == Ambiguous(file, table)
        work[n \in 0..Len(file)] ==
            IF n = 0 THEN [table |-> table, place |-> ByKey(table, ambiguous)]
                     ELSE ImportRow(work[n - 1], file[n], ambiguous)
    IN  work[Len(file)].table

StartImport(c, file) ==
    /\ imports[c] = NoImport /\ edits < MaxEdits
    /\ imports' = [imports EXCEPT ![c] = [before |-> sites, after |-> Imported(file, sites)]]
    /\ edits' = edits + 1
    /\ UNCHANGED sites

\* Only columns that differ from what was read are written.
Overlaid(now, was, new) ==
    [row |-> [f \in DOMAIN now.row |-> IF new.row[f] # was.row[f] THEN new.row[f] ELSE now.row[f]],
     active |-> IF new.active # was.active THEN new.active ELSE now.active]

CommitImport(c) ==
    /\ imports[c] # NoImport
    /\ LET before == imports[c].before
           after == imports[c].after
       IN  sites' = [i \in DOMAIN sites |->
                        IF i \in DOMAIN before THEN Overlaid(sites[i], before[i], after[i])
                        ELSE sites[i]]
                    \o SubSeq(after, Len(before) + 1, Len(after))
    /\ imports' = [imports EXCEPT ![c] = NoImport]
    /\ UNCHANGED edits

\* A dry run, or the process dies.
RollBackImport(c) ==
    /\ imports[c] # NoImport
    /\ imports' = [imports EXCEPT ![c] = NoImport]
    /\ UNCHANGED <<sites, edits>>

Edited(table) ==
    /\ edits < MaxEdits
    /\ sites' = table /\ edits' = edits + 1
    /\ UNCHANGED imports

\* POST, PATCH and DELETE look at no other row: a site may be entered twice.
CreateSite(row) == Edited(Append(sites, Stored(row)))
UpdateSite(i, row) == i \in DOMAIN sites /\ Edited([sites EXCEPT ![i].row = row])
DeleteSite(i) == i \in DOMAIN sites /\ Edited([sites EXCEPT ![i].active = FALSE])

RegisterNext ==
    \/ \E c \in Clerks :
        (\E file \in Files : StartImport(c, file)) \/ CommitImport(c) \/ RollBackImport(c)
    \/ \E row \in Typed :
        CreateSite(row) \/ \E i \in DOMAIN sites : UpdateSite(i, row)
    \/ \E i \in DOMAIN sites : DeleteSite(i)

RegisterSpec == RegisterInit /\ [][RegisterNext]_registerVars
-----------------------------------------------------------------------------
\* Groups of the same name and city whose identifiers are not all one; a row
\* without an identifier is audited under its own key.
DuplicateLocations(rows) ==
    {n \in Names : \E i, j \in DOMAIN rows :
        /\ i # j /\ rows[i].name = n /\ rows[j].name = n
        /\ rows[i].eid # rows[j].eid \/ rows[i].eid = NoId}

SharedIds(rows) == {e \in Ids : Uses(e, rows) > 1}

ActiveRows == [i \in {i \in DOMAIN sites : sites[i].active} |-> sites[i].row]

\* sites.py:10, "Import is idempotent. Re-uploading the same file changes nothing":
\* whatever edits, imports and half-done imports came before, if no two stored rows
\* have the same identifier and name.  And the file is in the register: each of its
\* rows, unless a later one has the same identifier and name.
ReuploadChangesNothing ==
    \A file \in Files :
        LET once == Imported(file, sites)
        IN  /\ (\A i, j \in DOMAIN sites :
                    i # j => sites[i].row.eid # sites[j].row.eid \/ sites[i].row.name # sites[j].row.name)
                => Imported(file, once) = once
            /\ \A i \in DOMAIN file :
                \/ Stored(file[i]) \in Range(once)
                \/ \E j \in i + 1 .. Len(file) : file[j].eid = file[i].eid /\ file[j].name = file[i].name

\* registry_audit: two imports at once, or a site entered by hand and imported,
\* leave it twice in every headcount; the audit that travels with the list says so.
DoubledSiteIsReported ==
    \A i, j \in DOMAIN ActiveRows :
        i # j /\ ActiveRows[i].name = ActiveRows[j].name =>
            \/ ActiveRows[i].name \in DuplicateLocations(ActiveRows)
            \/ ActiveRows[i].eid \in SharedIds(ActiveRows)

\* api/routes/sites.py: imports, edits and half-done imports in any order.
RegisterIsConsistent == ReuploadChangesNothing /\ DoubledSiteIsReported
=============================================================================
