-------------------------- MODULE DirectoryImport ---------------------------
(***************************************************************************)
(* The import of a sheet of employees (admin/import/directory-import.ts,   *)
(* utils/translit.ts) and the routes that change the same tables meanwhile *)
(* (admin/routes/directory.ts).  The sheet is parsed in a child process;   *)
(* the rows are then imported in one transaction.                          *)
(*                                                                         *)
(* A name is what the code makes of it: its key (nameKey), its spelling,   *)
(* a number that also orders the names of one key, and the base of a login *)
(* or slug (loginFromFio, slugFromName).  Ids are positions in the tables. *)
(*                                                                         *)
(* A login or slug is a sequence of integers: a character of the base is   *)
(* the negative of its code, a number is one element, itself.              *)
(***************************************************************************)
EXTENDS Integers, Sequences, FiniteSets, FiniteSetsExt

CONSTANTS Names,            \* the cells of the sheets and what admins enter
          Sheets,           \* [header, rows]; a row is [fio, dept]
          Blank, TooLong,   \* a cell without text, and one over the limit
          LoginMax, SlugMax,
          AdminEmployees, AdminDepartments,    \* what admins may enter
          MaxEmployees, MaxDepartments, MaxAdminChanges    \* bounds of the instance

Ids == Seq(Int)

ASSUME ImportAssumption ==
    /\ \A name \in Names : name.spelling \in Nat /\ name.base \in Ids
    /\ Sheets \subseteq [header: BOOLEAN, rows: Seq([fio: Names, dept: Names])]
    /\ LoginMax \in Nat /\ SlugMax \in Nat
    /\ AdminEmployees \subseteq [login: Ids, fio: Names]
    /\ AdminDepartments \subseteq [slug: Ids, name: Names]

VARIABLES directory,   \* the tables: departments and employees
          importing,   \* a file is in the child process or on its way back
          imported,    \* how the last import ended, and who it made
          adminChanges

importVars == <<directory, importing, imported, adminChanges>>

Dot == -46
Underscore == -95
Dash == -45
Separators == {Dot, Underscore, Dash}

----------------------------------------------------------------------------
(* The base without the separators it ends with.                           *)
TrimEnd(s) == SubSeq(s, 1, Max({0} \cup {i \in DOMAIN s : s[i] \notin Separators}))

(* The base, cut to size, with a number.                                   *)
Numbered(base, maxLen, sep, n) ==
    LET suffix == Append(sep, n)
    IN  TrimEnd(SubSeq(base, 1, Min({Len(base), maxLen - Len(suffix)}))) \o suffix

(* Mutant of UniqueId: the number is tried once.                           *)
UniqueIdOnce(base, maxLen, sep, taken) ==
    IF base \notin taken THEN base ELSE Numbered(base, maxLen, sep, 2)

(* The base, or the base with the first free number from 2 on.             *)
UniqueId(base, maxLen, sep, taken) ==
    LET free == {n \in 2..(Cardinality(taken) + 2) : Numbered(base, maxLen, sep, n) \notin taken}
    IN  IF base \notin taken THEN base ELSE Numbered(base, maxLen, sep, Min(free))

----------------------------------------------------------------------------
Slugs(dir) == {dir.departments[i].slug : i \in DOMAIN dir.departments}
Logins(dir) == {dir.employees[i].login : i \in DOMAIN dir.employees}

(* The unique columns of the tables.                                       *)
NoConflict(dir) ==
    /\ \A i, j \in DOMAIN dir.departments :
           dir.departments[i].slug = dir.departments[j].slug => i = j
    /\ \A i, j \in DOMAIN dir.employees : dir.employees[i].login = dir.employees[j].login => i = j

NewDepartment(dir, slug, name) ==
    [dir EXCEPT !.departments = Append(@, [slug |-> slug, name |-> name, enabled |-> TRUE])]

NewEmployee(dir, login, fio, dept) ==
    [dir EXCEPT !.employees = Append(@, [login |-> login, fio |-> fio, dept |-> dept])]

(* Mutant of Department: the first of that name, enabled or not.           *)
DepartmentAny(dir, key) ==
    LET named == {i \in DOMAIN dir.departments : dir.departments[i].name.key = key}
    IN  IF named = {} THEN 0 ELSE Min(named)

(* The map from names to departments: listDepartments has the enabled ones *)
(* first, then by name, and the first of a key stays; 0 is no department.  *)
Department(dir, key) ==
    LET row(i) == dir.departments[i]
        named == {i \in DOMAIN dir.departments : row(i).name.key = key}
        before(i, j) == IF row(i).enabled # row(j).enabled THEN row(i).enabled
                        ELSE IF row(i).name.spelling # row(j).name.spelling
                             THEN row(i).name.spelling < row(j).name.spelling
                        ELSE i <= j
    IN  IF named = {} THEN 0 ELSE CHOOSE i \in named : \A j \in named : before(i, j)

(* Mutant of Known: two spellings of a name are two people.                *)
KnownAsSpelt(dir, fio) == \E i \in DOMAIN dir.employees : dir.employees[i].fio = fio

(* The name is in the directory (existing) or in a row of this file        *)
(* (seenInFile), which has made an employee of it.                         *)
Known(dir, fio) == \E i \in DOMAIN dir.employees : dir.employees[i].fio.key = fio.key

WithDepartment(dir, name) ==
    IF Department(dir, name.key) # 0 THEN dir
    ELSE NewDepartment(dir, UniqueId(name.base, SlugMax, <<Dash>>, Slugs(dir)), name)

(* One row of the sheet.                                                   *)
ImportRow(dir, row) ==
    IF {row.fio, row.dept} \cap {Blank, TooLong} # {} \/ Known(dir, row.fio) THEN dir
    ELSE LET with == WithDepartment(dir, row.dept)
         IN  NewEmployee(with, UniqueId(row.fio.base, LoginMax, <<>>, Logins(with)), row.fio,
                         Department(with, row.dept.key))

(* importDirectory: what the rows make of the directory, one by one.       *)
ImportDirectory(dir, rows) ==
    LET after[k \in 0..Len(rows)] == IF k = 0 THEN dir ELSE ImportRow(after[k - 1], rows[k])
    IN  after[Len(rows)]

(* The departments the summary warns of.                                   *)
Warned(before, after) ==
    {after.employees[i].dept : i \in (Len(before.employees) + 1)..Len(after.employees)}
    \cap {i \in DOMAIN after.departments : ~after.departments[i].enabled}

----------------------------------------------------------------------------
(* POST /directory/import: one at a time, another is answered 503.         *)
StartImport ==
    /\ ~importing
    /\ importing' = TRUE
    /\ UNCHANGED <<directory, imported, adminChanges>>

(* The file cannot be parsed.                                              *)
ParseFails ==
    /\ importing
    /\ importing' = FALSE
    /\ imported' = Blank
    /\ UNCHANGED <<directory, adminChanges>>

(* ctx.change: a transaction that a conflict rolls back.                   *)
Committed(after) == IF NoConflict(after) THEN after ELSE directory

(* The rows have come back from the child.                                 *)
Import(sheet) ==
    LET after == ImportDirectory(directory, sheet.rows)
    IN  /\ importing
        /\ Len(after.employees) <= MaxEmployees /\ Len(after.departments) <= MaxDepartments
        /\ importing' = FALSE
        /\ directory' = IF sheet.header THEN Committed(after) ELSE directory
        /\ imported' =
              IF ~sheet.header THEN Blank
              ELSE IF ~NoConflict(after) THEN [how |-> "conflict"]
              ELSE [how |-> "done", first |-> Len(directory.employees) + 1,
                    last |-> Len(after.employees), rows |-> sheet.rows,
                    warned |-> Warned(directory, after)]
        /\ UNCHANGED adminChanges

(* The routes of departments and employees, also while a sheet is parsed.  *)
(* imported is about the tables as the import left them.                   *)
AdminChanges(dir) ==
    /\ NoConflict(dir) /\ dir # directory
    /\ adminChanges < MaxAdminChanges /\ adminChanges' = adminChanges + 1
    /\ directory' = dir
    /\ imported' = Blank
    /\ UNCHANGED importing

CreateDepartment(slug, name) ==
    /\ Len(directory.departments) < MaxDepartments
    /\ AdminChanges(NewDepartment(directory, slug, name))

(* PATCH /departments/:id: a new name, or whether it is enabled.           *)
PatchDepartment(i, name, enabled) ==
    AdminChanges([directory EXCEPT !.departments[i].name = name, !.departments[i].enabled = enabled])

CreateEmployee(login, fio, dept) ==
    /\ Len(directory.employees) < MaxEmployees
    /\ AdminChanges(NewEmployee(directory, login, fio, dept))

(* PATCH /employees/:id: a new name, or another department.                *)
PatchEmployee(i, fio, dept) ==
    AdminChanges([directory EXCEPT !.employees[i].fio = fio, !.employees[i].dept = dept])

ImportInit ==
    /\ directory = [departments |-> <<>>, employees |-> <<>>]
    /\ importing = FALSE /\ imported = Blank
    /\ adminChanges = 0

ImportNext ==
    \/ StartImport \/ ParseFails
    \/ \E sheet \in Sheets : Import(sheet)
    \/ \E d \in AdminDepartments : CreateDepartment(d.slug, d.name)
    \/ \E i \in DOMAIN directory.departments, d \in AdminDepartments, enabled \in BOOLEAN :
           PatchDepartment(i, d.name, enabled)
    \/ \E e \in AdminEmployees, i \in DOMAIN directory.departments : CreateEmployee(e.login, e.fio, i)
    \/ \E i \in DOMAIN directory.employees, e \in AdminEmployees, d \in DOMAIN directory.departments :
           PatchEmployee(i, e.fio, d)

ImportSpec == ImportInit /\ [][ImportNext]_importVars

----------------------------------------------------------------------------
Ended == imported # Blank /\ imported.how = "done"

Made == IF Ended THEN imported.first..imported.last ELSE {}

(* A sheet that has a header is imported whatever is in the tables: no     *)
(* login or slug that was made up is taken, also by a row before (uniqueId). *)
NeverAConflict == imported # Blank => imported.how # "conflict"

(* An import makes nobody whose name is there, in any spelling, from the   *)
(* tables or from a row before (nameKey, existing, seenInFile).            *)
NobodyTwice ==
    \A i \in Made : \A j \in DOMAIN directory.employees :
        directory.employees[j].fio.key = directory.employees[i].fio.key => j = i

(* Whoever an import made is in the department the sheet names: in one     *)
(* that is disabled only if no enabled one has the name, and then with a   *)
(* warning (depts, disabledUsed).                                          *)
PlacedWhereTold ==
    \A i \in Made :
        LET e == directory.employees[i]
            d == directory.departments[e.dept]
        IN  /\ \E k \in DOMAIN imported.rows :
                  imported.rows[k].fio = e.fio /\ imported.rows[k].dept.key = d.name.key
            /\ d.enabled \/ (/\ e.dept \in imported.warned
                             /\ \A j \in DOMAIN directory.departments :
                                    directory.departments[j].name.key = d.name.key
                                    => ~directory.departments[j].enabled)

(* An import adds each person of the sheet once, where the sheet says, and *)
(* never fails on the names that are there.                                *)
ImportSound == NeverAConflict /\ NobodyTwice /\ PlacedWhereTold
=============================================================================
