# TLA+ models of addonc, the add-on database compiler

`addonc` (directory `0.1.3/compiler`) turns the text files of a road map,
`*.mid`, into SQLite databases, combines the databases of one province, and
writes binary files for a navigation device. It is a sequential C++ program
with one thread; what makes it hard to get right is not concurrency but state
that outlives one line, one row or one run: prepared statements and buffers
that are used again, results of calls that nobody looks at, files that a
previous or killed run left behind, and a binary format with 4 bit counters.

All line numbers below are of `addon/src/cm_db.cpp` unless another file is
named.

## 1. The system

| part | state it keeps | operations | properties that make it correct |
|---|---|---|---|
| command line (`addon/compiler.cpp`, `addon/src/addon.cpp`) | none | `main`, `cm_argv`, and `cm_import_mid`, `cm_parse_db`, which nothing calls | each command is handed to the dispatcher |
| dispatcher (`do_argv` 1987-2148, `import_mid` 826-901, `parse_db` 1172-1256, `combine_db_*` 1839-1985) | `m_db`, the bits `grp_ret`, the files | import one `.mid`, export one `.db`, combine two or four `.db` | the output is what the arguments ask for, in any order, whatever earlier runs left; never two provinces mixed; never part of a database; no input changed |
| mid import (`open_mid` 903-970, six `open_mid_<table>` 972-1149) | one INSERT statement, its bindings, the field buffers, the table | a line: tokens, binds, one step, one reset | every column of a row comes from where it should; no line is lost because of another |
| combined export (`parse_db_C_CR_Toll` 1532-1837) | four SELECT statements, the rows read for the current C row, the stream, the `.bin` file | step C, reset or create, bind and step the joined tables, write a record | each record has the data of its own row; a reader can follow the stream by headers; it ends |
| single-table exports (`parse_db_CR`, `_Toll_ETA`, `_Toll_Pattern`, `_HW_Junction`, 1258-1530) | one SELECT statement, the `.bin` file | select, truncate, write row by row | a missing table leaves the old file alone; every row is one whole record, in order; the data of the database asked for |
| row codecs (`_CR_row2data` 387-636, `_TollETA_row2data` 638-692, `_TollPattern_row2data` 694-713, junction layout 1412-1525) | none | text columns to packed bits | a reader who knows the layout finds the values of the row, none spills into another field or record |
| SQLite wrapper (`addon/src/cm_sqlite.cpp`) | the connection, the list `m_stmt`, per statement: ready, on a row or done | open, execute, attach, detach, backup, create and remove statement, bind, step, reset | each statement finalized at most once, none left with a lock; a reset before the next bind; a save is all or nothing |
| text utilities (`_strip_quotes` 347-373, `_strdiv` 305-333, `parse_path` 774-795; `fit_to_graph` 753-772 and `isLeadSameIcStr` 715-752, which nothing calls) | none | string functions | a line reads back as its fields; lists lose no part; an output lands beside its input |

How they interact: everything is a call. The dispatcher opens one database
(`m_db`, in memory for an import or a combination, the file itself for an
export), lets an import fill a table or a combination copy tables out of
attached files, saves the database with SQLite's backup, or lets an export step
statements of the wrapper and write the `.bin` file. Files are the only state
two commands share. Within a process, an object of `CCmDatabase` may be called
more than once (`cm_import_mid`, `cm_parse_db`, `cm_argv` make one each).

Hard behaviours: statements and buffers used again (import, export); every
call to SQLite or to a file may fail and most results are ignored; an uncaught
exception (`stoi`, `stoul`, the constructor of `CCmSqlite`) or a kill ends the
program anywhere; the next command starts from what is left. There are no
threads, messages or timeouts, and the code has no locking between two
processes, so no two instances of the program run at once in the models.

PROJECT.json lists each hazard with its line and the properties aimed at it.

## 2. The modules

| module | models | composed with |
|---|---|---|
| `MidImport` | the import of one file into one table | |
| `MidImportProofs` | theorems about it | extends `MidImport` |
| `CondData` | rows and 16 byte units of the combined export | |
| `CondExport` | the combined export, statement by statement | extends `CondData` |
| `CondStream` | what that export promises (abstract) | extends `CondData` |
| `CondRefine` | the refinement mapping | `CondExport`, instance of `CondStream` |
| `CondExportProofs` | theorems about `CondExport` | extends `CondExport` |
| `CondRefineProofs` | the proof of the refinement | extends `CondExportProofs`, `CondRefine` |
| `Compiler` | commands, files, failures and kills | |
| `CompilerProofs` | theorems about `Compiler` and about whole commands | extends `Compiler` |
| `RowCodec` | rows of text columns to packed bits, pure operators | |
| `TableExport` | the exports of one table, row by row | extends `RowCodec` |
| `TableReader` | what a reader of the file finds in it; the properties | extends `TableExport` |
| `TableExportProofs` | theorems about what is written and read back | extends `TableReader` |
| `Session` | one `CCmDatabase` and its `CCmSqlite`: calls, statements, `m_stmt`, destruction | |
| `SessionProofs` | theorems about it | extends `Session` |
| `TextUtil` | the string functions | |
| `TextProofs` | theorems about them | extends `TextUtil` |
| `AtomicSave` | what a save promises (abstract) | |
| `SaveAs` | `save_as`: the backup over SQLite's journal, kills and power losses | |
| `SaveRefine` | the refinement mapping | `SaveAs`, instance of `AtomicSave` |
| `SaveProofs` | the proof of the refinement | extends `SaveRefine` |
| `MCMidImport`, `MCCondExport`, `MCCompiler`, `MCTableExport`, `MCSession`, `MCTextUtil`, `MCSaveAs` | instances for TLC | |

`Compiler` is the top level; the one step `ImportMid` of it stands for all of
`MidImport`, the two steps `OpenBin` and `Write` for all of `CondExport` or
`TableExport`, and the one step `Backup` for all of `SaveAs`: `AtomicSave`, which
`SaveAs` implements, is the reason why one step is enough. The pieces of a
quoted text with a comma that `MidImport` starts from are what `TextUtil` finds
a line to be split into (`LineReadsBack`).

### MidImport

`mid` is the file, `field` the buffers `field[fldnum]`, `bound` the parameters
of the INSERT statement: the number of the buffer a parameter points into (the
wrapper passes no destructor, so SQLite keeps the pointer and reads the buffer
at the step), or 0 for NULL. `TakeToken` is the body of the token loop
(924-934), `ExceedFields` the token too many (936-940), `InsertRow` the step
and the reset (943-947). A step is refused when a column is NULL or the primary
key is there already; the program does not look. Texts are abstract; a piece
between commas keeps only how it is quoted, since that is what `_strip_quotes`
looks at: a value with a comma inside quotes is split in two, and nothing is
left of the part that only closes the quotation. Failing creation of the table,
preparation of the statement (no error for the caller) and opening of the file
are choices.

### CondExport, CondStream, CondRefine

A statement is `null`, `ready`, on a `row` or `done`, with the key it was bound
to; binding does nothing unless it is ready, and a step of one that is done
starts again, as SQLite does. `StepC` reads the next selected row of C, then for
each of CR, Toll ETA and Toll Pattern in turn `SkipTable` (no ID), `Select`
(reset or create, bind) and `StepJoined` (one row, or the end) run, and
`WriteRecord` appends the units. `bad` rows hold a number that does not convert:
the exception ends the program (`abort`). In a database of `Faulty` any step may
fail, which the code takes for the end of the rows. `lane_num` is not set for a row without
lanes (686-689): any value of `Leftover`.

`CondStream` has no statements: while there are rows to do, the first one's
record is appended, and `IsRecord` says what it must be, in terms of the
database only and with the limits of the format (15 CRs, 8 lanes) written out.
Of a database in `Faulty` a record may have been made from the first rows with
its ID (`Reads`), and the stream may stop before the last row of C (`Save`); it
may not have a wrong row, skip one, or count what is not there. `CondRefine` maps `todo` to the selected rows from the cursor on,
and the file's stage to `pc` and `ok`.

### Compiler

A path is a directory, a kind (the pattern its base name matches), a province
and an extension; `parse_path` and the patterns are this classification. A
file holds a version of a text, a function from tables to the texts they were
made from, or an export of such a function, whole or not. `Plan` is `do_argv`
up to the call it decides on; the actions are the calls in their order:
`OpenDb`, `ImportMid`, `Attach`, `Copy`, `Detach`, `Save` (opening the
destination creates it), `Backup` (one transaction), `Select`, `OpenBin`,
`Write`. Each has its failing outcomes as the code treats them. `Killed` ends
the program before any step, which also stands for its uncaught exceptions.
`Edit` is the user writing a new version of a text. `start`, `argv` and `failed`
are history.

The combination of two databases gives up at the first failing call, that of
four makes all four calls of a phase and then looks at the bits `grp`. The
province check of `do_argv` looks at the provinces of the databases it found;
as a combination needs all its two or four arguments, these are all arguments.

### RowCodec, TableExport, TableReader

A number is the set of the positions of its one bits: a shift adds, `|` is
union, a bit field cuts. So a field that is one bit off, a shift that is, or a
value that is too large shows as it does in the program, in a neighbouring
field. `left` is what the memory of the local record held before; the bits the
code never sets are those of `left`, for every value of `Leftovers`. What
`std::regex` and `stoi` find in a text is given with the row; a period of
several parts is matched by the greedy `.+` as the code has it (`Head1`).

`TableExport` runs the one loop that the four functions share: `Prepare`,
`OpenFile`, `ExportRow` per row, `EndOfRows`, with `PrepareFails`, `OpenFails`,
`WriteFails` (the stream goes bad and keeps a prefix of what was written; nobody
looks) and `BadNumber` (the exception ends the program; what had been flushed
stays, which of a junction may include the first one or two parts of the bad
row, `Early`). `TableReader` is a reader of the file: the ranges of the fields,
their positions, and how to get from a record to the next, which in the file of
Toll ETA takes the lane number. It follows the documentation (20-172,
`doc/addoncmpi.md`) except in three places, where it follows the code: the two
links of a junction (bytes 13 and 18; the documented 14 and 19 are the violated
`DocLinksRead` of `table_links`), the station codes, of which the documents have
two (1..5 and 15 in `doc/addoncmpi.md:156-164`, which the code writes; 21..26 in
159-165, which do not fit into the four bits), and the lanes of a Toll ETA
record behind its documented 8 bytes (132).

### Session

`stmts` are all statements ever created, a pointer is a position in it; `list`
is `m_stmt`, `cached` the four pointers the object keeps from call to call,
`local` the four of `parse_db_C_CR_Toll`. A call opens its database or, when one
is open, does nothing. Data is left out: a step finds a row or it does not. The
guard at 1262 (CR looks at the statement of Toll ETA) is as in the code. An
exception on a row (`Throw`) leaves the call with its statements in the list;
`Destroy` is `~CCmDatabase` with `~CCmSqlite`, which finalizes the list.

### SaveAs, AtomicSave, SaveRefine

`backup` opens the destination, copies every page in one transaction and
finishes. The steps of that transaction are SQLite's: `CopyPage` with the
journal record, `Spill` when the cache is full, `SyncRecords`, `WriteHeader`,
`SyncHeader`, `WritePage`, `SyncPages`, `Finish` (the journal is deleted: the
commit), `Shrink`; a rollback or recovery is `CutBack`, `PlayBack`, `EndOfPlay`,
`Drop`. `Fails` fails any of them, `Killed` ends the process after any of them,
`PowerLoss` leaves of each file any mixture of what was synced, what was written
since and junk. `AtomicSave` has one step, `Replace`, and `TakeBack` for a power
loss that undoes the last one as a whole. The mapping is what a process would
find if it opened the file now (`View`: play back the journal if it is hot), and
the one other database a power loss may bring back (`Earlier`).

Assumed: creating and deleting a journal and truncating the database reach the
disk in this order, at the latest with the next sync of a journal; one process
at a time has the file open; source and destination have the same page size, as
all files of this program have; DELETE journal mode and full synchronization,
the defaults of the build.

### TextUtil

Each function as an operator on sequences of symbols, and one action per
function that applies it to an argument (`DivideList`, `ReadLine`, `TakePath`),
so that the runs enumerate arguments as initial states. `isLeadSameIcStr` and
`fit_to_graph` are left out, since nothing calls them. A symbol is a character the functions look for, or stands for
a word they never look into. Texts may hold any symbols; of the fields of a line
it is assumed that there is no quote inside and one comma at most
(`LinesAssumption`), since two commas in a field shift the columns further and
`LineReadsBack` does not say how.

## 3. The runs

| run | config | states | what it shows |
|---|---|---|---|
| `import` | `MCMidImport.cfg` | 15 thousand | `RowProvenance`, `NothingLost` |
| `import_short` | `MCMidImportShort.cfg` | violation | a short line is stored |
| `export` | `MCCondExport.cfg` | 468 thousand | `ImplementsPromise`, `Framed`, `JoinSound`, `CutShows`, `Terminates` |
| `export_lanes` | `MCCondLanes.cfg` | violation | 9 to 15 lanes are dropped |
| `export_empty` | `MCCondEmpty.cfg` | violation | records without information |
| `pipeline` | `MCCompiler.cfg` | 629 thousand | `OneProvince`, `CleanRunDelivers`, `InputsUntouched` |
| `pipeline_ok` | `MCCompilerOk.cfg` | violation | "import OK" without an import |
| `table_export` | `MCTableExport.cfg` | 19 thousand | `RecordsReadBack`, `EveryRowOnce`, `OldFileKept` |
| `table_links` | `MCTableLinks.cfg` | violation | the links of a junction are not where the documents say |
| `session` | `MCSession.cfg` | 6 thousand | `OwnData`, `InUseIsListed`, `GoneHoldsNothing` |
| `text` | `MCTextUtil.cfg` | 11 thousand | `DivIsRuns`, `LineReadsBack`, `PathKept` |
| `save_as` | `MCSaveAs.cfg` | 18 thousand | `OldOrNew` |

**import.** All files of up to `MaxLines` = 3 lines out of eight shapes for a
keyed table of three columns and four for an unkeyed one of five: complete,
short, with an empty last field, too long, with a comma in quotes, with a key
already there, empty. Three lines are enough to have a line that leaves
something behind, one that is affected, and one after it; a binding never
reaches back over a line that overwrites it. `RowProvenance`: each column of a
stored row is the token of that number of the latest line up to its own that
has one. `NothingLost`: exactly the storable lines are stored, once, in order.

**export.** C tables of up to `MaxRows` = 2 arbitrary rows, and of three rows
where the third repeats the first (a statement used, bound to another ID, and
bound to the first again), joined with tables that have 17 CRs for one ID (two
more than fit), one or two Toll ETA rows or patterns for one condition, 0, 3, 8
and 9 lanes; with each table missing in turn and all joined ones missing; with
numbers that do not convert in each table. In the databases of `Faulty` any step
may fail at any row: tables C that come back to the IDs of their first row, with
joined tables that have one or several rows for them, which is where a statement
that was not reset would show. `ImplementsPromise` compares every step with
`CondStream`. `Framed`: the headers' counts and flags lead a reader through the
stream. `JoinSound`: no unit comes from a row with another ID than its record's,
and none is skipped: the units before it in the record are those of all earlier
rows with that ID. `CutShows`: whatever ends an export in the middle, its file
does not pass for a complete one; it is empty, or its header announces more than
it holds. `Terminates` holds under weak fairness of `Next`: the program is one
thread that takes its next step as long as it is not stopped.

**pipeline.** Two provinces (of the second there is only one input), three
directories (the current one, the root, another), 14 command lines: imports,
exports, combinations in two orders, of two provinces, of two directories, with
a kind twice, a mixture of texts and databases. Three initial file systems:
with all inputs, without one, without two. `MaxRuns` = 3 commands allow a failed
command, one after it, and an export of the result; `MaxVersion` = 2 lets a text
change once between them. `OneProvince`: a database holds nothing or all its
tables, all of its own province. `CleanRunDelivers`: a command in which nothing
failed leaves exactly the result its arguments ask for, as a set, whatever was
there before. `InputsUntouched`: no step changes a `.mid` or `.db` file on the command line,
except that a missing database is created empty. (A `.bin` named there is no
input, and may be the output of the command: this was found when the property
was proved, and the run has such a command line since.) `CHECK_DEADLOCK FALSE`: after
`MaxRuns` commands and `MaxVersion` edits the model stops, which is the bound,
not the program. No fairness is assumed.

**table_export.** Of CR every documented period with hours and minutes at the
ends of their ranges, dates at both ends, no time or date, and values just
outside; IDs of 40 bits with the ends set and of 41; every direction and
approximation, and one more. Of junctions IDs that cross the border between
parts 2 and 3, all services, one, two or no station. Of Toll ETA 0 to 22 lanes,
of both columns. Single rows of all of these, and pairs of the common ones, since
a fault of one record shows in the next; two leftovers, all zero and all one. The
tables of `Faulty` also meet failing statements, files, steps and writes; with
all tables there the run would only repeat the same failures. `RecordsReadBack`:
a reader finds at place i what row i says, for every whole record of a row in
the documented ranges, whatever failed; a Toll ETA row outside (16 lanes, none)
excuses those after it, because the reader is lost. So the uninitialised bits of
an undocumented period (628) stay in their record. `EveryRowOnce`: with no
failure, no record is missing or written twice. `OldFileKept`: a call that
returns false did not touch the file.

**session.** Five paths: two databases of CR, one of Toll ETA (the two that the
guard at 1262 confuses), a combined one and one of unknown kind. `MaxCalls` = 3
lets a call follow one that succeeded and one that failed. `OwnData`: a file is
written from the database and table asked for. `InUseIsListed`: what the code
still points to is in `m_stmt` exactly once. `GoneHoldsNothing`: what the
destructor does not finalize, because `remove_statement` forgot it (1790-1793),
had been stepped to its end, so no lock is left.

**save_as.** A file of 0 to 3 pages (0: not there), saves of 1 to 3: growing,
shrinking, the same. Three pages are enough to have page 1 (never spilled), a
page that is spilled, and one that is copied after it. `MaxSaves` = 2: the second
one meets what the first left. Crashes during recovery need no bound of their
own. `OldOrNew`: `AtomicSave` is implemented. `Backup` of `Compiler` rests on it.
What needs more than three pages is left to the proof: several spills in one
transaction, each with a journal header of its own, and the spill of a page whose
record is synced while that of another page is not (from five pages on).

**text.** All lists and paths up to 5 symbols, lines up to three fields: the
functions look for first, last and next occurrences, and three or four of them in
a row show every order. `LineReadsBack`:
what is bound is what is between the commas without quotes, also with DOS line
ends when the last field is quoted. `PathKept`: an output is in the directory of
its input (except in the root), with its name, and is the input only if that had
the extension.

### Disagreements with the documentation

- `import_short`: columns are "text not null", but a line that is short after a
  complete one takes the missing columns from it (934-946).
- `export_lanes`: the format has 15 lanes (`doc/addoncmpi.md:89-90`); lanes are
  padded to a multiple of 8 bytes before the comparison with 15 (1713), so 9 to
  15 lanes lose the ETA unit.
- `export_empty`: a record holds at least one piece of information
  (`doc/addoncmpi.md:42`); conditions without any become records too (1762).
- `table_links`: "The part 2 is 6 bytes and the part 3 is 10 bytes." (147; the
  same in `doc/addoncmpi.md:165-170`), so the links of a junction are at bytes 14
  and 19; all parts have 8 bytes and the links are at 13 and 18 (1494-1521).
- `pipeline_ok`: "\retval true import OK" (821); true is also returned when the
  text could not be opened (887).

Seen while modelling, in the modules as the code has it and without a run:

- A period that no pattern matches leaves `VPeri_Type` unset (628), although its
  range is fixed (59, 114): `Period` of `RowCodec`, shape 4.
- "One toll ETA info is up to 8 bytes." (132), but the lanes follow (1329).
- The documents disagree on the gasoline stations of a junction: "value == 21 :
  PetreChina" to "value == 26 : other" (159-165) against 1..5 and 15
  (`doc/addoncmpi.md:156-164`). The field has four bits, and the code writes the
  latter (1453-1475): `Gaso`, `EstabRead`.
- Lanes of a record are "either all Toll Mode or all CardMode"
  (`doc/addoncmpi.md:90`), but both columns go into one buffer (653-671): `Lanes`.
- `fit_to_graph` removes "leading" and "ending white space" (759, 767) and the
  first and the last graphic character with it. Nothing calls it, and it is not
  modelled.
- The options `-m` and `-d` (`addon/compiler.cpp:23-24`) are not among the letters
  given to `getopt` (39).

## 4. The proofs

Proved with TLAPS for all values of the constants, from the assumptions named in
the modules and nothing else:

- `MidImportProofs`: `TypeCorrect` (`Spec => []TypeOK`) and
  `RowsKeepTheirColumns` (`Spec => []RowProvenance`), for every set of texts and
  every set of files. `RowProvenance` alone is not inductive: it says nothing of
  the bindings the next row is made from. The strengthening `BindInv` says that
  between lines the statement is ready, that a bound parameter points into its
  own buffer, and that this buffer holds the token of the last line, of those
  read up to here, that has one; in the middle of a line "up to here" is the
  current line for the columns below `col` and the line before it for the others.
  `NoLineLost` (`Spec => []NothingLost`): the rows in the table are in the order
  of their lines (`RowsInOrder`) and each line done is stored or is not storable
  (`LostInv`); that a step refuses a row is traced to the lines of the file
  through `RowProvenance`.
- `CondExportProofs`: `TypeCorrect` (which bounds the CR count and the lane
  number by 15) and `StreamFramed` (`Spec => []Framed`), for every database,
  whether its steps may fail or not. The record written last ends where the stream ends
  (`RecordShape` gives the length and kind of each unit of a record), so
  appending a record keeps every older record whole and turns the end of the
  last one into the start of the new one. `rownum` counts the headers; this
  conjunct is what makes the file header right, and `bin` is empty until
  `Finish`. `JoinIsSound` (`Spec => []JoinSound`): the rows read for the row of C
  in hand are the first ones with its ID (`RowsRead`, `ReadFor`) as long as the
  statement that is being stepped is bound to that ID, not to an earlier one, and
  stands behind the last row read (`Scanning`); each record knows the row it was
  made for (`RecordsOf`). That a CR unit has all the earlier ones before it, and
  that an ETA unit or a pattern is only written when it is the first, follows for
  a record from the counts (`NewUnits`). `CutFilesShow` (`Spec => []CutShows`)
  from `FileInv`: the file is empty from `OpenBin` until `SaveBin` writes a prefix
  of the string, whose first unit announces the rest.
- `CondRefineProofs`: `ExportKeepsPromise` (`Spec => ImplementsPromise`), for
  every database, with any set of them failing. The invariant `RefineInv` says of
  the statement being stepped which of the matching rows it has still to give, so
  that when it is done all of them have been read, or the first ones when a step
  failed (`Readable`, `ReadRows`), and that the rows of C still to come are the
  selected rows behind the last. Every step then appends the one record the
  promise allows, or maps to a stutter.

- `CompilerProofs`: `TypeCorrect` and `NeverMixed` (`Spec => []OneProvince`),
  for every set of paths, command lines and initial files, with any step failing
  and a kill anywhere. `PlanIs` says what `do_argv` can decide on: the inputs of
  a combination are databases of the kinds it needs, in the order of the calls,
  and all of the province in the output's name; it rests on `Match` and on the
  positions `The` chooses. `MemInv` then says what is in memory: during the
  copies the tables of the calls in `grp` and no others, afterwards exactly the
  tables that the output's name promises, always of its province. `CalledIs` is
  the argument about the two ways of the combine functions to give up: the next
  phase begins only when every call of the last one succeeded. The initial files
  must satisfy the invariant (`WorldsAssumption`) and the paths the program
  writes must be among `Paths` (`OutputsAssumption`).
- `CompilerProofs`, whole commands: `InputsAreKept` (`Spec => InputsUntouched`)
  and `CleanRunsDeliver` (`Spec => []CleanRunDelivers`). Both rest on `ArgsOfPlan`: the
  plan reads every `.mid` and `.db` argument (a combination has as many as it has
  kinds, and one of each kind), so that its output is none of them. `Track` says,
  as long as nothing has failed, which files differ from those at the start and
  which tables are in memory, phase by phase.

- `TableExportProofs`: `TypeCorrect`, of which the part that matters is that no
  record reaches beyond the bytes written for it, for every table and whatever
  its rows hold: each field keeps to its bits (`FieldBound`) because a bit field
  cuts, and the fields of each record (`CRFits`, `TollETAFits`,
  `TollPatternFits`, `JunctionFits`) lie within its size. `FailureKeepsFile`
  (`Spec => []OldFileKept`) from the order of the steps. Assumed of the tables
  is only that their rows are sequences, that a period has one of the five
  shapes and its dates one of the forms that the pattern of that shape finds,
  and that lanes and establishments are numbers (`TablesAssumption`,
  `RowsAssumption`).
- `TableExportProofs`, the reader: `RecordsAreRead` (`Spec => []RecordsReadBack`) and
  `RowsAreComplete` (`Spec => []EveryRowOnce`), for tables of any number of rows.
  A record: each field holds its value (`FieldHolds`) and no other field reaches
  into it, so the reader of `TableReader` gets back what the row says (`CRSays`, `TollETASays`,
  `TollPatternSays`, `JunctionSays`). A stream: the invariant `Streams` says that
  the stream and the file are prefixes of the complete stream of the rows
  stepped, in which record `i` begins at `Pos(table)[i]`, and all of it while no
  write has failed; after a number that does not convert the file may go on into
  the record of the bad row (`WithPart`). The reader: he stands at `Pos(table)[i]` when he comes to
  record `i`; where records have one size by counting (`StartFixed`), in the file
  of Toll ETA because the lane numbers before were read right (`StartEta`). These
  are inductions over the rows. The induction theorems of the library take an
  operator; here the induction is over a set of numbers (`Induction`), from the
  well-foundedness of `<`, and a set needs no operator.
- `SessionProofs`: `TypeCorrect`, `ReadsOwnData` (`Spec => []OwnData`), for every set of
  databases and any number of calls. `StmtsOfDb` says that all statements belong
  to the database that is open, which rests on `open_db` opening one in the life
  of an object; `PointersOk` that a cached statement is one of its table;
  `CallOk` where a call may stand and which pointers it may then use.
  `PointersAreListed` (`Spec => []InUseIsListed`) and `NothingIsHeld`
  (`Spec => []GoneHoldsNothing`) need `Tidy`: the list has no statement twice
  (`Listed`), the pointers of the combined export lead to statements of their own
  (`Apart`), what is not in the list is not on a row (`Resting`), and each of
  those statements is on a row only while its own loop runs (`Locals`).

- `TextProofs`: all properties of `TextUtil`, for texts of any length and lines
  of any number of fields. A loop over a text is a recursive function; that it
  has a value at each position (`LoopExists`, and `FoldExists` for what is put
  together from the front) is an induction over positions like that of
  `TableExportProofs`. `DividesIntoRuns`: from each border on, `_strdiv` returns
  the runs that begin there or later (`DivRuns`). `LinesReadBack`: a line is cut
  by its commas into pieces (`IsCut`), each field adds one or two of them
  (`FirstField`, `NextField`), `std::getline` finds exactly them but an empty
  last one (`TokensOfCut`), and `_strip_quotes` undoes the quotes of each
  (`WholeField`, `SplitField`); a carriage return lengthens the last piece and
  is cut off with its quote (`ReturnBehind`). `PathsAreKept` takes the output
  path apart again at the slash and the dot it was put together with
  (`OutParsed`). `TypeCorrect`.

- `SaveProofs`: `TypeCorrect` (`Spec => []TypeOK`) and `SaveIsAtomic`
  (`Spec => OldOrNew`), for files of any size, any number of saves and any number
  of failures, kills and power losses. `OldOrNew` speaks of `View`, what a process
  would find; the invariant has to say why it would. `Shows(e, c)` says when files
  `e` are read as database `c`, now and after a power loss, in one of two ways.
  `Cold`: no header in the journal, synced or not, and both the file and what is
  synced of it begin with `c`. `Hot`: the journal is headers and records in a row
  (`Tiled`), of which all but the last header are synced, and each page of `c` is
  as it was in the file or in a record that is played back for sure (`Sure`: only
  the records of headers that are synced count, which is why SQLite syncs the
  header before it writes a page). `ViewIs`: what shows `c` is read as `c`.
  `ShowsLeft`: whatever a power loss leaves of such files shows `c` again; this is
  the part that testing does not reach, every mixture of old, new and junk.
  `Writing` says where a transaction is between the two: while the header in use
  is zero the records behind it count for nothing (`Filling`), then it counts them
  all (`Counted`), and a page that is in `need` has not been written. `Playing`
  says that a recovery, interrupted or not, ends with `c`. `Lone`: what a power
  loss may bring back is one database besides the present, which is what
  `TakeBack` of `AtomicSave` needs. Then each action keeps `IInv` and maps to
  `Begin`, `Replace` (`Finish` alone), `Settle`, `TakeBack` or a stutter.
  The recursive functions of `PowerLoss` and `Played` are characterized by
  induction over a set of numbers (`LeftIs`, `PlayedIs`). The invariant was checked
  by TLC before it was proved, also with files of five pages; that showed that an
  earlier `TypeOK`, by which no page whose record is not synced is dirty during a
  spill, held only because of the three pages of `save_as`: it is now stated for
  the page that is spilled.

Only model-checked: `Terminates` (liveness under fairness is out of the
prover's reach) and of course the violations.

## 5. Not modelled

- SQLite (`addon/src/sqlite3.c`, `addon/inc/sqlite3.h`), vendored and 98% of the
  lines of the repository: of it only the path a save takes is modelled, since
  the crash safety of this program is nothing else. SQL, the B-tree, WAL, the
  VFS and locking appear as the wrapper sees them; in `Compiler` a
  `create table as select` and a backup are single steps.
- Debug output (`cm_debug.c`), the Windows entry point and project files, and
  the loop of `main` over `getopt`: `-v` and `-h` print and nothing else.
- Two instances of the program at once: no code for it.
- Regular expressions and number conversion: rows are given by what they find.

## 6. Plan

Done: `MidImport`, `CondExport` with `CondStream` and `CondRefine`, `Compiler`,
`RowCodec` with `TableExport` and `TableReader`, `Session`, `TextUtil`, `SaveAs`
with `AtomicSave` and `SaveRefine`, and the proofs above.

Left: `Terminates` for every database, which needs a prover for liveness, and the
rest of SQLite.
