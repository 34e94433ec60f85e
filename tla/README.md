# TLA+ models of OpenObjectStore (oos)

This directory holds TLA+ models of the C++ sources under `src/` and the
TLC configurations that check them. `spec.md` describes the intended system.
The repository snapshot holds only part of the code it describes. The models
follow the code. Where code and `spec.md` disagree, a violation run shows it.

## 1. Inventory

### Components, their state and operations

| Component | Source | State | Operations |
|---|---|---|---|
| MySQL result cursor + read-from-result sink | `src/db/mysql/src/mysql_result.cpp` | `res_` (stored result set or null), `rows_` (size_type counter), `fields_`, `row_` (current row, **not initialised by the constructor**), `result_index_` (next column), `affected_rows_`; the client library's own read position | constructor (store result / write statement / error), `fetch`, `prepare_fetch`, `finalize_fetch`, `column(c)`, `serialize(id, x)` per field type, destructor |
| Single-field accessor | `src/include/object/object_value.hpp` | one function-local `static object_value<T>` per `update_value<T>`/`retrieve_value<T>` overload (`value_`, `id_`, `object_`, `succeeded_`); the object's fields and its modified mark | `update_value<T>(o, field, v)` → `set` → `o->read_from(this)` → `read_<kind>` → `updater<T,X>`; `retrieve_value<T>(o, field, v)` → `get` → `o->write_to(this)` → `write_<kind>` → `retriever<X,T>` |
| MSSQL backend | `src/src/database/mssql/mssql_database.cpp` | ODBC env and connection handles, `is_open_` | `on_open` (DSN parse `user[:pwd]@host/db[(driver)]`, handle allocation, connect), `on_close`, `execute`/`create_result`/`create_statement` (stubs returning null), `on_begin`/`on_commit`/`on_rollback`, `type_string` |
| SQLite backend | `src/src/database/sqlite/sqlite_database.cpp`, `src/db/sqlite/include/sqlite_statement.hpp` | `db_` handle, the sequencer, cached statements (in `database_impl`, not in src) | `open`, `close`, `visit(insert/update/delete action)`, `create_statement`; the statement class is only declared |
| Query builder, SQL token model | `src/lib/include/sql/basic_query.hpp`, `sql.hpp`, `column.hpp` | `state` (15 states), the token list, update columns, row values | declarations only: `reset_query`, `str`, `append`, `compile` |
| Unit test runner | `src/lib/src/unit/unit_test.cpp`, `src/include/unit/unit_test.hpp`, `src/test/sql/QueryTestUnit.hpp` | map of tests with `succeeded`, `message` and `assertion_count`; `current_test_func_info` | `add_test`, `execute()`, `execute(name)`, `assert_*`, `list` |
| Backend factory | `create_database`/`destroy_database` in both backends | the object's existence | construct / run the destructor and delete |

### How they interact

Every call is synchronous (spec.md 5). A session must not be shared between
threads without outside locking, but separate sessions may run on separate
threads, and the engine itself locks nothing. A query's result
object is built from the connection (`mysql_result(MYSQL*)`). The caller then
loops on `prepare_fetch`. For every row, the record's own serialize walk calls
`serialize(id, x)` on the result once per field, in declaration order. So the
record's field order and the result's `result_index_` must stay aligned. No
field or column is named in between. The accessor works the other way round.
It is a sink that the record drives through the same field walk
(`read_from`/`write_to`). It keeps its state in static instances shared by
every caller, in every thread. Backends plug in through `create_database` and implement
open/close/begin/commit/rollback over their driver.

### What is hard

- **Ordering and positional alignment.** The record's field walk and the
  cursor's column index must advance together. The index must be restarted
  for every row.
- **Boundaries.** There is an unsigned row counter (`rows_-- > 0`), a fixed
  char buffer at its exact capacity, one-character texts, and narrowing
  casts of `strtol`.
- **Absent values.** SQL NULL columns arrive as null pointers.
- **Protocol misuse that the code does not guard.** Examples: `fetch` on a
  write statement's result, or `column` before `fetch`.
- **Hidden shared state.** The static accessor instances keep values between
  calls, and a reentrant or concurrent call can clobber them.
- **Partial failure.** The ODBC/SQLite open and close paths can fail after
  some handles are allocated.

### What makes each component correct

- Result cursor: every stored row is delivered once, in order, and then fetch
  answers false. `result_rows()` counts the rows not yet fetched. Each field
  gets what spec.md 4.1 and 7 say: skip-on-empty for numbers and booleans, an
  unchanged field for absent or unparsable text, fixed buffers truncated and
  terminated. No read is undefined behaviour.
- Accessor: a call touches only the named field of the given object. A
  successful set marks the object modified. Get and set accept the same
  (field, type) pairs. A failed call hands back nothing from another call.
- MSSQL: the DSN is parsed per the grammar and the parsed fields are used.
  Every allocated handle is freed on every path. `is_open_` reflects the
  connection. A transaction begin/commit/rollback reaches the server.
- SQLite: open either succeeds or leaves nothing allocated, and close runs on
  an open database. A missing cached statement is reported.
- Unit runner: a test's reported outcome is the outcome of its latest run.

## 2. Plan

Modules, in order of importance:

1. `ResultCursor` (abstract forward-only cursor) and `MySQLResult` (the
   cursor and its read sink). `MySQLResult` refines `ResultCursor`.
   **Done.**
2. `ObjectValue` (the accessor with its static instances). **Done.**
3. `MSSQLDsn` and `MSSQLDatabase`: the DSN parser checked against the
   grammar over all short strings, and the open/close lifecycle with each
   ODBC call able to fail, refining `DatabaseSession`. **Done**
   (`type_string` is a fixed table and was left out).
4. `SqliteDatabase`: open/close with a failing `sqlite3_open`, the
   destructor and factory, and the visitor statement lookup, refining the
   abstract `DatabaseSession` (open, close, at most one transaction, spec.md
   3). **Done.**
5. `UnitTest`: the runner's per-test bookkeeping across repeated `execute`.
   **Done.**
6. Two threads through `ObjectValue`'s shared static (`ObjectValueThreads`).
   **Done.** Not done: the reentrant variant, where `mark_modified` calls back
   into `update_value`, and width-limited integer field kinds for
   `MySQLResult`.
7. The destructor/factory paths of both backends, and the termination of
   `execute()` under fairness. **Done.** `QueryBuilder` was not pursued; see
   "Not modelled".

## 3. Modules and runs

### `ResultCursor` (abstract)

- Variables: `active`, `pending` (rows not yet delivered), `current` and
  `answer`.
- Actions: `Open` (any result set of up to `MaxRows` rows), `Fetch` (next row
  and TRUE, or no row and FALSE), and `Close`.

### `MySQLResult` (mysql_result.cpp)

- Client library state: `rows` is the stored result set and `cur` is
  `mysql_fetch_row`'s position.
- Members: `res_`, `rows_` (modulo `SizeMod`, for size_type wrap-around),
  `fields_`, `row_` and `result_index_`.
- Caller state: `record` and `visited` (the record's serialize walk).
- History: `snapshot` (the record when the row was fetched) and `lastFetch`.
- `fault = "segv"` is the outcome of undefined behaviour, and the process
  stops there.

| Action | Code |
|---|---|
| `Construct` | constructor, lines 34-47 (the error branch throws and leaves no object) |
| `fetch`, `Fetch` | `fetch()`, lines 64-72 |
| `PrepareFetch` | `prepare_fetch`, lines 74-82 |
| `SerializeField` | one `serialize(id, x)` call, lines 109-249 |
| `FinalizeFetch` | `finalize_fetch`, lines 84-87 |
| `Destroy` | destructor, lines 48-53 |

`serialize(k, val, x)` is the per-type conversion. Field kinds modelled:
`char`, `long` (short/int/long share the code), `ulong` (the only one that
tests for null), `bool`, `cstr` (`char[BufSize]`, with its terminator and any
write past the buffer) and `string`. `strtol` is the value of the longest
digit prefix, computed by RECURSIVE `DigitsValue`.

Properties:

- `ReadMatchesRow`: while a row is walked, the cursor's column index equals
  the record's field position. Every field read so far holds `SpecRead`,
  which is spec.md's rule applied to the current row's column and the
  field's value at fetch time.
- `RowsRemaining`: `rows_` equals the stored rows not yet fetched.
- `CursorRefinement`: `MySQLResult` implements `ResultCursor` under the
  mapping `pending = rows[cur+1..]`, `current = rows[row_]`,
  `answer = lastFetch`.
- `NoUndefinedBehaviour`: no read or fetch reaches `fault = "segv"`.

| Run | cfg | Expect | Bounds |
|---|---|---|---|
| `result_read` | `MCMySQLResult.cfg` | pass | record `<<long, bool, char[3]>>`; columns `""`, `"1"`, `"21"`; up to 2 rows; `SizeMod` 8. This covers empty and non-empty columns, a second row read over the first, the end of the result, and a new query. About 800k states, 20 s. |
| `result_cstr_violation` | `_cstr.cfg` | violation | `char[2]` gets texts of length 1-3 |
| `result_null_violation` | `_null.cfg` | violation | a long field gets a NULL column, and `mysql_store_result` may return a result set or none (a write statement). The shortest trace is a write statement followed by `fetch`. |

`ReadMatchesRow` is also violated when a char field gets a one-character
column (`serialize(char)` copies only when `strlen > 1`) and when a long
field gets the text `"x"` (strtol's 0 is stored). `NoUndefinedBehaviour` is
also violated when a write statement's result is fetched (`res_` is null).
TLC finds each of these with `CharKind`/`CharColumnValues`,
`TextColumnValues` and `StoreOutcomes = {"result_set", "no_result_set"}` in
`MCMySQLResult.tla`. The project keeps one violation run per module
property, so these three have no cfg of their own. They are listed as
hazards.

### `ObjectValue` (object_value.hpp)

- `objects[o][f]` holds the field values and `modified[o]` the modified mark.
- `retrieved[T]` is the `value_` of `retrieve_value<T>`'s static instance.
  It is zero-initialised, as statics are.
- `id_` and `succeeded_` are overwritten at the start of every call before
  they are read, so they carry nothing between calls and are left out.
- `Retrieves(k, T)` and `Updates(k, T)` are the compile-time choice of
  specialisation that `write_<kind>`/`read_<kind>` make. `NameMatches` is the
  `strcmp`.
- `UpdateValue` and `RetrieveValue` are whole calls, walk included, because
  nothing else runs in between.

Properties:

- `UpdateWritesNamedField` (action property): an update changes exactly the
  named field to the given value and marks the object modified, or it fails
  and changes nothing.
- `RetrieveReadsNamedField` (action property): a successful retrieve returns
  the named field's current value.
- `UpdateWhereRetrieveWorks`: set succeeds wherever get does.
- `FailedRetrieveIsFresh`: a failed get returns T's default value.

| Run | cfg | Expect | Bounds |
|---|---|---|---|
| `accessor` | `MCObjectValue.cfg` | pass | one object with fields `a`, `b` (int), `s` (varchar) and `p` (object*); names include `"missing"`; T in {int, varchar_base, object*}; values {Zero, v1}. Two same-typed fields are what make a missing name comparison visible. |
| `accessor_string_violation` | `_string.cfg` | violation | T in {std::string, varchar_base} |

`FailedRetrieveIsFresh` is stated but has no run. TLC violates it with a
retrieve of `"missing"` after a successful one. spec.md does not say what a
failed get yields, so the project records it as a hazard, not a finding.

### `ObjectValueThreads` (object_value.hpp, two threads)

This module covers `update_value<T>` (lines 733-740) when two threads call it
at the same time. Each thread has its own session and its own object, which
spec.md 5 allows without locking. They still share the one function-local
`static object_value<T> type_value`. Its members `value_`, `id_`, `object_`
and `succeeded_` are the model's shared variables. Each call is split where
it touches them:

| Definition | Code |
|---|---|
| `Init` | the zero-initialised static and its constructor, lines 195-204 |
| `Set(t, o, f, v)` | `set()` up to the walk, lines 220-225 |
| `Walk(t)` | one `read_<kind>` call of `o->read_from(this)` (lines 450-454): `updater<T,T>::update` reads `id_`, `object_` and `value_` at that moment, then compares names, calls `mark_modified(object_)` (lines 646-649) and assigns (lines 660-670) |
| `Finish(t)` | `object_ = 0` (line 227), then `return type_value.success()` (line 739) |

The race is undefined behaviour. The modelled outcomes are the interleavings
in which every member access sees a whole value. A torn `std::string` is left
out. `mark_modified` through the null `object_` that another thread's `set()`
left behind is `fault = "segv"`.

Property:

- `UpdatesIsolated`: every assignment during thread t's call writes t's value
  to t's named field and marks t's object. No call follows a null pointer. A
  call that returns reports whether its own field exists.

| Run | cfg | Expect | Bounds |
|---|---|---|---|
| `accessor_threads_violation` | `MCObjectValueThreads.cfg` | violation | threads `t1` and `t2` own objects `o1` and `o2`, each with int fields `a` and `b`; names {a, b, missing}; values {v1, v2}; one call per thread. Trace (4 states): t1 sets `a` on `o1`, t2 sets `a` on `o2`, and t1's walk marks `o2` modified. |

### `MSSQLDsn` (mssql_database.cpp, lines 66-106)

This module covers the connection-string parse at the start of `on_open`.

- A string is a sequence of characters.
- `find`, `substr` and `npos` follow `std::string`, with `size_type` modulo
  `SizeMod`. So `npos + 1` wraps to 0, as the code relies on.
- `Credentials`, `DbAndDriver` and `ParseDsn` are the code's three steps.
- `trim` is `oos::trim`. Its header is not under `src/`, so it is
  spec-modelled as RECURSIVE.
- `Compose`/`Meaning` are the reference: the grammar of spec.md 6, written
  from its parts.
- `Init` picks a string. `Parse` runs the parse once; the model then stops.

Properties:

- `GrammarParsed`: every grammatical string parses into the parts it was
  built from.
- `MissingDatabaseRejected` (stated, no run): a string with no `/` after its
  `@` is rejected. TLC violates it with `"@"`. The code accepts it, and the
  whole rest becomes both host and database.

| Run | cfg | Expect | Bounds |
|---|---|---|---|
| `dsn_grammar` | `MCMSSQLDsn.cfg` | pass | Every grammatical string from parts of 0-2 letters, with and without password and driver (432 distinct strings, 864 states). Strings without a password or a driver take the `':'` and `'('` npos branches. Non-grammatical strings are left out: `GrammarParsed` says nothing of them. Under `MCInputs` (every string of up to 5 characters over `@ : / ( ) a`), TLC violates `MissingDatabaseRejected` (hazard at line 94). The deadlock check is off because the parse is one step. |

### `DatabaseSession` (abstract, from spec.md 3, 5, 6)

- `open`, `server` (the server-side sessions the client holds) and `tx`.
- Actions: `Open`, `Close`, `Begin` and `End`.
- Open and close either happen or leave the state as it was. A transaction
  needs an open session and ends with it.

### `MSSQLDatabase` (mssql_database.cpp)

The ODBC driver manager's handles are numbered `1..MaxHandles`:

- `kind` records what each handle is now;
- `parent` records the environment of each connection handle;
- `connected` holds the handles with a live server connection.

The members are `odbc_`, `connection_` and `is_open_`. `serverTx` is the
server's transaction. Every ODBC call the code checks may fail. The driver
manager rules used are:

- a failed alloc writes a null handle;
- a failed disconnect leaves the connection up;
- freeing an environment fails while a connection handle of it is allocated.

| Action | Code |
|---|---|
| `OnOpen` (`ParseDsn` of `MSSQLDsn`, then `Connect`) | `on_open`, lines 66-138 |
| `OnClose` | `on_close`, lines 145-153 |
| `OnTransaction` (`execute`) | `on_begin`/`on_commit`/`on_rollback`, lines 170-189, over `execute`, lines 155-158 |
| `Destroy` (`Disconnected`) | `destroy_database`, lines 243-246, and the destructor, lines 60-63 |
| `CreateDatabase` | `create_database`, lines 238-241, and the constructor, lines 54-58 |

`close()` belongs to the base class `database`, which is not in the
repository. As spec.md 4.4 describes it, it calls `on_close()` when the
database is open. A failing `SQLDisconnect` makes `on_close()` throw. The
destructor is noexcept, so when the throw happens there, `std::terminate`
ends the process (`fault = "terminate"`). The model then stops
(`CHECK_DEADLOCK FALSE` in the MSSQL runs).

Properties:

- `SessionRefinement`: the backend implements `DatabaseSession` under
  `open <- alive /\ is_open_`, `server <- connected` and `tx <- serverTx`. Every path
  of open and close, including every failed ODBC call, is a step of the
  contract or a stutter. The same holds for the destructor. A destructor that
  did not close would end a session without closing it. That is the step the
  refinement rejects.
- `NoHandleLost`: every allocated handle is still held by `odbc_` or
  `connection_`.
- Stated, with no run: `ConnectsWithParsedDsn` and
  `TransactionReachesServer`. Each is false by a single line of the code
  (hard-coded `PWD=sascha;DATABASE=test` at line 129, and the stub `execute`
  at line 157). TLC violates both within two steps.

| Run | cfg | Expect | Bounds |
|---|---|---|---|
| `mssql_session` | `MCMSSQLDatabase.cfg` | pass | one valid DSN with a password, one invalid; all five ODBC failures; 6 handles (three opens' worth); destroy and re-create. About 2,000 states. |
| `mssql_handle_leak_violation` | `_leak.cfg` | violation | the same bounds. Trace: an open fails at `alloc_dbc`, then the next open overwrites `odbc_`. |

### `SqliteDatabase` (sqlite_database.cpp)

The library's connections are numbered `1..MaxHandles` (`conn`). As in the
SQLite documentation:

- `sqlite3_open` allocates a connection even when it fails;
- `sqlite3_close(NULL)` does nothing;
- closing a freed connection is use after free (`fault = "segv"`).

`implOpen` is `database_impl`'s open state. That class is not in the
repository, so its behaviour is taken from spec.md 4.4. The statement cache
is the constant `Cached`.

| Action | Code |
|---|---|
| `open` | `open`, lines 47-55 |
| `Close` (`close`) | `close`, lines 57-62 |
| `CreateDatabase` | `create_database` plus the constructor, lines 102-105 and 35-39 |
| `Destroy` | `destroy_database` plus the destructor, lines 107-110 and 41-44 |
| `Visit` | the three `visit` overloads, lines 64-85 |

Properties:

- `SessionRefinement` (against `DatabaseSession`, with no transaction).
- `NoUndefinedBehaviour`.
- Stated, with no run:
  - `NoConnectionLost`: a failed open's connection is never closed. TLC
    finds this with open failing, then open.
  - `MissingStatementReported`.

| Run | cfg | Expect | Bounds |
|---|---|---|---|
| `sqlite_session` | `MCSqliteDatabase.cfg` | pass | 3 connections; `sqlite3_open` may fail; one cached and one missing statement key; create/destroy cycles. 174 states. |
| `sqlite_double_close_violation` | `_ub.cfg` | violation | the same bounds. Trace: a close, then a second close reaches `sqlite3_close` on the freed `db_`. The second close can be the destructor's. |

In both SQLite runs, undefined behaviour stops the process, and the model
stops with it (`CHECK_DEADLOCK FALSE`).

### `UnitTest` (unit_test.cpp)

- `info` is `test_func_info_map_` (`succeeded`, `assertion_count`), and
  `current` is `current_test_func_info`.
- `execute()` walks the map one test per step (`pending`, `acc`).
- A run of one test is a choice from `RunChoices`:
  - `initialize()` makes no assertion, a passing one or a failing one;
  - the test makes `k` passing assertions and then returns, fails, throws a
    `std::exception` or throws something else;
  - `finalize()` makes no assertion, a passing one or a failing one.
- `RunTest` applies the code's order. `initialize()` runs before `current`
  is set. Only `unit_exception` and `std::exception` are caught.

| Action | Code |
|---|---|
| `AddTest` | `add_test`, lines 87-90 |
| `ExecuteAll`, `ExecuteStep` | `execute()`, lines 48-62 |
| `ExecuteOne` | `execute(name)`, lines 64-74 |
| `RunTest` (`Counted`) | `execute(test_info)`, lines 129-149, with `assert_true`/`assert_false`, lines 92-110 |

Properties:

- `ExecuteReportsAll`: an `execute()` that returns gives the conjunction of
  every registered test's `succeeded`.
- `ExecuteReturns` (liveness): `running ~> ~running`. Once `execute()` has
  started, its walk ends after the last test or at the first exception that
  escapes. It is checked under `WF_vars(ExecuteStep)` only.
- `NoUndefinedBehaviour`.
- `LatestRunReported` (stated, no run; TLC violates it with a failing run
  and then a passing run of one test: `succeeded` is never reset).

| Run | cfg | Expect | Bounds |
|---|---|---|---|
| `unit_runner` | `MCUnitTest.cfg` | pass | tests `t1`, `t2`, the unknown name `t3`, one passing assertion per test function, and assertion counts up to 3. This covers repeated runs, failures in each phase, and escapes mid-walk. 8.5k states. |

`NoUndefinedBehaviour` is stated, and TLC violates it when `initialize()`
asserts: the first test run's `initialize()` asserts through a null pointer.
It no longer has a run of its own, because the run budget went to the
accessor's thread race. It is listed as a hazard.

### Findings

Each finding is in `PROJECT.json` with the run that shows it:

- Fixed char buffers overflow by one byte, or are left unterminated with
  `'\n'`.
- `strlen(NULL)` on SQL NULL columns.
- `update_value<std::string>` on varchar fails although get works.
- A failed MSSQL `on_open` leaves ODBC handles that the next `on_open`
  overwrites. `on_close` never frees the connection handle.
- SQLite `close()` does not reset `db_`, so a second close, including the
  destructor's, frees the connection twice.
- Two threads on separate sessions that call `update_value<T>` at the same
  time corrupt each other's update through the shared static (see
  `ObjectValueThreads`).

The other defects in this README (skipped one-character text, unparsable
numbers becoming 0, fetch on a write result, a stale failed retrieve, a DSN
without a database, hard-coded credentials, transactions that never reach
the server, the lost failed SQLite connection, the unreported missing
statement, `succeeded` never reset, and the null `current_test_func_info`
an assertion in the first `initialize()` follows) are stated as properties in their
modules, and TLC violates each one. Each is recorded in `PROJECT.json` as a
hazard, except the hard-coded credentials and the stub transactions. A
single line of code decides those two (see `MSSQLDatabase`).

## 4. Fairness

Every call is synchronous (spec.md 5). Nothing schedules
calls, so the calls a user makes are never assumed to happen: fetch,
open/close, add_test and execute are unfair. The one fairness assumption is
`WF_vars(ExecuteStep)` in `UnitTest`. `ExecuteStep` is one turn of
`execute()`'s loop. Once the user has called `execute()`, the calling thread
stays in that loop until it returns or throws. So a step that stays enabled
is eventually taken. The test functions are assumed to return (every choice
in `RunChoices` ends), because a test that never returns is outside the
runner's control. All other checked properties are safety properties,
refinement included. `ObjectValueThreads` assumes no fairness either. Its
run asks whether a bad interleaving exists, not whether threads progress.

## 5. Not modelled (yet)

- `serialize` for date/time/identifier/foreign objects: their parsers and
  the object loader are outside `src/`.
- `column(c)`: it changes no state.
- `affected_rows_`: it is written once and no property depends on it.
- MSSQL `type_string`: a fixed table with no state. No code of the
  repository generates DDL from it. `create_result` and
  `create_statement` return null.
- Not distinguished in the model:
  - `SQL_SUCCESS_WITH_INFO`: the three setup calls of `on_open` (lines
    109, 116, 123) test `ret != SQL_SUCCESS`, so for them it is a failure.
    For `SQLDriverConnect` and `SQLDisconnect` it goes to `throw_error`,
    which is not under `src/`. Each call is modelled as succeeding or
    failing. Either reading of a given return code is one of those two
    outcomes.
  - SQLite `BUSY`/`NOMEM` (the code treats any non-OK result alike).
- SQLite `create_statement` and `sqlite_statement`: the statement class is
  only declared, and its cache is in `database_impl`, which is outside the
  repository. `create_statement` (line 89) constructs a `sqlite_statement`
  from the database alone. The declared constructor (`sqlite_statement.hpp`
  line 43) also takes the statement text. So the snapshot's two files do not
  compile together, and there is no statement behaviour to model.
- `serialize` for `time` and identifiers: `oos::time::parse` and
  `basic_identifier::serialize` are outside `src/`. The hazard that an empty
  time column overwrites the field is listed in `PROJECT.json`.
- The query builder (`basic_query.hpp`), the token list (`sql.hpp`) and the
  column tokens (`column.hpp`): the repository holds only their declarations.
  The builder's legal transitions are neither in the code nor in spec.md
  4.2, which names the states but not the table. The compiler is not in the
  code either. A model of them would check spec.md against itself.
- `unit_test::list`, `warn` and `info`: they only print. Captions and
  messages are left out.
- `trim` is exercised only through its definition. The grammar's parts
  contain no blanks.
- Threads beyond the accessor: the other components keep no state shared
  between sessions, so two sessions on two threads do not interact there.
  `retrieve_value`'s static is shared in the same way as `update_value`'s.
  Only the update side is split into steps.
