# A TLA+ development of poudb

poudb is a small database server in C: one process, one thread, named tables in
memory, a text protocol over TCP, and a snapshot file that is loaded at start and
written at intervals and at exit. A TypeScript client lives in `js-client/`.
Paths below are relative to the root of the repository; C lines are those of
`src/`.

Contents: [inventory](#inventory), [modules](#modules), [runs](#runs),
[what the code does differently from what is written](#findings),
[proofs](#proofs), [abstractions](#abstractions), [plan](#plan).

## Inventory

| part | state | operations | what makes it correct |
|---|---|---|---|
| data model `src/db/data_model.c` | list of tables; per table: schema, rows by key, `rowsCount`, `nextKey`, one index per field | `db_create`, `add_db`, `remove_db`, `db_add_row`, `db_update_row`, `db_delete_row`, `db_create_index`, `db_index_collect_rows`, `db_set_row_timestamps` | counts agree with rows; automatic keys are free and not given out twice; arrays stay within the limit; an index holds what the rows hold |
| operations `src/db/operations.c` | none of its own | one `execute_*` per command, called by `execute_command` | a query shows the rows that match; a refused command changes nothing it did not name |
| parser `src/db/parser.c` | none | `parse_command` and one parser per command | a line gives back what the client meant; what is accepted is within the limits that the rest relies on |
| persistence `src/db/persistence.c` | the snapshot and its temporary file | `persistence_save_all`, `persistence_load_all` | at every moment the file on disk loads to one complete save; a load is all or nothing |
| server loop `src/main.c` | `keepRunning`, the epoll loop | start, first-run key, accept, AUTH, permission gate, dispatch, signals, exit handler | a signal ends the process with a save; every turn reaches the autosave |
| autosave `src/utils/autosave.c` | `lastSaveMs`, `enabled` | `autosave_init`, `autosave_maybe_run` | a server that runs saves again and again |
| auth store `src/auth.c` | up to 64 names, roles and hashes | `auth_add_key`, `auth_del_key`, `auth_verify_ex` | names are unique, the limit holds, keys survive a save and a load in order; a token opens its own name and role until its key is deleted |
| connection manager `src/connection_manager.c` | slots with descriptor, level and name | add, remove, lookup, wait | a connection has the level it authenticated for, whatever others do |
| network `src/net.c` | none | `receive_data`, `send_data` | one line in is one command; a client that waits for its replies loses none |
| hash map `src/utils/hashmap.c` | buckets | insert, find, remove, rehash, iterate | the buckets are a set of rows with unique keys, and a scan returns each row once |
| configuration `src/config/runtime_config.c` | the settings | defaults, file, command line | command line before file before defaults; a bad setting ends the start |
| client `js-client/src` | request queue, timers, socket | connect, send, reconnect | an answer belongs to its request; a command is done at most once per try; every call ends |
| client helpers `js-client/src/protocol`, `parsers`, `net/response-discriminator.ts` | none | escape and format a call, read a reply | formatting and parsing are inverse to what the server does |

`main` calls the parser, the gate and the executor for one line at a time; the
executor calls the data model and the auth store; persistence walks both; autosave
and the exit handler call persistence. Nothing runs concurrently inside the
process. The hard behaviours come from elsewhere: commands that fail half way
(allocation, limits), a counter that overflows, long sequences of legal commands,
a save interrupted by a kill or a power failure, loads that fail in the middle, a
blocking read in the only thread, slots and descriptors that are reused while a
batch of events is handled, two readings of one text that must agree, and, in the
client, timeouts that race answers and reconnects that race each other.
The file `PROJECT.json` lists each of these hazards with its line and the
properties that cover it.

## Modules

| module | models | uses |
|---|---|---|
| `DataModel` | one table, as operators from a table and a request to the set of outcomes (return code, table left behind) | |
| `TableStore` | what a client may rely on: named tables that map keys to rows, and the answers | |
| `Operations` | the storage and every table command as an action; the last reply; implements `TableStore` | `DataModel`, instance of `TableStore` |
| `Persistence` | the images a save may write; what a load makes of a file | `DataModel` |
| `Server` | the process: start, loop, autosave, signals, the save step by step, kills, power failures; the auth store | `Operations`, `Persistence` |
| `OperationsProofs` | theorems: tables, indexes, replies | `Operations` |
| `RowsProofs` | theorems: what commands do to rows, the refinement of `TableStore` | `OperationsProofs` |
| `ServerProofs` | theorems: snapshots, saves, loads | `OperationsProofs`, `Server` |
| `SessionsProofs` | theorems: slots, events, keys, rights, lines | `Sessions` |
| `RowHashMapProofs` | theorems: chains, the refinement of `RowSet` | `RowHashMap` |
| `JsClientProofs` | theorems: the client's requests, sockets, answers | `JsClient` |
| `ParserProofs` | theorems: accepted commands and the limits | `Protocol` |
| `ConfigProofs` | theorems: precedence, refused starts | `RuntimeConfig` |
| `Auth` | the auth store as operators | |
| `Sessions` | the event loop, the connection manager, framing, AUTH, the permission gate, the key commands | `Auth` |
| `JsClient` | the client's queue, timers, socket events and retry loop, with the network and the server's side of a connection | |
| `RowSet` | what a table relies on in its row map: a partial function and a scan | |
| `RowHashMap` | the chained hash map with its rehash and iterator; implements `RowSet` | instance of `RowSet` |
| `Parser` | every command's parser, from symbols to a command or an error | |
| `Protocol` | a call from its arguments to its result: format, parse, answer, read | `Parser` |
| `RuntimeConfig` | defaults, file and command line | |
| `MCOperations`, `MCServer`, `MCSessions`, `MCInputs` | the instances that TLC checks | |

`Server` also extends `Auth`: the store that `Sessions` changes by commands is the one
that `Server` saves and loads. `MCInputs` holds `Protocol` and `RuntimeConfig` side by
side; they share nothing.

**DataModel.** A table is a record with the fields of `DB`. `rows` is a function
from the live keys to rows; `index[f]` is the `enabled` flag and the set of
(value, key) pairs of a `DBFieldIndex`. Two fields are history and are read by no
action: `overflowed` (did `nextKey` ever pass `INT_MAX`) and `stale` (fields
overwritten by an UP that then failed, since the last rebuild). An operation
returns a *set* of outcomes because an allocation may fail at several places
(`MallocFails`); the outcomes differ in what has been written by then. The details
that matter are kept: `nextKey` moves before the duplicate test (`TakeKey`); UP
writes fields in place and stops at the first failure (`TornRow`); a replaced value
is freed before its copy exists; ADD, UP and DEL rebuild all enabled indexes and
disable those that cannot be rebuilt; a load goes through `db_add_row`.

**Operations.** One action per handler, one disjunct per early return, in the
order of the code. `reply` records the command, the request, whether an error
message was sent, the result code and the keys of the rows shown.

**TableStore.** The commands as a client knows them, without row counts, key counters,
indexes and rebuilds: a table is its schema, its rows, and two reservations that the
code makes necessary. `torn` are the fields that a refused UP has written: until the
next change of the table, or a new index on the field, a SEARCH for one of them may show
other rows. `worn` says that the highest int was given out or asked for as a key, after
which an automatic key need not be above the others; it is still one that no row has,
unless the command is refused. A command that runs out of memory is refused without any
effect, except that ADD may have used up a key and UP may have written a part of the
row (`HalfWritten`). The refinement mapping (`Tables`, `Seen`) forgets the counters and
indexes, and the code of a refusal, which does not reach the client. `ImplementsStore`
is the refinement.

**Persistence.** A file is an image plus `have`, the number of sections that can be
read: the header, the tables, the key count, each key. The loader stops at the
first item it misses, and where it stops inside a section makes no difference.
The rows of an image are in some order, because the hash map's is arbitrary.

**Server.** `proc` is what the process is doing (`down`, `opening`, `serving`,
`stalled`, `saving`). A save is a sequence of steps (open, write, flush and close,
rename), each of which may fail (`SaveFails`) or be followed by `Crash`. A load may
see less than the file holds (`Readable`). `PowerFail` may cut a file whose content was
not written back (`media = "cached"`). `saved` is history: what the last save that
returned 0 wrote. `elapsed` is the autosave test `nowMs - lastSaveMs >= intervalMs`.

**Sessions.** A connection is a number that the server never sees: it sees
descriptors, and the kernel gives the lowest free one to the next connection.
`slots` are the three parallel arrays of the connection manager, so `remove_client`
is the removal of one element. `Wait` takes all ready descriptors into `batch`;
they are handled in any order, as the kernel may report them. A line is sent whole
or as a head and a tail; `receive_data` reads what is there, blocks (`reading`) while
there is no newline, and drops what follows the first one. `granted`, `issued`,
`owed`, `lockstep` and `mangled` are history: what a connection was given by its own AUTH, which
tokens exist and live, which reply a client waits for, whether it has always waited,
and whether it then had another line handled than its own.
`queries` and `changes` flip when a command is executed, which is how `RightsHeld`
sees it.

**JsClient.** One action is one callback of the event loop with the promise
continuations behind it. `conn` is the `PoudbConnection`: socket, queue, the active
request, its buffer, and the writes whose callbacks are still to come. `phase` and
`tries` are the position of each call in `sendWithReconnect`. A broken socket first
runs the error callbacks of its writes and then "close" (`failing`). The server reads
one or more lines of a socket and handles the first. `slipped` and `raced` are
history: they name the windows in which the code's guesses (silence ends an answer;
nobody else is connecting) can be wrong.

**RowSet and RowHashMap.** `RowSet` is the specification that `DataModel` takes for
granted: insert, write, find, remove, clear, and a scan that returns every row once
in any order. `RowHashMap` is the code: chains, newest node first, doubling at three
quarters, an iterator of bucket number and node. A node is known by its place
(`Places`), the number of its bucket and its position in the chain; `Before` is the
order in which the loops over buckets meet the places, and a rehash (`PushAll`) pushes
the nodes in this order, so that the last one comes first in its new chain.
`ImplementsRowSet` is the refinement (`Abstract == INSTANCE RowSet WITH ...`): the
rows are what the chains hold, and `unread` is what the iterator has still in front. The hash function is chosen at
the start from all functions into `HashValues`.

**Parser, Protocol, RuntimeConfig.** Pure functions with one action per stage. A line
is a sequence of symbols; each `parse_*` does its checks in the order of the code. What
the code does in a loop or by recursion is a function of the position in the line:
`parse_single_value`, `parse_string` and `tokenize_fields` are defined from the end of
the line, where what follows is known, and the passes that carry a state
(`CountValues`, `ParseValues`, `FieldNames`) from its beginning. An array inside an
array is one element, `Misread`, of the tag its type has: the executor reads the wrong
member of a union there.
`Protocol` passes a call through `Build` (the client's formatting), `parse_command`, an
answer built as the server builds it (`FormatTable`, `FormatKeys`, a code, a message)
and the client's reading of it (`discriminateResponse`, `parseTable`, `coerceTable`).
The references they are checked against are `MeantCommand`, `ExpectedRows` and `Meant`.
`RuntimeConfig` reads the command line twice, as the code does: `pre_scan_config_path`
for the file and `apply_cli_overrides` for the options.

## Runs

| run | kind | shows |
|---|---|---|
| `keys` | pass | two names for one table slot, explicit keys −1, 0, 1 and INT_MAX (= 3), automatic keys, refusals: `RowsCounted`, `NextKeyAboveRows`, `AutoKeyAccepted`, `AddNamesItsRow`, `KeysNotReused` |
| `index` | pass | a string field and an int array field at its limit, indexes on key and string, failing allocations, a ticking clock: `ArraysBounded`, `IndexExact`, `IndexCoversRows`, `SearchShowsMatches`, `RefusalIsLocal`, and the refinement `ImplementsStore`: also explicit keys that reach INT_MAX (= 1) and automatic ones after it |
| `crash` | pass | kills and file errors at every step of start and save, old snapshots: `TablesSound`, `SnapshotFaithful`, `PathReplacedWhole` |
| `torn` | pass | power failures with two auth keys: `LoadAllOrNothing` |
| `autosave` | pass | liveness: `AutosaveCatchesUp`, `ShutdownEnds` |
| `sessions` | pass | three connections, two slots, two lines, a store that fills up: `SlotsMatchDescriptors`, `LevelIsOwn`, `TokensHonoured`, `EventsFresh`, `LockstepLossless`, `RightsHeld`, and liveness: `Served` |
| `client` | pass | AUTH and two calls, one retry each, lost connections, timeouts, split replies, `disconnect()`: `AnswersMatch`, `DoneOncePerTry`, `NoStraySocket`, and liveness: `CallsEnd` |
| `hashmap` | pass | three keys, every hash function into three values, rehashes that fail: `ChainsSound` and the refinement `ImplementsRowSet` |
| `inputs` | pass | calls with every string of three awkward symbols, lines with a symbol missing, added or replaced, command lines of three options: `CommandsArrive`, `AcceptedWithinLimits`, `AnswersUnderstood`, `Precedence`, `BadInputRefused` |
| `stale_search`, `reauth`, `value_count` | violation | see [findings](#findings) |

**Bounds.** `IntMax` is 1 to 3, so that the key counter overflows, wraps and comes
round within a few rows; `MAX_ARRAY_LENGTH` is 1, so that one append reaches the
limit; `MAX_ROW_CAPACITY` is 1 or 2, enough for a full table, for a duplicate and
for two orders of rows in a snapshot; `MAX_DB_COUNT` is 1 with two names in `keys`,
so that a second table is refused; `MAX_FIELDS_PER_DB` is 2 where a failed UP needs
a field before the one that fails; two auth keys are needed for a partial auth
section. `MaxClock` bounds the clock; two instants are enough to tell a stamp from
a later one. Allocation failures are on in `keys` and `index`. They are off in the
server runs: every outcome of an allocation in a table operation is already
in the first two runs, and in a save and a load they end like a file error, which is on.

In `sessions`, three connections for two slots are what it takes for a refusal at
capacity, for a shift of slots and for a descriptor to be reused; two lines are enough
for a client to authenticate and act, for a key to be removed after its token was
presented, and for two lines to arrive in one read. A name that is deleted and given out
again would take four; of that only the theorem about `TokensHonoured` speaks. In
`client`, `maxRetries` 1 with three requests lets two of them reconnect at once; only
request 1 has a reply in two pieces. In `hashmap`, `InitialRowCapacity` 1 makes the
table double on the first and on later inserts, and the values 0, 2 and 5 collide modulo
1 and 2 and partly modulo 4. In `inputs`, `MaxText` 3 covers an escape between two
symbols at either edge of a string, `MaxOptions` 3 a file and two options in every
order, the symbols of the strings are what ends or separates values, what splits a line,
what opens or closes a list and what is escaped, and the limits on fields, elements and
characters are small enough to be passed by one.

`crash` and `torn` use a `VIEW` that
drops `reply` and `loaded`, which no action reads and no property of these runs
except the type invariant mentions, and `tmp` outside the steps of a save, where it
is overwritten before it is read. `CHECK_DEADLOCK` is off in `sessions` and `client`,
where a behaviour really ends: the server is down, or every call is over. Everywhere
else a client can send another command and a stopped server can be started.

**Fairness** (`FairServerSpec`). Weak fairness of `Listen` and `SaveStep`: the
process runs the code it is in. Weak fairness of `Elapse`: the monotonic clock
advances. Strong fairness of `autosave_maybe_run` and `Exit`: `wait_for_events` has
a timeout of 500 ms, and every turn of the loop ends in `autosave_maybe_run` and in
the test of `keepRunning`, so a loop that keeps turning, however often a client
stalls it in between, keeps coming back to both. Nothing is assumed of clients: a
client may stall the loop for ever, and the two liveness properties say so. They
assume that autosave is on, as it is unless configured otherwise, and that file
operations succeed.

`SessionsSpec` assumes weak fairness of `Loop`: the process goes on with its loop.
Clients owe nothing, and `Served` makes the exception that another client holds the
loop with half a line for ever. `JsSpec` assumes weak fairness of `EventLoop`: timers
fire, connection attempts end one way or the other, and the callbacks of a socket that
was lost or closed are run. Nothing is assumed of the server or the network, neither a
reply nor the answer to the end of a stream (`Ended`, an action of `Network`): a call must
end without them too, which is what the timeout is for. `CallsEnd` names the two windows
in which it may not (see [findings](#findings)), and a call is excused only if it stays in
them for ever. Since the fairness is of the whole
disjunction, it does not favour one timer over another.

## Findings

Each is the violation run of the same name; the line is where the code decides.

- `stale_search` (`data_model.c:437`): an UP that is refused because an array is
  full has already written the fields before it. The row keeps them, without a new
  update time and without an index rebuild, until the next successful ADD, UP or DEL
  on the table; an indexed SEARCH answers from the old values.
- `reauth` (`js-client/src/client.ts:257`): the retry loop reconnects the socket and
  repeats the command, but AUTH is sent by `PoudbClient.connect` only. On the new
  connection the server refuses everything, so a client that was given a key ends with
  "ERR Authentication required" after the first lost connection.
- `value_count` (`parser.c:2429`): the values of ADD and UP are counted by a pass that
  takes every quote for the start or the end of a string, escaped or not. After a value
  like `"\""` the commas are text to it: `ADD t * ("\"", 1)` has one value, the second is
  dropped without an error, and the executor refuses the command for its number of
  values.

Smaller disagreements met on the way, without a run of their own:

- After a row with key INT_MAX the counter wraps (`data_model.c:290`) and automatic keys
  are negative. The loader passes the key of each row to `db_add_row`, where a negative
  key asks for an automatic one (`persistence.c:297`): the row comes back under another
  key, or takes that of a row still to come, and then the load fails. `SnapshotFaithful`
  therefore speaks of tables that have not overflowed.
- A load that fails in the auth section frees the tables and keeps the keys read so far
  (`persistence.c:365`), while `main.c:76` says "starting with empty state".
- `fflush`, no `fsync`, then the rename (`persistence.c:141`), under the comment "Ensure
  all buffered data is written to disk": after a power failure the file may be cut, and
  `LoadAllOrNothing` is what is left.
- `[]` has the tag of an int array, so every array field accepts int arrays and stores
  them as they are (`operations.c:480`); `readme.md` says "Typed homogeneous arrays".
- Half a line from one client holds the server, autosave included (`net.c:114`).
- An ADD that succeeds may have a negative result code (a negative explicit key, or a
  wrapped counter) while `include/db/operations.h` says negative means error; once the
  counter has come round ADD * meets existing keys (hence `unless overflowed` in
  `AutoKeyAccepted`).
- `readme.md` says that version 1 snapshots load; the code discards them and the
  first-run save replaces the file.
- A string between parentheses that ends in a backslash is refused as "unmatched
  parenthesis" (`parser.c:1911` looks back one character), and in SEARCH any
  parenthesis inside the value is taken for the list of fields. `Sendable` names the
  texts that do arrive.
- ADD and UP ignore words before "(" beyond the second and everything after ")".
- The table format cuts strings at 255 characters and doubles at six digits and has no
  escape for bars and line breaks; `Showable` names what comes back whole.
- `addKey` and `whoami` take a refusal that does not begin with ERR for their result, and
  `whoami` of a key whose name is a number returns "".
- The client writes 1 as an int, so the server refuses its array `[1, 1.5]` as mixed.
- An unknown log level is taken for info, on the command line as in the file, while every
  other bad value ends the start.
- `-fX` is a file to `getopt_long` and not to the scan that looks for the file, so it is
  accepted and ignored (`SeenByBoth`).
- A request has a timer from when it is written. One that waits behind another at
  `disconnect()` has none: `processQueue` finds no socket any more (`connection.ts:144`), and
  the promise is settled by the close event, or sent if another call reconnects. If the
  server never answers the end of the stream, because half a line of another client holds
  it, and no call reconnects, the call never ends (`Stranded` in `CallsEnd`).
- A call that waits to retry at `disconnect()` makes a new connection afterwards, which
  the application has to end once more.
- Two calls that reconnect at once leave an open socket behind that `disconnect()` does
  not know, and a write error on a replaced socket takes the active request of the new
  one out of the way, so that its promise is never settled (`raced` in `NoStraySocket`
  and `CallsEnd`).
- `readme.md` says that connections already authenticated with a revoked token "are not
  affected until they reconnect"; the code agrees (`LevelIsOwn`). DEL_KEY may remove the
  last admin key; only a start with an empty store makes a new one.

## Proofs

The theorems hold for every value of the constants: any names, schemas, values, keys,
clients, slots, tokens, limits and retries, any hash function, with and without failing
allocations and file operations. Each is named in `PROJECT.json`; where it states a
property of a run, the run shows the property on a small instance first. Assumed is
what the modules assume of their constants, which TLC evaluates on every run: limits are
positive (`LimitsAssumption`, `KeysAssumption`, `MapAssumption`, `ClientAssumption`),
commands carry what the parser lets through (`InputsAssumption`, `SessionsAssumption`),
a server starts with distinct keys (`FirstKeysAssumption`), the first start finds
no snapshot or one of an older version (`ServerAssumption`, `FirstFilesAssumption`), a
number is one symbol and no other symbol of the grammar (`ParserAssumption`), a line is
a sequence of symbols, whoever writes it (`ProtocolAssumption`), and an option or an
entry that sets something comes with a value (`ConfigAssumption`).

| module | theorems | properties |
|---|---|---|
| `OperationsProofs` | `Invariance` and eight more | `TypeOK`, `RowsCounted`, `NextKeyAboveRows`, `AutoKeyAccepted`, `ArraysBounded`, `IndexExact`, `SearchShowsMatches`, `KeysNotReused` |
| `RowsProofs` | `RowsInvariance` and five more | `IndexCoversRows`, `TimestampsOrdered`, `AddNamesItsRow`, `RefusalIsLocal`, `ImplementsStore` |
| `ServerProofs` | `ServerInvariance` and five more | `ServerTypeOK`, `TablesSound`, `SnapshotFaithful`, `LoadAllOrNothing`, `PathReplacedWhole` |
| `SessionsProofs` | `SessionsInvariance`, `FrameInvariance` and seven more | `SessionsTypeOK`, `SlotsMatchDescriptors`, `LevelIsOwn`, `EventsFresh`, `TokensHonoured`, `LockstepLossless`, `RightsHeld` |
| `RowHashMapProofs` | `MapInvariance`, three more | `MapTypeOK`, `ChainsSound`, `ImplementsRowSet` |
| `JsClientProofs` | `JsInvariance`, four more | `JsTypeOK`, `DoneOncePerTry`, `NoStraySocket`, `AnswersMatch` |
| `ParserProofs` | `AcceptedWithinLimitsTheorem` | `AcceptedWithinLimits` |
| `ConfigProofs` | `PrecedenceTheorem`, `BadInputTheorem` | `Precedence`, `BadInputRefused` |

**Storage.** The inductive invariant `IInv` is `TypeOK`, the table invariant `TableOK` of
every table, and the two statements about replies. None of the parts is inductive alone:
that DEL keeps the count needs that the rows are finite and the key a row; that
ADD * succeeds needs that `nextKey` is above every key, which needs that an explicit
key raises it; that SEARCH shows the right rows needs that the index is exact *and*
that only scalar fields are indexed, because an index looks up one-element values;
and an index stays exact only if every path that changes rows either rebuilds it or
marks the field stale. Below the invariant there is one lemma per data-model
operation (`AddRowKeepsTable`, `UpdateRowKeepsTable`, `TornRowKeepsTable`,
`DeleteRowKeepsTable`, `CreateIndexKeepsTable`, ...) which says that each outcome is
a `TableOK` table with the same schema, and one step lemma per group of commands.

`RowsInv` adds what holds of rows *although* an UP may fail half way: an enabled index
names every row once even where its values are stale (`CoversRows`: a failed UP neither
adds nor removes a key), stamps are in order and not ahead of the clock (`StampsOK`), and
a reply to ADD names a row. `RefusalIsLocal` is about a step and not a state, and is
proved of each command. `TimestampsOrdered`, stamps in order,
is no property of a run: `ImplementsStore` says of each command which stamps it sets, from
which the order follows. `AddNamesItsRow` holds beyond the overflow: the code that
`execute_add` computes from `nextKey` wraps back to the key that was given.

**Store.** `StoreTheorem` shows that every step of the executor is a step of
`TableStore`, allocation failures included. There is one lemma per command
(`CreateStores`, `AddStores`, `UpdateStores`, ...), which rests on the outcomes of the
data-model operation: `AddRowStores` says which key a row gets and when none, `TornTable`
and `WrittenTable` what UP leaves of a row. `IInv` supplies what the abstract store takes
for granted: that the row count is the number of rows (COUNT, GET_ALL and the capacity
test of ADD), that an automatic key is above the others, and that an index shows what a
scan would show.

**Snapshots.** That a load restores what a save wrote is a statement about a loop of
calls: each row goes through `db_add_row`, is stamped with the time of the load and then
with its own. `ServerProofs` follows the loop. After `i` rows the table holds the first
`i` rows of the image with the values and stamps they had (`Replayed`), so that the next
key is free and the row count below the limit. The prover has no induction, so
the argument looks at the *least* number of rows after which this fails
(`LeastElement`): it is not 0, and the row before it went right. Every order of the rows is allowed
for, because a hash map gave it.
`Shaped` and `Kept` say what is true of a table in memory and of what a save keeps of
it: arrays and row counts within the limits that the loader tests again.

`ServerInv` connects the process with its files. `MemoryInv`: the tables satisfy `IInv`,
are within the loader's limits, and a process that is down has answered nothing.
`ProcInv`: where a save may be. `FileInv`: the file is the first one, or an image of
what the last successful save wrote, complete unless a power failure tore it.
`TmpInv`: between the steps of a save the temporary file is an image of the memory as
it is, because no command runs in between, and is complete before it is renamed. Without
`TmpInv` the rename would not preserve `FileInv`, and without the limits in
`MemoryInv` a file could be written that cannot be read. `SnapshotTheorem` covers
failing allocations too: a load that finds no memory returns an error and leaves
no table (the second disjunct of `SnapshotFaithful`). The crash runs switch them off.

**Sessions.** `SessionsInv` is `ConnInv`, `KeysInv` and `FrameTypes`. `LevelIsOwn` needs
that two slots never share a descriptor, that descriptors and connections are one to
one (`DescriptorsOpen`), and that a connection has no rights before it is open
(`NoGrantUnopened`), because a number is handed out again. `EventsFresh` needs that the
descriptor `receive_data` blocks on has no event left (`ReadingOpen`) and that accept
is called only while a connection waits (`ServerEventReady`). `KeysInv` says that every
live token is one key of the store and every key one live token, which survives the
shift in `auth_del_key` because names and tokens are distinct. `FrameInv` says, of a
client that has waited for every reply, what is under way between it and the loop: its
one line, or the head or the tail of it (`Buffers`); so that nothing can follow a first newline.
`RightsHeld` is proved from `ConnInv` alone.

**Row map.** `MapInv`: every node is in the chain of its key and no key has two
(`Sound`), the caller's count is the number of places, and the iterator stands before
the first place, on a node while a scan is under way, or at the end. The rehash lists
places by rank (`RankFacts`): rank is one to one between the places and
`1 .. Cardinality`, so every node lands in exactly one new chain. For the refinement each
operation gets a lemma about the contents (`ContentsAdd`, `ContentsRemove`,
`ContentsWrite`) and the iterator one that says that the keys after a place lose exactly
the key returned (`ScanFacts`); every step of `MapNext` is then a step of `RowSet`.

**Client.** `JsInv` has six parts. `Types`. `SocketInv`: the socket in use is open, one that fails is not
yet closed, requests that connect have sockets of their own, and a closed socket
carries nothing. `Budget`: there are not more sockets in use than tries that
left their delay, hence always one for a request that connects: the bound `Sockets` of
the model never binds. `AttemptInv`: an attempt is in the queue or written on one
socket, once; what is active or queued is pending; and what was executed together with
what may still be is at most what was sent. The last part is `DoneOncePerTry` made
inductive: a server that reads an attempt moves it from one side to the other.
`RaceInv`: without a race there is one socket. `AnswerInv`: without a race or a
timeout that socket carries nothing, or the active request, or its reply, of which the
buffer holds the beginning (`Lockstep`). It needs `RaceInv`, since a second socket could answer
into the same buffer, and `RaceInv` needs that nothing is active when no
socket is open.

**Parser.** `AcceptedWithinLimits` says of *every* line, not of those the client writes, that
a command that is accepted has values, names and fields within the limits that the rest
of the server uses without testing them again. The parser is a set of loops over the
line, and the argument is again about positions: of the positions at which a statement
fails there is a greatest (`Downwards`), and what lies behind it is in order. The same
argument shows that the functions exist that `parse_string`, `parse_single_value` and
`tokenize_fields` are defined by (`TextFunction`, `ParsedFunction`, `FieldsFunction`): a definition by
recursion says nothing before that. `GoodValue` and `GoodList` are proved together, since
an array is a list of values and a list begins with a value; they say that a parsed value
has a type of the grammar, is within the limits, and ends behind the place where it began and
inside the line. `GoodSlots`, `GoodNames` and `GoodFields` follow the values of ADD and UP, the names of
GET and the fields of CREATE. Each command has one lemma (`AddAccepted`, ...): it
returns its first failing check or none failed (`CheckedFacts`). `ExchangeInv` carries the
result through the stages of an exchange.

**Configuration.** `StartExpected` gives the outcome of a start in terms of the command
line and the files alone: a start that goes on has every setting as `Meant`, and one whose
input is `Bad` does not go on. Both theorems are corollaries. `WordsPlaced` finds the words of each option on the command line,
so that the two readings can be compared option by option (`ScanFacts`, `ReadFacts`), and
`IniParseFacts` does the same for the entries of a file. `Settled` is the invariant of these
loops: the value so far is that of the last option, or entry, that sets it.

**Only model-checked.** Liveness (`AutosaveCatchesUp`, `ShutdownEnds`, `Served`,
`CallsEnd`), which is out of reach of the prover. `CommandsArrive` and `AnswersUnderstood`
say that a parser is the inverse of a formatter for every text: that is an induction
over the text on both sides, and where the loops of the two meet in the middle. They are
checked on every text of `MaxText` symbols and every shape of call.

## Abstractions

- Values are a type and an integer payload. Equality of payloads stands for `==` of
  ints, doubles and bools and for `strcmp`. Two doubles need care: `-0.0 == 0.0` but
  their hashes differ, so an index may put them in different buckets, and NaN is
  unequal to itself; the payloads are the other doubles.
- Strings are values too: their length limit is enforced before they are stored.
- An append literal in ADD has no elements and stores an empty array (`Elements`).
- Left out because the C code has no defined behaviour there: SEARCH with a value of
  another type than the field, UP with a scalar for an array field, and the elements of an
  array inside an array (all read the wrong member of a union), and numbers in string
  arrays. The parser lets these through, and `Parser` does too (`Misread`).
- The signed overflow of `nextKey` is the wrap that the build (`gcc -O2`) produces.
- `time(NULL)` is assumed not to go back.
- Fields are named by position. CREATE refuses a field called `key` and a field name of 64
  characters or more, so neither appears. Nothing refuses two fields of the same name: they
  are two fields here too, of which a name reaches the first (`find_field_index`).
- Table names are what `parser.c:473` and its like leave of them: longer ones are cut at 63
  characters without an error, in every command alike, so that two of them may be one table.
- A `CommandResult` that cannot be allocated (no reply at all) is left out.
- The order of tables in a snapshot does not matter to the load; the order of rows
  does and is arbitrary.
- `LoadTable` refuses a table whose row count is wrong; in the code the rest of the
  file is then misread, which fails unless the bytes happen to be well formed.
- In `Server` any command may arrive while serving; which connection may send which is
  the subject of `Sessions`. `Server` gives keys no token; `Sessions` does, and a hash
  verifies its own token and no other.
- In `Sessions` table commands are one query and one change each: what they do to the
  tables is `Operations`. Replies fit the send buffer. A tail read without its head is a
  line that does not parse. An allocation that fails in the parser or the executor sends
  no reply (`Starve`).
- In `JsClient` AUTH carries a good token, closed sockets are used again, a line lost
  with a broken socket is not read later, and an error reply is an answer like any other.
- `hash_key` is any function, so that nothing rests on how it mixes bits. The rows of
  `RowHashMap` are payloads under a key.
- In `Parser` a keyword, a name or a number is one symbol, and two of them never touch;
  letter case, lengths of names, failed allocations and the wording of errors are left
  out, and with them the digits of numbers (`parse_int` overflows on long ones).
- In `Protocol` a number that is not finite is sent as 0, as the client does. What the
  server finds is chosen from `Tables`; an answer to a call comes back to that call
  (`JsClient` is about when it does not). String fields are never null.
- In `RuntimeConfig` values that look like options, "--" and abbreviated long options are
  left out; an INI file is its entries, or unreadable.

**Not modelled.** `src/utils/log.c` apart from the level names and `src/utils/stdin.c`
write and read a terminal. The creation of the listening socket (`net.c`, `create_server`)
is a sequence of system calls that ends the start when one fails. `format_*` allocate the
text they return; a failure there is the error reply that `Operations` has. The vendored
INI parser, the build and the tests are not part of the model.

## Plan

Done: the storage engine with its commands, the snapshot and the life of the process;
the sessions; the client; the hash map against its specification; parser, protocol
and configuration as functions; every safety and action property of the storage, the
process, the sessions, the client, the hash map, the parser's limits and the
configuration proved, and both refinements (`TableStore`, `RowSet`).

Left: `CommandsArrive`, one argument type at a time, beginning with strings: what `quote`
adds is what `parse_string` takes away.
