# LMice in TLA+

A verification project for LMice, a small market-data and trading environment in
C and C++: an emulated trading API with a forked worker process, a shared-memory
board, a shared log ring, a resource daemon, the computation of forecasts from
quotes, and an IDE with an embedded Python interpreter whose types load and
filter recorded quotes and call the IDE's windows. This file is the inventory of
the system, the description of the models, and what TLC and TLAPS establish
about them.

## 1. Inventory

| Component | Code | State | Operations |
|---|---|---|---|
| X-One emulated API | `trader/trader_xone_emulator.cpp` | `m_api_data` (type bits, request id, one request record per type), parsed address | `Init`, `Req*`, `Release`, `Join`, destructor |
| X-One SPI worker | same file, `create_worker`/`proc_work`; `trader_xone_spi.cpp` | `m_workers[0]` (lock, status), `m_spi_data` (status, responses) | the loop, `OnFrontConnected`, `OnRspUserLogin`, `OnRspUserLogout` |
| X-One client | `test/testxoneemulator.cpp`, wait loops of `trader_xone_spi.h` | program position, loop counters | the script of the test |
| Femas2 emulated API | `trader/trader_femas2_emulator.cpp`, `trader_femas2_spi.cpp`, `test/testfemas2emulator.cpp` | request type word, worker and SPI status, request id; three bulks of the board | set-up, `Req*`, `Release`, callbacks |
| Worker board | `service/worker_board.cpp` | board header, table of bulks | `create`, `destroy`, `create_bulk`, `get_bulk` |
| Log ring | `service/service_logging.cpp` | position, mask, 32 slots | `log_data`, `proc_msg` |
| Resource daemon | `service/resource.c`, `lmiced.c` | memory-mapped lists of resources, boards, nodes | `server_create`, `server_destroy` |
| Resource list | `service/include/res_list.h` | chained blocks of items | `create`, `[]`, iterator |
| Scheme generator | `futuremodel/schemegen.py` | turnovers by date, product and instrument | `schemegen`: the rows of the table in `scheme.h` |
| Roll scheme | `futuremodel/rollscheme.cpp` | that table, a list of products | `from_alias`, `get_ticksize`, `get_constract_size` |
| Portfolio | `futuremodel/include/portfolio.h` | quotes, handler tables, signals, contracts | `pre_proc_msg`, `update`, `handle_msg`, `calc_forecast` |
| Forecaster, features | `futuremodel/cu1_0_forecaster.cpp`, `include/*feature*.h` | smoothed values of each feature | `init`, `prepare`, `handle_self_msg`, `handle_other_msg` |
| Instrument filter (IDE) | `ide/instrumentfilter.c` | names in two places, two sizes | assignment of a string, a list or a tuple, deletion, `+`, `in`, `at`, check |
| Quote source (IDE) | `ide/chinal1source.c` | block of messages, its size, cursor, current message | `load`, `at`, `next`, attributes |
| Python embedding (IDE) | `ide/pythonhelper.cpp`, `pythonembed.c` | pending error, `sys.stdout` and the saved stream, reference counts | `exec`, `eval`, `interpreter`, `callModel`, `ioredirect`, `ioreset` |
| Window calls (IDE) | `ide/windowproxy.c`, `pythonhelper.cpp`, `candlesticksetting.cpp` | window proxies with one method slot each, table of functions by window address | attribute look-up, call, `registerClassCall`, opening and removal |
| Two-sided chart (IDE) | `ide/twosidedgraphicswidget.cpp` | visible side, angle, direction, pending timers | double click, timer, removal |
| IDE, the rest | `ide/` | Qt widgets, highlighter, tree of log messages | GUI |

### How the parts interact

A client creates the board (an anonymous shared mapping), carves three bulks out
of it for the SPI object and the two data areas, hands them to the API object and
calls `Init`. `Init` forks the SPI worker. From then on the two processes speak
only through shared memory: the client's `Req*` calls write a request record and,
under the worker's lock, set a type bit and the worker's status; the worker takes
the lock without blocking, captures all bits at once, and outside the lock builds
responses and calls the client's callbacks *in the worker's process*. The callbacks
write `m_spi_data->m_status`, which the client polls. All processes log into the
ring on the same board.

The Femas2 emulator lives on a board of the same kind, in bulks that are carved
out next to those of other parts, but nothing serves what it flags; its callbacks
are made by whatever library drives the SPI.

The forecaster asks the roll scheme which instrument its alias stands for, in a
table the scheme generator has written from recorded turnovers.

The IDE shares no state with these. A Python program in it creates a quote
source, puts names into the source's instrument filter, loads a capture file and
steps through its messages; the source asks the filter about each quote. It calls
the window it was typed into through a proxy that knows the window by its address
alone. All commands of all windows go through one interpreter.

### What is hard here

* **Interleaving of two processes** on plain, mostly unlocked, shared words: the
  request records, the status, the log mask.
* **Shutdown**: the API gives up waiting long before the worker may exit, and the
  client unmaps the board afterwards.
* **Stale reads**: a polled status that an earlier answer left behind; parse
  fields that an earlier call left behind; quotes that were never initialised.
* **Partial failure**: `fork` and `mmap` fail and only a log line says so.
* **Order**: several instruments and two clocks feed one smoothed value; signals
  are reset, computed, summed and read in separate steps.
* **Limits**: a ring of 32, a table of 16 bulks, padding arithmetic in `int`, the
  end of a table used as "not found", lists at the boundary of two storages.
* **Call sequences** on the Python objects: what an assignment, a failed load,
  a written attribute or a look-up leaves behind for the next call.
* **Things that outlive others**: a status that outlives a session, a proxy that
  outlives its window, an error that outlives its command, timers that outlive
  the sides they turn.

`PROJECT.json` lists these hazards one by one, each at its line, with the
properties that cover it or the reason why none does. Three observations of the
survey are not in that list, since the code around them is straight-line and not
modelled (see 5): `server_create` goes on when `resource_init` has failed
(`resource.c:53`), the node list is registered under item 3 of the resource list,
over the one before (`resource.c:188`), and the library of `res_list.h` is used
by a test only.

### What makes each part correct

| Component | Properties |
|---|---|
| X-One API and worker | an accepted request is dealt with exactly once; batches are served whole and in order; a released worker exits; every call returns |
| X-One client | a wait returns the answer to the latest login, never an older one; no response mixes two requests; the session ends and leaves no worker |
| Worker board | bulks are disjoint, inside the mapping, and never move |
| Log ring | no message is lost, printed twice or torn, in the settings where the code can promise it; order |
| Portfolio, features | the smoothed values of a model that says it is ready rest on quotes that have a price; their time goes back only for a message that is itself late; the forecast, and the signals reported beside it, come from the current quote |
| Femas2 API | the SPI believes in a session only while there is one; its objects lie on bulks of their own |
| Roll scheme, generator | an alias stands for the instrument of its latest row not after the date; alias 01 for the one traded most on that row's day |
| Instrument filter | it reads back what it was last given, whatever was there before, with storage behind every name, as long as names fit and nobody writes its size |
| Quote source | the messages are the quotes of the file that pass, in order; the messages counted lie in a live block, all but the last quote taken again; the cursor and the current message agree; loading ends |
| Window calls | none the code promises: a window is a number a program may write, and what a kept method calls is said nowhere |
| Python embedding | a command reports its own errors and leaves none behind; the original stream comes back; what redirecting costs does not depend on who asks and when |
| Two-sided chart | the visible side faces the user; a turn ends |
| Resource daemon | every registered resource can be found; a failed creation leaves nothing in use |
| Resource list | an iterator visits every item once, blocks added meanwhile included |

## 2. Modules

| Module | What it is |
|---|---|
| `XoneEmulator` | API process and SPI worker over the shared board, with a client that may make any call |
| `SpiMailbox` | the abstract specification `XoneEmulator` implements: a set of requests, taken at once, answered in a fixed order |
| `XoneEmulatorProofs` | its inductive invariant and the refinement, and those of the session, proved |
| `XoneSession` | `XoneEmulator` composed with the client of `test/testxoneemulator.cpp` and the wait loops |
| `WorkerBoard` | the board's allocator |
| `Femas2Emulator` | the Femas2 emulator on a `WorkerBoard`, with its SPI and an external front end |
| `WorkerBoardProofs` | proofs about the two together |
| `ServiceLogging`, `ServiceLoggingProofs` | the log ring, one step per shared read or write, and the proofs that messages are printed whole, and for one writer all of them, in order, once |
| `Portfolio`, `PortfolioProofs` | quotes, features, signals and forecast, as `cu1_0_forecaster` sets them up, and the proofs for any set-up |
| `SchemeGen` | the generator's table, as a function of the turnovers |
| `RollScheme`, `RollSchemeProofs` | `from_alias` loop by loop over that table, and the proof that it is right |
| `InstrumentFilter`, `InstrumentFilterProofs` | the filter's two storages, and the proofs that they read back |
| `ChinaL1Source`, `ChinaL1SourceProofs` | loading a capture package by package, and the cursor, with its proof |
| `WindowCalls` | window proxies and the table of functions |
| `PythonHelper` | the interpreter's commands over `WindowCalls`, errors and streams |
| `TwoSidedWidget` | the turning of a chart |
| `IdeWindowProofs` | proofs about the last two |
| `MC*` | one per component that is checked: the instances the configurations refer to |

Definitions named "defect for mutation" are wrong variants of the definition
below them. No specification uses them; substituted, they break the property they
are meant for, which shows that the property is about the code.

### XoneEmulator

Two program counters, `apiPc` and `spiPc`, walk through the code of the two
processes; a step ends wherever the other process could see a difference.

| Code | Model |
|---|---|
| `Init`: parse loop, checks, `create_worker`, `start_worker` | `InitRejected`, `CreateWorker`, then the same `wlock`/`crit` steps as a request |
| `Req*`: copy of the record, request id | `ReqCopy`, `AssignRequestId` |
| `start_worker`: lock; busy; flag and status | `StartWorkerLock`, `StartWorkerBusy`, `StartWorker` |
| `Release`, `Join`, `stop_worker` | `Release(how)`, `ReleasePoll` |
| destructor | `Destroy` (writes `LM_BOARD_QUIT` = 1 = `LM_WORKER_START` into the worker's status, as the code does) |
| `create_worker` loop | `WorkerLoop`, `WorkerExit` |
| `proc_work` | `ProcWorkTryLock`, `ProcWorkCapture`, `ServeConnected`, `BuildRequestId`, `BuildAccount`, `Callback`, `BatchDone` |

`calls`, `accepted` and `served` are history: no step reads them
except the bound on `calls`. Responses are copied field by field since the code
copies outside the lock. The address check works on the three fields as `front`,
which starts undefined because the constructor does not set it. Addresses are
abstracted to which of their parts are good.

The client's side of the contract, taken from the test program: `set_api_data`,
`set_spi_data` and `set_board` come before `Init`; requests come after an `Init`
that was accepted; one thread makes the calls. Shared words are taken as
sequentially consistent, reads and writes of a word as atomic; the lock is the
trylock/unlock pair of the `eal` library, which is not in the repository.

### XoneSession

`step` is the statement of `main`, `round` and `tries` its counters. The client's
steps are those of `XoneEmulator`, so that what is shown of the emulator holds in
the session too. A wait that gives up goes to `Release`, as in the test. The
session id that `OnRspUserLogin` copies after it has set the status is left out:
the worker clears the response and never fills that field, so the copy writes the
zero that is already there.

### WorkerBoard

`Create`, `CreateFails` (both calls of `mmap` fail), `Destroy`, `CreateBulk`,
`CreateBulkFails` and the operator `GetBulk`, with the board's fields as
variables. A size is rounded up in `int`, which wraps beyond `IntMax` (`Wrap`,
`Quotient`); the sum of position and size is one of `uint64_t`, since
`m_bulk_pos` is, so that a size that wrapped to less than zero is a huge number
and refused (`Fits`). `want` remembers the size asked for, to say what a caller
may touch. The last eight bytes of the header are already `remain_data`, so a
bulk's offset is relative to `Header - 8`; `BulksMapped` uses the weaker
`Header`. `get_bulk` does not check that an fd was created; the model gives the
zeroed entry, as the code does.

The set-up runs in one process before any other is started, so `create_bulk` is
one step. It is checked as the part of `Femas2Emulator` that it is:
`EmulatorUsesBoard` proves that the emulator takes only the board's own steps.

### Femas2Emulator

| Code | Model |
|---|---|
| `main`: board, three `create_bulk`, placement `new` | `MakeBoard`, `MakeNoBoard` (no board, and nobody looks), `PlaceArea`, `PlaceNowhere` (a full board: the object is constructed on NULL), `CarveOther` for other users of the board |
| `Init` and the calls before it | `FrontInit` |
| `Req*` with `start_worker` | `Request(type)`, `Busy` |
| `Release`, end of `main` | `Release`, `DestroyBoard` |
| `OnFrontConnected`, `OnFrontDisconnected`, `OnRspUserLogin`, `OnRspUserLogout` | `Deliver` with `StatusAfter`; `GiveRequestId` for what a login writes after the status |
| the other callbacks, which print | `Deliver` of a `Silent` callback |

A request type is its ordinal and the ordinal is the mask, as in
`trader_femas2_data.h`; `Mask` is the set of its bits, so that `mtype` is a set
and theorems need no bit arithmetic. The front end (`LinkUp` ... `ReturnOther`)
is external, after what `USTPFtdcTraderApi.h` says of the callbacks: a link that
comes and goes, logins answered or refused, and callbacks that queue up, so that
each tells of a past state.

### ServiceLogging

Drawing a number is one step (it is an atomic add), writing the header, writing
the text, loading and storing the mask are steps of their own; `proc_msg` loads
the mask, loads the position, visits slots one by one and clears the mask with an
atomic exclusive-or. Messages are their numbers. One process runs one of the two
at a time; any number of processes may run either.

### Portfolio

A quote is its arrival number modulo two, its time, and whether the volume grew
from the one before; a smoothed value is the time of its last event and whether
only quotes with a price went into it; a signal is the quotes it was computed
from. Which kinds of feature read what, and when they set a signal, is
transcribed per kind from the feature headers (`SelfInputs`, `OtherInputs`,
`IsReady`, `Sets`). What `cu1_0_forecaster` sets up is the constant `Cu1`; that
its handlers, which name features by hand, name each exactly once and under its
own class is proved (`Cu1SelfDispatch`, `Cu1OtherDispatch`), and the actions then
go by the set-up. `PreProcMsg` is a whole call of `pre_proc_msg`, including the
loop over the features that stops at the first one that is not ready;
`UpdateContract` and `UpdateOther` are `update` with `handle_msg`, every feature
handler, and `calc_forecast`. The initial states are what `new` and `init` leave.
The client calls `pre_proc_msg` until it succeeds and `update` from then on. A
message may carry any time up to the bound `MaxTime`: nothing in the code
compares it with an earlier one. What memory holds before a quote arrives may
look earlier or later than every message (`Dirty`). Smoothed values keep the time
of their last event and not the number: so what a late message, or the event 0 of
the second trade imbalance, does to the number is not in the model. In the code
it is much, since `fast_exp` of a large negative argument is no weight but a huge
number.

### SchemeGen and RollScheme

`schemegen(f)` is the table for turnovers `f`: four rows a group of date and
product, then the empty row. Python's sorted list is the operator `Sorted`, which
says what stands at place `k` by counting, so that ties are as in the code: equal
turnovers all yield the first instrument that has it (`tunelist.index`), and an
index below zero counts from the end (`PyIndex`), so that with three instruments
alias 04 repeats the largest.

`RollScheme` starts from any such table. `pa` runs over the rows as the pointer
does, `pa_end` doubles as "none" in `last_pa`. One action per turn of each of the
two loops, so that the loop invariants are state invariants. Dates are numbers in
the order of their eight digits. `ItemOf` is the look-up of tick and contract
size; that its ids begin one another, so that `jm` and `pp` are answered with the
rows of `j` and `p` and an unlisted product with the empty row, is the assumption
`ProductsFound` of `MCRollScheme`, which TLC evaluates.

### InstrumentFilter

`inst` and `list` are `m_inst` and the block at `m_list`, `ssize` and `lsize` the
two sizes; a step is a whole call, as the interpreter runs one at a time. Some
calls leave memory in a state the code does not define, and there `defined` becomes
FALSE and the model ends: a name of more than seven characters, which is copied
over what lies behind its place (`CopyLong`); `+` with an operand that is no
filter, or whose size was written past its storage (`ConcatBlindly`); the method
`check` of Python, which is bound to a function of another type (`CallCheck`); and
`SetListCrash` below. No property says that these are all. The attribute `size` is
writable (`WriteSize`); the property about what reads back leaves out filters
whose size the program wrote last. The
copy loop of a list assignment is `Copied`, the items before the first that is no
string; replaced storage is `Room`. `want` is history: the names the program
asked for. A sum may be bound to a variable that held a filter, also one of the
operands. Two facts of the code shape the model: the constructor fails for every
argument (its format string ends in "#()$") and without one returns a variable
nobody set, so creation is creation of an empty filter; and a sum shorter than
the inner storage has a negative `m_lsize`, so that a list longer than the sum
that still fits inside makes `malloc` fail and `memset` write through NULL
(`SetListCrash`).

### ChinaL1Source

`load` is split at its packages, because it need not end. A message is the place
of its package in the file, and a package says where it begins and how long it
is, since `Room`, what the block holds, comes from the size of the file.
`LoadOpen` is the free, the size and the block; `ReadPackage` a round of the
loop; `ReadEnd` the round in which `fread` fails with a quote still in the
buffer, which is taken again; `ReadEndAgain` the same with another package in the
buffer: `fseek` clears the end-of-file mark, and the round repeats for ever, so
it is a stuttering step. `LoadMissing` is a load that finds no file: the block is
freed, the pointer stays, and the current message is copied from freed memory, if
that can still be read. What lies behind the block, or in a block given back, is
not the source's: a read there finds anything, the message written there
included, or nothing that can be read (`MessagesAt`, `ReadAt`), and writing or
freeing there may spoil memory, after which `defined` is FALSE and the model
ends. The instrument filter is the set of names it lets through, which
`ReadsBack` of `InstrumentFilter` justifies for names that fit. `inst_filter` can
also be deleted or hold any object, which `check` then reads as a filter
(`DropFilter`, `Verdicts`). The program writes `msg_pos`, `msg_size` and the
fields of the current message (`SetPos`, `SetCount`, `SetField`), text longer
than its place included (`SetLongText`).

### WindowCalls and PythonHelper

A window is its address. `WindowCalls` has what a statement of a program can do to
a proxy: make one of any number (`MakeProxy`), write its `windowid` (`WriteId`),
look up a name (`LookUp`), call (`Call`), and call a method looked up before
(`CallKept`). All methods of a proxy are the same object and leave their name in
one slot, so a kept method goes out under the latest name. `Stray` stands for the
numbers that never were a window's. A call of a number that is no open window
(`Safe`) works on memory that is something else: it may go well, or `defined`
becomes FALSE and the model ends. `OpenWindow` and `CloseWindow` come from the
menu; the table of functions never forgets a window, and an address may return.

`PythonHelper` composes this with the commands: `exec` and `eval` (`Begin`, the
statements, `End`), `interpreter`, which runs a text twice and checks no error,
`callModel`, and the two functions that swap `sys.stdout`. Those, and `load` of a
quote source, give away references they do not own (`Lose`): to `sys`, to the
integer `LMICE_TRACE_ERROR`, to `True` and `False`; `refs` counts what is left of
each, and the model ends with the last. Everything runs in the user interface's
thread, so commands do not overlap and a window opens or closes between two of
them.

### TwoSidedWidget

Angles in steps of 9 degrees. `Click` is `flip`, `Tick` a timer, both through
`Animate`, which moves the angle, changes sides half-way and says whether a timer
is started again. Timers are counted: each click adds a chain. `Clear` is the
menu's removal, after which a pending timer meets no widgets (`TickGone`).

## 3. What the runs show

| Run | Instance | Result |
|---|---|---|
| `xone_emulator` | one account, one silent request type, four addresses, 3 requests, 2 polls | `Inv` (types included), `ExactlyOnce`, refinement `MailboxRefined`; liveness `RequestIsTaken`, `BatchIsServed`, `WorkerExits`, `CallsReturn` |
| `xone_session` | two accounts, 3 logins, waits of 4 polls, 3 polls in `Release` | `LoginIsFresh`, `ResponsesAreWhole`; liveness `SessionEnds`, `WorkerIsGone` |
| `service_logging` | a ring of 3, 4 messages, 3 scans; one process that logs and prints, one that logs, one that prints | `WholeMessages`, `NeverLost`, `InOrder`, `PrintedOnce` |
| `femas2_emulator` | a board of four entries and about a kilobyte, bulks of 0, 127, 128, 129 and 300 bytes and of three sizes near the largest int, which has twelve bits; seven request types, two local ids, 2 callbacks due | `BulksApart`, `BulksMapped`, `BulksStay`, `SessionBelieved` |
| `portfolio` | the contract and one reference, 12 features with every kind, memory zero or not, messages of times 1..3 in any order | `ReadyMeansSeen`, `SignalsBehindForecast`, `EmaForward` |
| `roll_scheme` | every table of up to two groups over two products and three dates, with rising, falling and equal turnovers of 2, 3 or 5 instruments | `RolledToDate`, `MostTraded`; assumption `ProductsFound` |
| `instrument_filter` | two variables, two names, two inner places for 8, lists and sums of up to 4, a written size of 3 | `Backed`, `ReadsBack`, `ShortOnlyBySum` |
| `china_source` | every capture of up to two packages of four kinds, and of three that begins with a quote; `msg_pos` in -2..2, `msg_size` -1 or 4 | `LoadedInOrder`, `CursorBacked`, `DataAtCursor`; liveness `LoadEnds` |
| `python_embedding` | the main helper and one window that comes and goes at one address, 3 proxies, 4 references to `True`, 2 to each other object | `ErrorsReported`, `RedirectRestores`, `LossesMatch` |
| `two_sided` | a quarter of 10 steps, 4 clicks, angles to 40 steps | `Facing`; liveness `TurnEnds` |
| `xone_join_waits` | | violated: `Join` returns 0 with the worker running |
| `portfolio_pre_proc` | | violated: `pre_proc_msg` succeeds though an instrument was never quoted |

The type invariants are not properties of runs of their own: each is proved, or
part of an invariant that is.

What holds and what does not, in words:

* The lock and the status word work: a flagged request is captured once and
  served once, in the order connect, login, logout, whatever the client does.
  The status the worker leaves (`STOP`) never hides a request, because flag and
  status change in one locked section.
* Not what the return values say: a `Join` that gave up is answered 0, and so is
  a refused request (and an `Init` whose fork failed). `stop_worker` compares the
  result of `kill` with `ESRCH`, so no poll ever finds the worker stopped.
* The script of the test is safe because it resets the status before each login.
  Without the reset (the mutant `NoReset`) the second wait sees the first answer.
* The log ring keeps its promises for one logging process, and for any number
  of them as to whole messages while the ring is not overrun. Two processes that
  log at once can drop one another's bit: that is listed as a hazard, no
  document promises otherwise.
* A forecaster trades only on smoothed values that went through quotes with a
  price, whatever its memory held; but whether such a quote arrived it cannot
  tell from junk, and on memory that is not zero it may start trading on it.
  Nor does readiness cover what the trade imbalances with a reference read beside
  the smoothed values: that one's previous quote, which no `prepare` asks for.
* The forecast, and the signals read beside it, are always those of the latest
  quote of the contract: quotes of other instruments touch neither.
* Two clocks feed one smoothed value, but they are not mixed up: its time goes back
  only for a message that is itself earlier than a quote already seen. Such a
  message is not refused, and the weight of the past then exceeds one.
* The generator, its table and both loops of `from_alias` together give alias 01
  the instrument traded most on the latest day not after the date, ties and
  products of two instruments included. A product of one instrument makes the
  generator fail.
* A filter reads back what it was given last; no sequence of lists, short or long,
  refused or not, lets an older name through, as long as names fit and the program
  writes no size. A list that would fit inside asks for a block of less than no
  names only in a sum of fewer names than that, or after a written size. Other
  calls crash it too; see the module.
* A capture that ends with a quote is loaded, with that quote twice if it passes. When every
  quote of the file was kept, the second copy lies behind the block, and `at` and
  `next` go there. All other messages lie in a block that was not given back,
  also after a load that found no file and left a pointer to freed memory:
  `m_fsize` is zero by then, and `at` and `next` look at it first, unless the
  program wrote it.
* The Femas2 SPI may lag behind the front end but never believes in a session that
  is over once it has heard everything.
* An error is always reported by the command that caused it, except `interpreter`'s.
  The original stream comes back however often it is redirected, but each
  redirection and reset brings the end of objects nearer that the interpreter needs,
  two references of `sys` to one of an integer, and of `True` at least as many.
* Clicks on a chart that is turning leave the right side visible, unless one comes
  when the sheet is seen from its edge, its sides just changed: it then turns
  back the way it came, never meets its end, and turns for ever.

### Bounds, and why they are enough

* *Three requests* (`MaxCalls`): one in the batch being served, one flagged, and
  one refused or racing with the capture; there is only one record and one bit
  per type, so a fourth meets no new situation. The theorems have no bound.
* *Polls* 2 or 3 for 10: more than one, so the first and the last differ.
* *Wait loops* of 4 for 100: enough both to succeed and to give up in every
  interleaving; the emulator does not know the count.
* *Four bulk entries and about a kilobyte*: both limits of `create_bulk` are
  reached, each before the other, with sizes at, below and above a multiple of
  128, and near the largest int, which here is 2047: one that rounds up to less
  and two that wrap. *Request types* 0, 1, 2, 3, 5, 8, 13: no bit, one, several,
  overlapping and not. *Two callbacks due*: one that decides the status behind
  another.
* *A ring of 3 and 4 messages*: one overwrite, so a scan starts in the middle.
* *Portfolio*: one feature of every kind, one that watches the contract as if it
  were a reference, and one nobody set up (`init` leaves some of the 32 so);
  `Lanes` 4 for 8, so that the forecast takes three rounds. Three times: a message
  before, between and after two others.
* *Two groups of turnovers*: the same product on two days, or two products on
  one; the date asked for before, on, between and after. Fewer instruments than
  the four aliases, by two and by one, and more.
* *Two inner places and lists of up to 4* for 8 and more: lists that leave inner
  places free, fill them, need a block of one, and one of two, in every order. *One
  written size*, 3, which is covered by a block of one and by no shorter one.
* *Captures of three packages* of four kinds: kept, without a price, filtered
  out, and not a quote; in every position of two, and behind a first quote. Three
  quotes fill the block, so the one taken again lies behind it.
* *Three proxies, one address, two to four references*: a window that closes and
  comes back with a second proxy of the same number; objects that run out, each
  before the others.
* *Four clicks, 40 steps*: clicks at any moment of a turn, of the turn back that
  one starts, and of a turn that never ends, which is followed for 40 steps.

### Deadlock

Checked in the emulator, the session and the roll scheme. `Finished` and
`SessionFinished` are the states in which both processes have really ended. It is
not checked where the system may stop: in `service_logging`, whose bounds
`MaxMsgs` and `MaxReads` end the run; in `femas2_emulator`, whose `main` ends; in
`instrument_filter`, `china_source` and `python_embedding`, where the model ends
with a call that leaves memory undefined; in `two_sided`, whose clicks are used up;
and in `portfolio` and `portfolio_pre_proc`, where calling a handler that was never
set crashes the program.

### Fairness

Weak fairness of each process's own steps (`ApiRun`, `SpiRun`): the scheduler
runs both. `StartWorkerLock` gets strong fairness: the lock's holder releases it
again and again, and a thread that spins on a lock eventually finds it free; weak
fairness would not do, as the worker's loop takes the lock in between. The client
is under no obligation to call anything in `XoneEmulator`; in `XoneSession` its
script runs on, hence weak fairness of `Client`. In `ChinaL1Source` a call that
was made runs on (weak fairness of `Reading`); nothing obliges the program to
make one. In `TwoSidedWidget` Qt's event loop calls a timer that is due (weak
fairness of `Tick`); nobody has to click.

## 4. What is proved

All for every value of the constants under the named assumptions.

| Theorem | States |
|---|---|
| `XoneEmulatorProofs!Invariance`, `TypeCorrect`, `NothingLost`, `QuitIsClean` | the inductive invariant; type correctness; `ExactlyOnce`; `QuitFinishesBatch` |
| `XoneEmulatorProofs!ImplementsMailbox` | every behaviour of the two processes is one of `SpiMailbox` |
| `XoneEmulatorProofs!SessionInvariance`, `LoginAnswered`, `ResponseOfOneRequest` | the script's invariant; `LoginIsFresh`, `ResponsesAreWhole`, for any number of logins, any wait and any poll count |
| `WorkerBoardProofs!NoOverlap`, `NoOverrun`, `NoMove`, `TypeCorrect` | `BulksApart`, `BulksMapped`, `BulksStay`; types |
| `WorkerBoardProofs!EmulatorUsesBoard`, `ObjectsOnTheirBulks` | every behaviour of the Femas2 emulator is one of its board; its three objects lie on bulks of their own (`ObjectsApart`) |
| `WorkerBoardProofs!SessionIsThere` | `SessionBelieved` for callbacks queued to any length |
| `ServiceLoggingProofs!Invariance`, `TypeCorrect`, `NothingTorn` | the invariant; types; `WholeMessages`, for any number of processes and any ring |
| `ServiceLoggingProofs!NothingLost` | `NeverLost`, for any number of printers and any ring |
| `ServiceLoggingProofs!PrintedInOrder`, `NoneTwice` | `InOrder`, `PrintedOnce`, for any ring, overrun or not |
| `PortfolioProofs!Invariance`, `TypeCorrect`, `ReadyOnPrices`, `ForecastOfLatest`, `BackOnlyIfLate` | the invariant; types; `ReadyMeansSeen`, `SignalsBehindForecast`, `EmaForward`, for any features and messages of any times |
| `PortfolioProofs!Cu1MeetsAssumptions`, `Cu1SelfDispatch`, `Cu1OtherDispatch` | the set-up of `cu1_0_forecaster` is one of those, and its handlers name the features they should |
| `RollSchemeProofs!Invariance`, `TypeCorrect`, `AliasRolled`, `AliasMostTraded` | the invariant; types; `RolledToDate`, `MostTraded`, for every table the generator writes |
| `InstrumentFilterProofs!TypeCorrect`, `StorageBacked`, `FilterReadsBack` | types; `Backed`, `ReadsBack` for any inner size, lists of any length and any number of filters |
| `InstrumentFilterProofs!NegativeBlockOfSum` | `ShortOnlyBySum`, for any inner size |
| `ChinaL1SourceProofs!Invariance`, `TypeCorrect`, `MessageOfCursor` | the invariant; types; `DataAtCursor` for captures of any length |
| `ChinaL1SourceProofs!ListInvariance`, `LoadInOrder`, `CountedInBlock` | the invariant with the list and its room; `LoadedInOrder`; `CursorBacked` |
| `IdeWindowProofs!Invariance`, `TypeCorrect`, `NoErrorCarried`, `StreamComesBack`, `CostOfRedirecting` | the invariant; types; `ErrorsReported`, `RedirectRestores`, `LossesMatch` |
| `IdeWindowProofs!FlipInvariance`, `SideFaces` | the invariant of the sheet with its types; `Facing`, for a turn of any number of steps and any number of clicks |

*Emulator.* `ExactlyOnce` is not inductive: a capture whose status is not `START`
would drop bits. `Inv` adds who holds the lock (`LockHeld`), what the program
counters say of the rest (`ApiPlace`, `SpiPlace`: the batch is empty outside
`serve`, nobody flags after a release) and `FlaggedMeansStart`, the reason the
status word never hides a request. The refinement maps `mtype`, `todo` and
`boardStatus` to the mailbox and needs the same invariant: `ProcWorkCapture` is
`Take` only because the status is `START`.

*Session.* Every step of the script is a step of the emulator, so `Inv` carries
over. On top of it `Script` says which call can be under way at each statement,
and `Counted` ties logins accepted and answered to the round: while the script
waits, all but the latest login have been answered. `StatusFresh` is the heart of
`LoginIsFresh`: the script resets the status before it sends a login, and from
then on only the answer to that login can set it. `AnswerFresh` follows the record
that was answered. `Copied` says that the fields of a response copied so far are
those of the record, which holds since the script writes no record while its
request is in flight.

*Board and Femas2.* `Inv` of `WorkerBoardProofs` says that each bulk is as long as
was asked for and ends before `m_bulk_pos`, that bulks lie in the order of their
fds, and that `m_bulk_pos` stays within the board. The padding arithmetic is a
lemma; a size that wraps gives less than zero, and is refused. The emulator's
steps are board steps or leave the board alone, so all of it holds there too.
`SessionBelieved` speaks only of an empty queue; what is inductive is `LastWord`:
the latest callback in the queue that decides the status is the front end's last
word on the session, and if none is due the status already says so; between
the two writes of a login the callback is still the head of the queue.

*Log ring.* `Numbered` says that two writers never hold the same number, because
the counter is drawn from atomically; `Written`, that a text goes into a slot that
was empty, behind its own header, and that a bit stands only for a slot that is
whole. Numbers below the ring's size are their own slots, which is where "not
overrun" comes in.

`NeverLost` alone is not inductive, since the author stores a mask it has read a
while ago: `NoneLost` says of that copy what the property says of the mask. A bit
that was cleared meanwhile comes back, which prints a message twice and loses
none; a bit was cleared by a scan that has passed its slot, and what a scan has
passed is printed (`PassedPrinted`). For a process that is alone, `Latest` and
`Oldest` say that copies of the mask are up to date; `Recorded`, that a message in
the ring has its bit until it is printed; `Sorted`, that what the current scan
printed is in order and behind its cursor, which makes the first slot of a scan
that of the oldest message, ring overrun or not.

*Portfolio.* `Behind` is the strengthening of `EmaForward`: no smoothed value is
ahead of the latest time any quote has had; while the model prepares, each is as
`prepare` gave it last and would give it again, or was never reached; and in
trade the one that goes by the contract's time has that of its quote. So a
message that is not late finds nothing ahead of it. It needs `Clocked`, that no
quote is later than the latest, and that a feature that was ready stays ready
(`StillReady`). `Quoted` is what `pre_proc_msg` has established when it succeeds:
two quotes of the contract and one of each reference, which rests on
`TibAssumption`, since only a trade imbalance asks for the contract's second. One
lemma (`Rounds`) shows that the lanes of `calc_forecast` cover every feature
exactly.

*Roll scheme.* `FindLoop` and `ScanLoop` are the loop invariants: no row before
`pa` is the key's; every row passed is not later and `last_pa` is the last of
them with the alias. The order of the table turns "last row" into "latest date";
that order is proved of the generator (`GeneratedInOrder`), not assumed.
`MostTraded` needs that the place Python reads holds the largest turnover: the
least number with enough turnovers at or below it exists by the well-foundedness
of the naturals, and counting shows that nothing lies above it (`SortedLast`).

*Instrument filter.* `Backed` is proved as `Stocked`, without its premise: where
the model ends the storage stands as it was. Alone it is not inductive: that a
sum needs `m_lsize` of at least minus the inner size, and that the sizes agree
with the block, comes from the types. `ReadsBack` rests on it: a name is where
`Stored` looks for it only if the block is long enough (`Kept`). `ListShape` says
what the set of lists is; `SetListKept` and `ConcatKept` show the names an
assignment or a sum leaves, the other calls only shorten or keep. An object whose
fields did not change keeps its contents by one lemma, `SameFields`.

`ShortOnlyBySum` needs the reason why a sum asks for a negative block only as long
as it is short: `ShortBlocks` says that a negative `m_lsize` belongs to a sum that
still leaves an inner place free, or whose size was written. Of one inner place a
string fills it, but then no list is short enough.

*Quote source.* `DataAtCursor` and `CursorBacked` rest on `SizeCounts`: unless the
program wrote it, the size counts the messages of a block that is there, and is
zero when the block was freed; only a load that goes on appends to it. The rest
needs the file: `OnceEach` says that while load reads, the list is that of the
packages read that pass, and `RoomLeft` that the messages taken are no more than the
bytes before the next package, or before the end, divided by those of a quote. So
a message has room whenever a package is read; only the quote taken again at the
end may have none (`OneBehind`). With the offsets of packages in the model this
needs no sum over them.

*Python.* `LossesMatch` is inductive with `RedirectRestores` and the types: a
redirection that saves the stream and the reset that gives it back are told apart
by `saved`. Nothing of the invariant restricts the numbers in proxies.

*Two-sided sheet.* `Facing` bounds the angle by the clicks. Inductive is the bound
by the timers too (`Overshoot`): beyond its side the sheet is moved only by timers
that are due, each click starts one at most (`FromClicks`), and no new one is asked
for there. `ThroughEdge` says that a sheet seen from its edge goes on the way it
came. All of this is as long as no click has hit the edge, which the property
excepts as well.

Assumptions: `XoneAssumption` (silent types differ from the answered ones),
`BoardAssumption` (the mapping holds the header and is smaller than the largest
int by two paddings; sizes are ints and, as every caller asks for a `sizeof`, not
negative), `FemasAssumption` (types are ordinals of 0 to 16), `LoggingAssumption`
(a ring of at least one slot), `PortfolioAssumption` and `TibAssumption` (kinds
that exist; a whole number of lanes; a trade imbalance of the contract, all of
which `Cu1MeetsAssumptions` shows of the code's own set-up), `FeaturesAssumption`
(one entry per date and product, in the order of dates, each with two instruments
at least), `FilterAssumption` (the two marks are no names; there is an inner
place), `SourceAssumption` (a capture is a sequence of packages that lie one
behind another, after a header that is shorter than a quote), `WindowAssumption`
and `RefsAssumption` (neither the null window nor `Stray` is an address; each
object has a reference), `TurnAssumption` (a turn has a step).

Only model-checked: the liveness properties `RequestIsTaken`, `BatchIsServed`,
`WorkerExits`, `CallsReturn`, `SessionEnds`, `WorkerIsGone`, `LoadEnds` and
`TurnEnds`, since the prover handles neither fairness nor `ENABLED`. Every other
property of a passing run is a theorem.

## 5. Not modelled

* **Resource daemon** (`resource.c`, `lmiced.c`). It creates its mapped files once,
  in sequence, and removes them; most of `lmiced.c` is commented out. No second
  actor takes part and no step can meet another in an order of its own, so a model
  would repeat the text. `server.c` is not compiled.
* **Resource list** (`res_list.h`). Nothing in the repository appends to one but a
  test program.
* **Other service sources**: socket set-up, an older board, stubs.
* **Highlighter, tree of log messages, loader and widgets of the IDE**: regular
  expressions, a tree that only grows, layout.
* **Vendored API headers** (`X1Ftdc*.h`, `USTPFtdc*.h`): declarations of a third
  party. The emulators' and the SPIs' methods that override them with a log line
  or a plain `return 0`, market-maker requests among them, have no action.
* **Rows of `scheme.h`**: generated; the model has the generator instead.
  `schemebinarygen`, whose file nothing reads, and the reading of spreadsheets are
  left out.
* **Portfolio**: arithmetic of signals, weights and smoothing, and of the
  translation between two instruments' prices; the variants for another
  exchange's messages; getters.
* **X-One**: the callbacks the emulator never makes. **Femas2**: the request
  records, which no code reads, and the trading day.
* **Instrument filter, quote source**: what follows a call that leaves memory
  undefined; the conversion of a quote's fields; truncated captures.
* **Python embedding**: a second call of a proxy's `__init__`, and proxies made
  without it; the object in `m_retobj`, which nothing reads; what follows a step
  that leaves memory undefined; conversion of arguments, wording of errors, what the
  redirected stream prints.
* **Two-sided chart**: moving, resizing, drawing.
* Tests other than the two emulators' and `testfuture2.cpp`.

About a quarter of the repository's lines are mapped. Most of the rest are the
generated table, the vendored headers, the tests, the comments of interface
headers, type tables of Python objects and Qt code: text without steps.

## 6. Plan, and what became of it

| Planned | Outcome |
|---|---|
| Emulator with its abstract mailbox; session; board; log ring; portfolio; roll scheme; instrument filter; quote source | done, checked |
| `Femas2Emulator` on the board, with the front end's callbacks | done, checked and proved |
| Window proxy, output redirection, errors of commands | done, checked and proved |
| Two-sided chart | done, checked and proved |
| The generator behind the roll scheme, instead of an assumption about its table | done, checked and proved |
| Portfolio: `EmaForward`, `SignalsBehindForecast`, `ReadyMeansSeen` as theorems, for the real set-up | done; `EmaForward` for messages of any times, so that it speaks of those that are not late |
| Log ring: `WholeMessages`, `NeverLost`, `InOrder`, `PrintedOnce` as theorems | done; `NeverLost` by an invariant about the copy of the mask an author is about to store |
| Session: `LoginIsFresh`, `ResponsesAreWhole` as theorems over `Inv` | done |
| Quote source: `CursorBacked`, `LoadedInOrder` as theorems; room for every quote from the sizes of the packages | done, with what the program writes into attributes; packages carry their offset, since a sum over them would need an induction the prover cannot instantiate |
| Instrument filter: when a list asks for a negative block (`ShortOnlyBySum`), as a theorem | done |
| What can crash the filter, the source and the IDE, as complete lists of causes | dropped: almost any attribute written wrongly does, so such a list says little; the models end there instead |
| `Resource`, `ResList` | dropped, for the reasons in 5 |
