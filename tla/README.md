# Timberman: a TLA+ model of the logger and the function tracer

Timberman is a small C++ library. A program sprinkles `FUNCTIONTRACE("name")`
over its functions and `LOGGER_LOGLINE ((mask, format, ...))` over its code; the
library writes one log file, indented by call depth, from every thread of the
program. All of its state is static and shared by all threads, and its README
promises that it is thread-safe (README.md:2, 6, 8). That promise, and what it
needs to hold, is what this project is about.

## Inventory

| Component | State it keeps | Operations | What makes it correct |
|---|---|---|---|
| **FunctionTrace** (`FunctionTrace/FunctionTrace.{h,cpp}`) | static `_IndentationList [MAX_TRACE_THREADS]` (thread id, counter, time of last access), static `_indentation_base_time`; one object per traced stack frame | constructor, destructor, `GetIndentationString ()` (in the arguments of `TRACK_FUNCTION_CALL_*`), `GetThreadListIndex`, `PerformCleanup` | a slot belongs to one thread, a thread to one slot; the table is indexed in bounds; a line is indented by its thread's call depth; a cleanup collects the idle slots and only those |
| **gapString** (in `GetIndentationString (int)`) | static buffer of spaces, `firstTime` | build it once, return a suffix | the offset stays inside the buffer; nobody reads it before it is built |
| **Logger** (`Logger/Logger.{h,cpp}`) | static `_logfile`, `_utf8Path`, mask lists, `_tracingEnabled`, `_mutex`, `outputBuffer` and its size | `SetOutputFile`, `Cleanup`, `SetTracingEnabled`, `AddTraceMask`, `LogLine`, `LogLineNoArgs`, `LogLineWArgs`, `HexDumpTrace` | a line is written whole, to the open file, with the caller's text; it is out of the program's hands when the call is over; the mutex is always freed |
| **Logger macros** (`Logger.h`) | the local that `LOGGER_LOGLINE` saves `errno` in | `LOGGER_LOGLINE`, `LOGGER_ASSERT`, `HEXDUMPTRACE`: check `IsTracingEnabled`, then call | a call made under an outdated check does no harm |
| **HexDump** (`Logger.cpp`) | none | format bytes | every byte is shown once, in rows of 16 |
| **Thread ids and timestamps** (`Utilities/`) | none of its own; `localtime`'s static `struct tm` | `OurGetThreadId`, `OurGetCurrentThreadId`, `ReturnTimestamp` | ids are distinct and not 0 (long ones need not be, see below); a timestamp is that of the line it stands in |
| **Path splitting** (`Utilities/`) | none | `OurSplitPath` | directory and name denote the file, whatever `dirname` does to its argument |
| **UTF-8/wide conversions** (`Utilities/`) | none | `WcharToUtf8`, `Utf8ToWchar`, `AnyStringTo...` | what is converted is the same text; well-formed text is converted to its end |
| **Large-file seek and tell** (`Utilities/`) | none | `OurFseek64`, `OurFtell64` | pure I/O |
| **utf8/** | none | vendored UTF8-CPP: decode, encode, validate | third-party; the part the conversions use is modelled |
| **Unit tests** | none | single-threaded tests | read for what is intended |

Interactions. `FunctionTrace` calls `Logger::LogLine` through `LOGGER_LOGLINE`
between finding its slot and updating it, so a traced call may wait for the
logger's mutex while it holds an index into the table. `LOGGER_LOGLINE` reads
`_tracingEnabled` without the mutex. Both ask `Utilities` for the thread id, and
`Utilities`' own functions log and are traced (except those the tracer itself
calls, Utilities.cpp:68-77). There are no callbacks, no messages and no timers;
the only clock is `time (NULL)`.

What is hard. Every operation may run in every thread at the same time. The
tracer's table has no lock unless `IOS_FREEZES` is defined, and then only around
the lookup. The logger's lines are built from several writes under a mutex that
one public entry, `LogLineWArgs`, does not take. The cleanup works with times
relative to a base that it moves itself. `vsnprintf` is retried. Files can fail
to open and are closed and reopened while other threads log. The hazards are
listed one by one, each at its line, in `PROJECT.json`.

`SharedLock` and `WriteLock`, which an `IOS_FREEZES` build uses
(FunctionTrace.cpp:20 and 81), are not defined in the repository. What is said
here of such a build takes `WriteLock` for an exclusive lock that is held until
the end of its scope.

## Modules

| Module | What it is |
|---|---|
| `FunctionTrace` | the table, the lookup, the cleanup and the three callers; `Locked` is `IOS_FREEZES` |
| `CallTrace` | abstract: every line is indented by its thread's own call depth |
| `FunctionTraceHistory` | `FunctionTrace` with two history variables, for what the cleanup's comment says |
| `Logger` | file, buffer, masks, mutex and every call that logs or configures |
| `AtomicLog` | abstract: one call at a time is accepted, and its line appears whole in the open file |
| `Timberman` | `FunctionTrace` and `Logger` composed as a program uses them, with the macros of `Logger.h` and timestamps |
| `Utf8` | operators: what the conversions use of the vendored library |
| `Conversions` | the loops of `Utf8ToWchar` and `WcharToUtf8` over `Utf8`, and the Unicode standard's table as reference |
| `HexDump`, `ThreadId`, `GapString`, `SplitPath` | one routine each |
| `Routines` | the five routines as independent machines of one specification |
| `MCFunctionTrace`, `MCFunctionTraceHistory`, `MCRoutines` | instances for TLC (symmetry sets, inputs) |
| `FunctionTraceProof` | type, bounds and unique slots of `FunctionTrace` |
| `FunctionTraceOwnProof` | a thread's slot is its own, with the lock and enough room |
| `CallTraceProof` | `FunctionTrace` implements `CallTrace` |
| `LoggerProof` | type of `Logger`; mutual exclusion, the open stream, flushing and whole lines |
| `LoggerAtomicProof` | `Logger` implements `AtomicLog` |
| `RoutinesProof` | the race on `gapString`, the rows of a hex dump, thread ids, paths |
| `ConversionsProof` | the conversions, from the single code point to the loops |
| `TimbermanProof` | the composition implements `FunctionTrace`; the log tells the calls, stamps are in order |

### FunctionTrace

`threadId`, `indentation`, `lastAccessDelta` are the fields of the slots,
`baseTime` the static base time, `now` the clock. `live[t]` counts the
`FunctionTrace` objects on `t`'s stack. The other variables are locals of a call
in progress: `pc[t]` says where it is, `caller[t]` who asked (`"ctor"`,
`"dtor"`, or `"note"` for the argument of a `TRACK_FUNCTION_CALL` line),
`threadListIndex[t]` what the lookup returned.

A step is one statement, or one round of a loop over the table: `ScanSlot` and
`FindSlot` are `GetThreadListIndex`'s loop, `StartCleanup`, `CleanupSlot` and
`GiveUp` are `PerformCleanup` and what follows it, `ClaimId` and `ClaimIndent`
the two assignments at lines 108-109, which other threads may come between.
`Decrement`, `Format`, `LogLine`, `Increment`, `UpdateLastAccessDelta` are the
callers' statements; the constructor prints and then increments, the destructor
decrements and then prints. `NoSlot` is a call that got -1: nothing is printed
(`"note"` prints without indentation). `isAvailable`, `Collect` (`Init`) and
`++_indentation` touch several words or read and write one; they are one step
each, which is finer than any lock in the code but coarser than the machine.

### Logger

`logfile` is the path behind `_logfile`; `files[p]` is the sequence of pieces
written to `p` and `flushed[p]` how many of them have left the stream's buffer.
A piece carries its kind, the call it belongs to, and for a text whose text it
is (`of`) and whether it is complete (`whole`). `call[t]` is the call `t` is in:
an identity instead of a text, its mask, and the length `vsnprintf` would need
(or `Failed`).

`Log` and `ChangeFile` start a call. `Log`'s guard is the macro's unlocked check.
`HexDumpTrace` asks for the mask first. `AcquireMutex` is the `lock_guard`; its
destructor is part of `Return`, the last step of every call. `StartLogLine`,
`AllocateBuffer`, `OutputTimestamp`, `Vsnprintf` (with `Rendered`, `TooLong`,
`Retry`, `Fail`), `WriteMask`, `WriteText`, `EndLine` are the statements of
`DoLogLine` in order; `CloseFile` and `OpenFile` those of `SetOutputFile`
(`CloseFile` ends `Cleanup`). `SetTracingEnabled`, `AddTraceMask` and
`AddIgnoreMask` take no lock and happen at any moment. A `va_list` that was
already used makes the result of `vsnprintf` any length or an error, and the
text any text: undefined behaviour is a choice. `fopen` succeeds or fails.
With `WArgs` the program also calls `LogLineWArgs`.

`AtomicLog` keeps of each file a function from places to lines. A line's place
is the position of its text among the file's pieces, and a new line stands below
all others; what lies between two lines is the business of `WholeLines`.

### Timberman

`F` and `L` are instances of `FunctionTrace` and `Logger`, which keep their
variables; every step of the composition is a step of one of them, except that
`FunctionTrace`'s `LogLine`, there one step, is here the macro `LOGGER_LOGLINE`:
`Macro` tests `_tracingEnabled` and calls the logger; `EndMacro` lets the tracer
go on. In between the thread is at `pc = "log"`, with `threadListIndex` in hand,
and may wait for the mutex. `ReturnTimestamp` reads the clock under the mutex,
before the timestamp is written. `Message` is a `LOGGER_LOGLINE` of the
program's own, or a `LOGGER_ASSERT` that does not hold, which calls the same
function after the same check; `HexDump` is a `HEXDUMPTRACE`. `macro[t]` is the
call whose macro `t` is in. `said` is a history variable: who asked for which line, with
which indentation, and when it was stamped. The program is one that has set up
the logger before its threads start (README.md:12 of the repository): a file is
open, tracing and all masks are on, and none of it changes. `RoomAssumption` says
that the library is built with `IOS_FREEZES` and that the table has room for every
thread; then every lookup returns a slot (`FunctionTraceOwnProof`), and `NoSlot` and
the cleanup are left out. `LengthAssumption` says that the messages fit the buffer
as it is first allocated, 16K in the code: longer ones are garbled, which is what
`logger_long_message` shows.

### Routines

Each of the five modules has its own variables and its own machine, and
`Routines` puts them side by side so that one run covers them; a behaviour runs
one of them.

* `Conversions`: one call, one code point a step (`Decode`, `Encode32`,
  `EncodePair`, `EncodeUnit`, `LoneSurrogate`). `it` is the iterator, `dest` the
  destination, which at the start holds what the caller left in it. `Throw` is
  any exception of the library: `utf8::exception` is caught by value
  (Utilities.cpp:225 and 276), which slices it, so the kind reaches neither the
  caller nor the log. `wideSize` is `sizeof (wchar_t)`, tested at run time in the
  code. `Utf8` has `validate_next`, `get_sequence_x` and `append` with their
  checks in order; shifts and masks are quotients and remainders.
* `HexDump`: one row a step, any width.
* `ThreadId`: `operator<<` in decimal, `strtoul` in base 16, and two narrowings.
  The ids of the tracer are model values. `TellsThreadsApart` says that this is
  right for native ids of no more decimal digits than an `int` has hexadecimal
  ones (8). For longer ids, such as the 15 digits of a thread of glibc, it need
  not be: two threads whose ids end in the same 8 digits share a slot and a
  counter, and one whose id ends in eight zeros takes every vacant slot for its
  own. That contradicts the thread safety that README.md:2 and 6 of the
  repository claim; no run asks for it, but the theorem `ThreadIdsCorrect` says
  exactly which ids collide.
* `GapString`: the test of `firstTime`, its clearing, `memset` byte by byte, the
  terminator, the pointer, and the caller's `sprintf` byte by byte, all of them
  interleaved between two threads.
* `SplitPath`: `dirname` and `basename` as POSIX describes them, with every
  permitted effect on the string they are given; the two copies are the code's.
  The reference reads a path from left to right and collects its names.

## Runs

Deadlock is checked in all runs but two, because a thread can always start
another call, or the configuration can change. In `routines` every call returns
and in `timberman` the program ends when it has logged all its lines; there
`Returns` and `LocksFreed` say that nothing is stuck before.

| Run | Instance | Shows |
|---|---|---|
| `ft_unlocked` | 3 threads, 3 slots, no lock, depth 1, 2 clock values, limit 0 | `TypeOK`, `IndexInBounds`, `UniqueSlot`, in 4.3 million states |
| `ft_locked` | 3 threads, 4 slots, lock, depth 2, 2 clock values | `OwnSlot`, `OwnerKept`, `PrintsCallDepth` (it implements `CallTrace`), in 450 thousand states |
| `ft_slot_race` | 2 threads, no lock | *violated*: `OwnSlot`, two threads in one slot |
| `ft_gives_up` | 2 threads, 2 slots, lock | *violated*: `FailsOnlyWhenFull`, a cleanup frees a slot and the lookup fails |
| `ft_collects_active` | 2 threads, 2 slots, lock, limit 1 | *violated*: `OnlyIdleCollected`, a thread in the middle of tracing is collected |
| `ft_keeps_idle` | 3 threads, 3 slots, lock, limit 0 | *violated*: `AllIdleCollected`, the base time has moved |
| `logger` | 2 threads, 2 files, 2 lines, 2 changes of file, fair | `TypeOK`, `WholeLines`, `OnDiskWhenFree`, `OpenWhileWriting`, `LogsAtomically` (it implements `AtomicLog`), `MutexFreed`, in 1.1 million states |
| `logger_long_message` | 1 thread | *violated*: `TextIntact`, a long message is rendered from a used `va_list` |
| `logger_wargs` | 2 threads, `LogLineWArgs` in use | *violated*: `LinesNotMixed` |
| `timberman` | 2 threads, lock, 3 slots, depth 2, 3 lines, fair | `LogTellsCalls`, `StampsInOrder`, `LocksFreed`, in 160 thousand states |
| `routines` | the inputs below | `SameText`, `AcceptsExactly`, `CutAtCharacter`, `ShowsEveryByte`, `TellsThreadsApart`, `BuiltAfterRace`, `SplitsPath`, `Returns` |
| `gap_string` | 2 threads, 3 bytes | *violated*: `PrintsIndentation`, a thread prints from the array while another fills it |

The violated properties are statements of the repository's README and comments;
`PROJECT.json` quotes them under `findings`.

**Bounds.** `MaxSlots` is 4096 in the code; the table is treated uniformly except
for its last slot, so three slots (a taken one, a vacant one, the last one) give
every situation of a lookup, and with three threads the table overflows, cleans
up and gives up. `ft_locked` has room for all three threads, because only then does
the code keep its promise; `ft_gives_up` and `ft_collects_active` show what
happens otherwise. `CleanupDelta` (900 s) is 0 or 1 and `MaxTime` 0 to 2: a slot
is stale, fresh, or stale relative to a base that has moved. `MaxDepth` 1 or 2:
a nested call is there where depth matters. In the logger the sizes 16K, 4K and
200K are 2, 1 and 4: a message of length 1 fits, one of length 3 does not, and an
error is retried twice before it is reported. `MaxCalls` and `MaxChanges` bound
the lines and the changes of file; two lines are enough for one to tear another,
and two changes for a file to be closed and reopened, truncated or appended to,
by either thread. One mask besides `""` and `all` is enough to be listed, ignored,
both or neither.

In `timberman` three lines are a call of one thread with a line of another
or a dump between its two, or a nested call; the table has room for both threads, with the
lock, because `ft_slot_race` and `ft_gives_up` show that nothing can be said
otherwise. `Room` starts a call only if its line is within `MaxCalls`. One clock
tick suffices for two lines to be stamped out of order; the clock is assumed never to be set back.

The inputs of `routines` (`MCRoutines`): octets and code units on both sides of
every boundary of the encodings, alone and in sequences of up to five, so that
each check of `validate_next` decides some of them; rows of 2 bytes and buffers of
0 to 5, so that the last row is empty, full and partly full; a `long` of 4 and an
`int` of 2 hexadecimal digits, with ids of up to 5 decimal ones on both sides of
each power of ten; a `gapString` of 3 bytes with depths from -1 to 3; all paths of
up to 4 characters over two letters, the dot and the slash.

**Fairness.** Weak fairness of the steps a thread takes once it is running
(`Proceed` in `Logger` and `Timberman`): the operating system keeps scheduling
every thread that is not waiting. None is assumed of starting a call, of getting
a lock, of the clock or of configuration, and `MutexFreed` and `LocksFreed` need
none. A thread may wait for ever for a `std::mutex` that others keep taking, so
nothing is promised to a single call: `FunctionTrace`, whose `LogLine` is one
step that stands for such a wait, has no fairness, and `CallTrace` does not say
that a line is printed in the end. A routine runs until it returns
(`WF_vars(Next)` in `Routines`, for `Returns`).

Each property of a passing run has a mutant of the code that breaks it, kept
beside the definition it mutates (`NoRoom_AnyVacant`, `EndLine_NoFlush`, ...).

## Proofs

For all values of the constants, checked by TLAPS:

* `FunctionTraceProof`: `TypeOK`, `IndexInBounds` and `UniqueSlot`. None is
  inductive. `IInv` adds that the last slot is vacant for ever with all its
  fields 0 (`LastSlotVacant`), so that a finished scan has always found a vacant
  slot and the missing test for -1 is harmless; that while a thread scans or
  cleans up, no slot it has visited holds its id (`ScanMissed`), because nobody
  else writes that id; that every loop starts at slot 0 (`LoopStartsAtZero`); and
  that a caller past the test for -1 has a slot (`HoldsSlot`). This holds with
  and without the lock, and for any cleanup. The assumptions are that
  no thread's id is 0 and that there is at least one slot.
* `LoggerProof`: `TypeOK`, for every program. An allocated buffer never has less
  than its initial size, and no more is flushed than was written. Then `OpenWhileWriting`, `OnDiskWhenFree` and `WholeLines`, for
  every program that does not use `LogLineWArgs` (`~ WArgs`; `logger_wargs` shows
  that the assumption is needed). `IInv` says that the mutex belongs to the
  thread that is inside (`Exclusive`), that the open file alone may be
  unflushed, and only in the middle of a line (`Unflushed`), and that each file is
  well-formed, its last line being finished or being the current thread's, as
  far as it has come (`LineByLine`). Each conjunct needs `Exclusive`, which only
  the mutex gives: a thread alone inside is the only one that writes, closes or
  opens.

* `LoggerAtomicProof`: `LogsAtomically`, for every program that does not use
  `LogLineWArgs`: each step of `Logger` is a step of `AtomicLog` or leaves its
  variables alone. `IInv` does not suffice, because it says nothing about
  contents. `RInv` adds what each call has got right by the time it writes
  (`Ready`): its number is its own; a stream is open after the check and none when
  `SetOutputFile` opens one; a message that fits the buffer is rendered from a
  `va_list` that is still unused; and `outputBuffer` holds the text of the call
  that is about to write it. `LinePiece` and `OtherPiece` say which of the writes
  add a line to a file.
* `FunctionTraceOwnProof`: `OwnSlot` and `OwnerKept`, for every number of threads,
  in a build with `IOS_FREEZES` and a table with more slots than threads. The
  heart is a count (`RoomForAll`): a slot that is taken belongs to a thread and
  no thread has two, so of the slots before the last at least one is free or the
  caller's own. Then a lookup never runs into the last slot, no cleanup ever
  starts, and no slot is ever taken away. `OInv` says so step by step.
* `CallTraceProof`: under the same assumptions a slot's counter is the call depth
  of its thread, plus or minus the call in progress (`DInv`), and every step of
  the tracer is a step of `CallTrace` or a stutter, so every line is indented by
  the depth of its own thread's calls.
* `TimbermanProof`: `TracerImplemented`, that the composition implements
  `FunctionTrace`: `LOGGER_LOGLINE` in several steps, with the logger and other
  threads in between, is the tracer's one step when the line has been written. With
  it the tracer's theorems hold here: the slots are the threads' own and `DInv`
  counts depths. `LogTellsCalls` joins them with the file. `TellInv` says that
  every text in the file is the whole message of the call it belongs to
  (`WholeTexts`, which rests on `Renders`: a message that fits is rendered at
  once); that a line which is being logged is what its thread asked for, with its
  depth as the indentation (`Asked`); and that each thread's lines nest and lead
  to a depth (`Shows`) which is `live[t]`, except between the newline and the end
  of the macro, when the file has the line and the tracer has not yet counted it
  (`Owed`). That exception is why `LogTellsCalls` itself is not inductive.
  `StampsInOrder` follows from `StampInv`: the mutex belongs to the thread
  inside, a call's number is its own and is stamped only once it is inside,
  no stamp in the file is later than now, and a stamp which has been
  taken but not written is at least as late as all of them: it stays the latest
  because nobody else writes in between.
* `RoutinesProof`: `BuiltAfterRace`, for any number of threads and any size: what a
  `memset` has passed stays a space except for the last byte, and the last one out
  of the block ends with the terminator. `ShowsEveryByte`, for any buffer and
  any width: before each row there are bytes left, or none was printed yet, and
  `RowsReached` and `RowsDone` give the number of rows. `TellsThreadsApart`, and
  which of the longer ids collide (`ThreadIdsCorrect`), for an `int` and a `long`
  of any width: digit by digit, decimal digits read as
  hexadecimal ones can be told from the result (`DigitsKept`, `Powers`), and the
  narrowing to `int` keeps the last of them (`Reads`). And `SplitsPath`, for any
  path: `SplitInv` says that what has been returned is what `dirname` and
  `basename` make of the path itself, whatever is left of the copy; `Anatomy` takes
  a path apart as the two do, and `NamesOfParts` says that the names of the whole
  are those of the first part and the last name. That the copy is the path when
  `basename` is called is due to the code's second copy, and without it
  (`CopyAgain_Once`) the invariant fails.
* `ConversionsProof`: `SameText`, `AcceptsExactly` and `CutAtCharacter`, for any
  strings and every size of `wchar_t`. First the single character. Every valid
  code point, out of 1.1 million, is decoded from what `append` makes of it
  (`DecodesWhatItEncodes`) and survives the split into surrogates
  (`PairsWhatItSplits`); conversely `validate_next` accepts at a position exactly
  the rows of the Unicode standard's table 3-7 (`Validates`), and says of a
  beginning of one at the end of the text that there is not enough room
  (`LibraryTellsCut`), an answer that the conversions drop. Then the loops. `ConversionInv` says that the source is read from
  inside, that what was consumed and what was written are the same text
  (`SameSoFar`), that the consumed code units were valid (`ValidTo`), and that a
  call that gave up did so at something that is no character (`Refused`): this
  last part is what `AcceptsExactly` and `CutAtCharacter` need, which speak of the
  returned call alone and are not inductive. `Grows` and `UnitsGrow` say what one
  more character does to the reference functions.

The assumptions of the last two are in `Routines`: octets are bytes, a `wchar_t`
has 1, 2 or 4 of them, rows, arrays and words are not empty, no thread's id
is 0, and no name holds a slash.

Several of these properties rest on recursive functions over a text: `power`, the
digits of a number, `WellFormedTo`, `Values`, `Units`, `NamesIn`, `DepthAfter`. No induction
theorem can be instantiated by the installed provers, so each such function is
first characterised by a law about its elements (`IsPower`, `IsDepth`, ...), the
law is shown to have a solution and only one, and what holds for every element is
shown for the least one that would violate it (`Least`, from the well-foundedness
of the natural numbers).

Every invariant and every action property of the passing runs is a theorem. Only
model-checked is liveness, which is out of the prover's reach: `MutexFreed`,
`LocksFreed` and `Returns`.

## Not modelled

* Texts: names, formats, the fields of a timestamp. A text is an identity; a `%`
  in a function name, which is used as a format, is not there, and neither are
  the 1024, 2048 and 16K arrays that are filled without a length.
* `errno`. `LOGGER_LOGLINE` saves and restores it, but the tracer's constructor
  calls `strtoul` (which may saturate, and then sets it) and `sprintf` outside the
  macro, its destructor `sprintf`, and `LOGGER_ASSERT` and `HEXDUMPTRACE` do not save
  it: whether a traced function's caller sees the `errno` it left is up to the C
  library.
* A crash of the operating system: `OnDiskWhenFree` is about `fflush`, which hands
  a line to the system.
* The overloads of `AnyStringToWchar` and `AnyStringToUtf8` that copy a string of
  the same kind, and a null source of the others, whose length they would take.
* Torn reads and writes of single words; the undefined outcome of iterating over
  a mask list that another thread extends, or of copying `_utf8Path` while
  another assigns it; `localtime`'s static `struct tm`, which a program may use
  outside the mutex.
* The order in which static objects of different files are constructed: the
  models start when `main` does.
* `OurSplitPath` on Windows, which calls `_splitpath`; `GetOutputFile` and
  `GetTraceMaskString`, which only read; seek and tell, which are pure I/O; and of
  `utf8/` the iterators, `replace_invalid`, `find_invalid`, `prior`, `advance`,
  `distance` and `unchecked.h`, which have no caller in the library.

## Plan

1. Done: `FunctionTrace`, `Logger`, their promises and proofs.
2. Done: the macros, the race on `gapString`, the byte-level routines
   against a reference, the tracer and the logger together.
3. Done: proofs that a slot is its thread's own, of the step simulations of
   `CallTrace` and `AtomicLog`, of the tracer inside the composition, and of every
   safety invariant of the composition and of the routines.
4. Left: a mask list as a vector that is searched and extended at the same time.
