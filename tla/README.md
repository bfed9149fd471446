# A TLA+ model of the VNPT network programs

This directory holds TLA+ specifications of the C programs in `src/`, the TLC
configurations that model-check them and proofs of their main invariants that
TLAPS checks. `PROJECT.json` is the index: which definition stands for which
lines, what each run checks, which mutation of the code each property catches.

## 1. Inventory

`src/` holds about 2150 lines of C of its own; everything else
(`src/uselibuci/output`, `src/uselibuci/dynamic_lib`) is vendored: a cross
toolchain, the headers of libuci, libubox and others, manual pages.

| component | source | state it keeps | operations |
|---|---|---|---|
| timer library | `timer_lb/timer.c`, `timer.h` | a `TimerManager`: list of `TimerEntry`, mutex, `size` | `timer_manager_create`, `timer_add`, `timer_remove`, `timer_update`, `timer_get_size`, `timer_free` |
| LAN agent, configuration | `uselibuci/src/main_app.c`, `uci_handler.c` 1-379 | UCI packages `network` and `dhcp` (context, delta file, file on flash), the two services, `lan.txt` | `show_lan_config`, `set_lan_ip_config`, `set_dhcp_lan_config`, `apply_network_changes`, `check_lan_ip_config_validity` |
| LAN agent, lease polling | `uci_handler.c` 381-550 | the lease file of dnsmasq, the time since the start | `check_dhcp_leases_with_validation` |
| agent logger | `uselibuci/src/log.c` | level, path, file handle, mutex | `init_logger`, `set_log_file`, `log_message`, `cleanup_logger` |
| interface list | `link_list/src/iface_list.c`, `parser.c`, `main.c` | a list of interfaces, the output file of `ifconfig`, the saved list | run the command, load, parse, add, search, delete, save |
| circular log | `link_list/src/log.c` | one file with its write position in its first line | `LOG_set_level`, `LOG_printf_info` |
| generic list | `link_list_lb/link_list.c` | a list that ends in a sentinel node | create, add in order, push, pop, free |

**How they interact.** Application threads share one `TimerManager` and call it
concurrently; `timer_update` calls back into the application with the mutex
held. The LAN agent is one sequential process whose surroundings are not: it
writes UCI packages that other programs commit too, restarts two services, and
polls a file that dnsmasq rewrites. The interface program runs `ifconfig`,
parses what it left in a file, and writes a list; it logs into the circular
log. No component of one program calls another program's.

**What is hard here, and what makes each component correct.**

- *Timer library*: threads interleave around one mutex; `timer_add` can fail at
  three points with different resources in hand; the clock is read before the
  mutex is taken; callbacks run under the lock; missed periods must be passed
  over without shifting the timetable; freeing races with waiting. Correct
  means: names unique, no block lost, no lock kept, a timer called at most once
  per due time, never early, no due time lost, and nothing used after it was
  freed (which the code does not achieve while `timer_free` ends).
- *LAN agent*: two packages are saved and committed one after the other, and a
  failure, a kill or a reboot can fall between any two calls. Correct means:
  each package whole or untouched, the address before the range, services
  restarted only when both are complete, the user told what is so, and a rerun
  repairs what is left over.
- *Lease polling*: a timeout races a late lease; boundaries of the range and of
  the timeout; a file that cannot be opened. Correct means: the right answer,
  in the given time.
- *Agent logger*: a path that is written without the mutex and before the new
  file is known to open; writers in several threads; a buffer at its bound.
  Correct means: each message is one whole line in one file, in order.
- *Interface list*: a failing command, partial failures of allocation and of
  writing, a parser whose buffers are shared by all blocks, two files that are
  truncated before they are written. Correct means: each node describes its own
  block, no block of memory is lost, the files agree, an error keeps the old
  list.
- *Circular log*: the header changes its length under the entries; a crash
  between entry and header; wrap-around. Correct means: writing goes on where it
  stopped and damages no message of its own lap.
- *Generic list*: the empty list has two representations, an empty cell and no
  cell. Correct means: a sorted list or a stack that loses nothing.

## 2. Modules

| module | what it is |
|---|---|
| `Timetable` | what the catch-up loop of `timer_update` computes, as a formula |
| `TimerService` | the abstract registry of periodic timers: atomic operations, no mutex, no memory |
| `TimerManager` | the timer library, one step per lock operation, allocation, clock reading and loop iteration |
| `Timespec` | the arithmetic of `struct timespec` under the due times of one timer |
| `LeasePoll` | the polling loop of the LAN agent against a lease file that changes |
| `LanAgent` | one run of the LAN agent after another, with failures, kills, reboots and other users of libuci |
| `AgentLog` | the logger of the LAN agent, with threads, a data race on the path and files that do not open |
| `IfaceList` | the interface list and the parser of `ifconfig`'s output, one step per line or allocation |
| `IfaceProgram` | `main` around `IfaceList`: the command, the two files, failures and kills, run after run |
| `CircularLog` | the log file of the interface program, byte by byte, with kills |
| `ListService` | the abstract list that `link_list.h` describes |
| `LinkedList` | the generic list, cell by cell |
| `TimerManagerProofs`, `TimespecProofs`, `LanAgentProofs`, `LeasePollProofs`, `AgentLogProofs`, `IfaceProofs` (list and program), `CircularLogProofs`, `LinkedListProofs` | the theorems |
| `MC*` | the instances for TLC |

`TimerManager` composes with `TimerService` by refinement (`Service`), and so
does `LinkedList` with `ListService`. `IfaceProgram` extends `IfaceList`: its
action `Parsing` is any step of the parser. `Timespec` justifies the integer
time of `TimerManager`. `LanAgent` has the lease check as a single step;
`LeasePoll` is its detail.

In a model module an operator whose comment begins with "Mutant of" is not part
of the specification. It is what a plausible bug would make of the definition
that it is named after, and `PROJECT.json` says which property then fails.

### TimerManager and the code

`pc[t]` is where thread `t` is inside a library call, `"idle"` when it is not
inside one. The C locals are `entry` (`newEntry` and the parameters it is
made of), `key` (the name to remove), `now` (`current_time`) and `pos` (the
cursor `current`, as a position). `list` is the chain that starts at
`manager->head`, head first, so that `timer_add` puts its entry in front.
`life` follows the memory of the manager itself; in state `"dangling"` the
entries have been freed and `manager->head` still points to them, and in state
`"undefined"` a thread has used what was freed, after which the program may do
anything and the model stops. `blocks` counts what `malloc` and `strdup` gave and `free` has not taken back.

Each function is a call action (the checks before the lock, and for
`timer_update` the reading of the clock, which the code does before it locks),
the shared action `Lock`, and one action per step under the lock. The failing
branches are part of the actions: `AddMalloc`, `AddStrdup` and `AddClock` each
choose between going on and the early return that frees and unlocks. Calls
with NULL arguments or `interval <= 0` return before anything happens and are
not modelled as steps; neither is an update whose clock cannot be read. The
unlink of `timer_remove` has no call that can lose control and is one step
(`RemoveFind`), and so is the release of all entries in `timer_free`.
`CallbackReenter` is a callback that calls any function of the library on its
own manager: the thread then waits for itself.

Time is an integer in nanoseconds. `timespec_add_double` truncates an interval
to nanoseconds, so the interval 0 stands for an accepted positive interval
below one nanosecond; `timespec_compare` is the order of integers. `Timespec`
shows that this is what the code computes as long as the times fit a `time_t`.

Nothing keeps other calls away from `timer_free`, so nothing does in the model:
`CallFree` may start while other threads are anywhere inside, and they may call
until it has returned. `timer_free` unlocks the mutex before it destroys it. A
thread that gets the mutex in between reads `manager->head`, which dangles
(`Stray`), or, if the list was empty, works on a manager that is about to go;
one that is anywhere inside when the mutex is destroyed and the manager freed
has them taken away (`FreeDestroy`). The comment at timer.c:397-398 counts on
the lock to prevent this: `NoUseAfterFree` is refuted, see section 4. What does
hold is `SafeUntilFreed`: that window is the only one. Until `timer_free` has
given the mutex back, every step of every call finds the name, the entry and the
memory it relies on; the mutation that frees the entries without the mutex
breaks it. A `timer_add` that slips into the window over an empty list returns
`true`, and its entry is lost with the manager (`Accounting` counts it,
`NothingForgotten` is refuted).

The registry that `TimerService` describes is the list with one correction: the
timer that a thread is calling or passing on (`pc` is `update_callback` or
`update_advance`) already has its next due time. `UpdateFire` is thus the
abstract `Fire`, each iteration of the catch-up loop is invisible, and the
intermediate due times of a late timer never show.

### Timespec and the code

One timer, followed through `timer_add` (`Add`), the comparison in
`timer_update` (`Update`) and its catch-up loop (`Advance`, `Served`). A second
has `Second` nanoseconds, and a `double` is a number of grains, of which a
nanosecond has `Grain`: `WholeSeconds` is the `floor`, `Nanoseconds` the product
with 1e9 that the conversion to `long long` cuts off, `Carry` the `if` with its division
and remainder, `Compare` is `timespec_compare`. Where C leaves the result open,
the model has every outcome of the builds: a conversion that does not fit gives
the smallest `time_t` or the nearest one, a sum that overflows wraps (`Casts`,
`Wrap`).

The `floor` of a double and the fraction that is left are doubles, so both are
exact; the product `fractional_seconds * 1e9` may not be a double and is rounded.
Below 1e9 doubles lie at most 2^-23 apart, so that rounding moves the product by
at most `Rounding`, 2^-24 of a nanosecond, and it changes the number that the
conversion leaves only where it reaches the next whole one. The intervals for
which it does are the constant `RoundsUp`; the nearest double to 0.3 is one,
which gives 300000000 nanoseconds and not 299999999. `TimespecAssumption` asks
of them just that they lack no more than `Rounding` for a whole nanosecond.

### LeasePoll and the code

One action per piece of the do-while loop: `LookFails` is the failed `fopen`
with its `sleep` and `continue`, `Look` the scan of the file, `Judge` the two
tests at the end of the loop, `Sleep` and `Report` the rest. The code reads the
clock again before it compares it with the timeout, so `Judge` lets time pass
after the look, and `Sleep` may take longer than asked (`Delays`). A look
that began before the timeout may thus be the last one, and what is written
into the file while it reads may go unnoticed: `NotFoundIsFinal` says by how
little. The clock is `time(NULL)`; it is taken not to be set back. The file may
appear and disappear at any time and holds any set of lines at each look.
Addresses are numbers, as `ip_str_to_long` makes them; the last octet has
`OctetSize` values. The printed table takes no part in any decision and is left
out; the dead statements 446-447 are not modelled.

### LanAgent and the code

Since the values main sets are constants, a place that stores options (the
context of the process, a delta file, a package file, a running service) is
described by the set of options that have the new value there. `SetOption` is
one `uci_lookup_ptr` and `uci_set`; any of them, `Save`, `Commit`, each restart
and each check may fail (`Fault`). `Show` is `show_lan_config`, which ignores the
results of `fprintf` and `fclose`: with a fault, `lan.txt` may be empty or cut off
although the user is told that it was written (`ListedIsListed`, section 4), and
a process that ends meanwhile leaves it so, too (`ListingCut`).
`set_dhcp_lan_config` skips an argument that
is NULL: `Requests` are the sets of options it may be asked for, `asked` is the
one of this history, and with none of them `SetNothing` goes straight to the
save. `AfterSet` is the cleanup of a set function together with the test of
`final_result` in main. `Kill` ends the process between any two steps, `Reboot`
also empties the RAM disk with the delta files and starts the services from
flash, `ForeignCommit` is another program that commits a delta it finds. A
failed commit may or may not have consumed the delta.

`uci_handler.c` does not compile as it stands: line 248 lacks its semicolon.
The model reads the line as `int success_status = 0;`, the only reading the
rest of the function allows.

### AgentLog and the code

`log_message` is `Log` (the test of the level, and the line in the local buffer:
`Terminated` is `snprintf`, `vsnprintf` and the newline at the end), `Lock`,
`OpenHalf` and `Open` (the `fopen`, which falls back to stderr), `Write` (`fputs`
and `fclose`, whose results nobody looks at) and `Unlock`. `set_log_file` is
`SetFile` and `CopyRest` (the `strncpy`), then `ProbeHalf` and `Probe` (the
`fopen` that tests the path); `init_logger` is the same `fopen`.

The path is the interesting variable: it is written without the mutex, and
`log_message` reads it under the mutex. That is a data race, so the path is two
halves, written one after the other and read one after the other, and a path of
two different halves names a file nobody asked for. `openable` is chosen at the
start: any named path may be one that cannot be opened. `raced`, `before`,
`promised`, the ids and the `after` sets of lines are history.

### IfaceList and the code

`parse_data_buffer` is a machine over the lines of its buffer. A line is what
the scanners of `parser.c` read out of it: a header with name and MAC, an IPv4
address with its three fields, an IPv6 address, a status, or anything else.
`AddBlock` and `SkipBlock` end a block, in front of the next header or after the
last line; `HeaderLine` and `DetailLine` fill the temporary buffers (`buffers`);
`ParseDone` frees the copy of the buffer. A node is a struct and seven strings,
`Allocate` and `AllocationFails` are the eight calls of `_create_node_internal`,
and `AppendNode` links the node. `ListAdd`, `ListDelete` and `ListDestroy` are the
other functions that change the list. `header`, `origin` and `lost` are history:
from which line the block in hand comes, from which the nodes do, and whose node
could not be allocated.

### IfaceProgram and the code

One action per step of `main` and the functions it calls: `Popen`, `OpenData`,
`CopyLine`, `CopyFails`, `CopyDone` are `run_command_and_save`, `Load` and
`ReadData` are `load_data_from_file` up to its `malloc` and from there, `Parse`, `Parsing`, `ParseReturns` are
`parse_data_buffer`, `OpenList`, `SaveNode`, `SaveDone` are `save_list_to_file`.
Both files are truncated when they are opened and grow line by line. A failure
that the code notices ends the run with code 1; one that it does not notice sets
the history variable `fault`. `fileBuffer` counts the block of `file_buffer`,
which `load_data_from_file` frees when it cannot read and `main` when it has
parsed (`FreeBuffer`); `allocated` of `IfaceList` counts everything else. `Kill`
ends the run between any two steps; `Start`
is the next run, with fresh memory and the old files.

### CircularLog and the code

One action per effect of `LOG_printf_info` on the file: `Read` is `stat` and
the two `fscanf`, `Create` the new file with its first header, `BlankLine` the
wrap-around test, `fgets` and the blanks, `WriteMessage` and `WriteHeader` the
rest; each of the last three ends in the code with an `fflush`, so a kill
(`Crash`) falls between them. A new file is open for writing only, `fgets`
reads nothing from it, and `Create` goes on with the message. A message above
the level returns at once, one of level 0 never does;
`LOG_set_level` takes its arguments from `LevelArgs`. `fgets` reads `ReadMax`
bytes at most, so of a longer line only the first part is blanked. `position` is
the static `current_position`, and is 0 again in a new process. The file is a
sequence of cells with the bytes of header, messages and blanks, because the
header is overwritten in place and its length depends on the number of digits
of the position; `fscanf` is modelled by what it matches and how much white
space it skips.

`lap`, `saved` and `seams` are history: the messages since the last
wrap-around, the end of the last message whose call returned, and the places
where writing was left off. The first message of a new file is excepted from
`LapIsIntact`; the run `circular_log_first` shows why.

A kill between the blanks and the new first line, right after a wrap-around,
has one more effect that TLC met while the model was written: the newline in the
format of `fscanf` skips the blanks too, so `header_size` comes out as the end
of the blanks, and the room they take is not used again. One kill costs less
than `Loss` cells, and `FewKills` says that `MaxCrashes` kills leave room for
the longest message. `LOG_printf_info` does not look whether a message fits
behind `header_size`, so without that room the file passes `MAX_LOG_SIZE`
(`MCCircularLogKills`). In a file of 104857 bytes, with messages of at most 1030
or so, there is room for about a hundred such kills in the file's life.

### LinkedList and the code

`chain` is the cells that start at `*list`, each with its data pointer. A list
without items is `EmptyCell`, one cell without data, after `llist_create`, but
it is the NULL chain, `<< >>`, after `llist_pop` took the last item. `Insert` is
`llist_add_inorder` on items, `FillEmptyCell` the branch in which it and
`llist_push` put the item into the empty cell, `Refuse` the message about a NULL
list, and `FollowNull` what `llist_push` and `llist_pop` do with a NULL chain.
`malloc` is not checked, so `OutOfMemory` ends the program. `taken` and `pushed`
are history. In `ListService` the list is a sequence of items; an empty cell and
a NULL chain both stand for the empty one.

## 3. Runs

`tlc -config <cfg> <module>` in this directory repeats a run.

| run | what it asks |
|---|---|
| `timer_safety` | do lock, list, memory, names and timetable stay sound under every interleaving of three threads and every failure, with re-entrant callbacks and calls next to `timer_free` too, and is freed memory used in the one known window only? |
| `timer_liveness` | does the locked list implement the abstract registry; is the mutex always given back and every due time served? Deadlock is checked |
| `timespec` | is the arithmetic on `struct timespec` that of integers, with what error against the interval, rounding of doubles included, and does the catch-up loop end? |
| `lease_poll` | is the verdict right, at the borders of range and timeout and while time passes, and does polling end if the file is there in the end? |
| `lease_poll_missing` | violation: without the file the three-minute loop never ends |
| `lan_agent` | does the configuration survive any failures, kills and reboots, and does a rerun repair it? |
| `agent_log` | is each message one whole line in one place and in order, whatever fails and whoever changes the path, and does every call end? |
| `iface_list` | do nodes describe their own blocks, in order and without duplicates, and is no memory lost, whatever allocation fails? |
| `iface_program` | do the files agree after a good run, is the list kept after a bad one, and does every run end? |
| `circular_log` | do bound, position, messages and lines survive wrap-arounds and two kills anywhere? |
| `circular_log_first` | violation: the first message of a new file is damaged by the call that writes it |
| `linked_list` | do the cells implement the list of the header, sorted, without a lost item or cell? |

**Bounds.**

- Timers: two names (a timer and another one, so duplicates, removal of head
  and tail and re-registration happen), intervals 1 and 2 (an update can be
  late by one period and by several), a clock up to 3 so that several due times
  pass, and three calls besides the driver's `timer_update`, which is not
  counted: enough for add, add or remove, and free to overlap with updates of
  another thread. Three threads in `timer_safety` make two wait while one is
  inside; two in `timer_liveness`. Names and the threads other than the driver
  are permuted by symmetry in `timer_safety`, which has no temporal property.
- `Timespec`: a second of 4 nanoseconds of 4 grains, intervals of 3 to 37
  grains: from less than a nanosecond to two seconds and a bit, each remainder of
  a nanosecond and of a second among them. Products are rounded by one grain,
  and of the intervals that lack one grain for a whole nanosecond four are
  rounded up to it, one of them below a nanosecond and one above a second, and
  the others are not. The clock goes to 13, three seconds, so
  that a timer is late by several periods. With a `TimeMax` of 7 all of them
  fit; the times that do not are in `MCTimespecOverlong`.
- Lease polling: `Interval` 5 and `Duration` 20 keep the shape of 5 and 180; a
  look may take 3 seconds and a sleep last 3 seconds longer, so the timeout is met both exactly and
  between two looks. The clock stops at `MaxTime` 35, past every timeout. The
  leases are one of the old network, the first and last address of the range,
  an expired one inside, the next one after it, and a line without an address;
  one of the ranges leaves its octet.
- LAN agent: the options are the program's own, and main's request is one of
  four (the others: nothing, the range alone, the switch alone); three faults
  allow a failed commit, a kill and a reboot in the same history, before the
  final good run.
- Agent log: two threads, one of which also sets the file, two names, three
  calls: a message before, during and after a change of the path, or two
  messages that overlap. A header of 2 and a buffer of 6 characters, with texts
  that are shorter than the buffer's bound, reach it, pass it, and end in a
  newline or not.
- Interface list: buffers of up to three lines of seven kinds (two headers, so
  that the same interface comes twice and a block ends at a header and at the
  end; two IPv4 lines, of which the last counts), three calls, so that the
  second buffer meets nodes of the first.
- Interface program: the same with three kinds of lines, and two runs: the
  second one starts from whatever the first one left.
- Circular log: base 4, a prefix of 2 bytes and a size of 40 give headers of
  three lengths, as positions with two to six decimal digits do; messages of 8
  and 10 bytes are longer than any header, as they are in the code, and of
  different lengths, so that overwriting never stays aligned; one of them is
  longer than what `fgets` reads. Eight messages wrap twice, and nine in
  `circular_log_first`; a kill falls at every step of every message, and so does
  a second one, so that a torn line is met by another kill and two of them take
  room behind the first line. The file has room for two and none for a third,
  which `MCFewKills` says.
- Generic list: five items with three keys put equal items in front of, behind
  and between others, and empty the list in between.

**Deadlock** is checked in `timer_liveness`, `lease_poll`, `lease_poll_missing`
and `lan_agent`. Elsewhere the program may stop: in `timer_safety` a re-entrant
callback blocks for ever, in `circular_log`, `circular_log_first`,
`iface_list`, `iface_program`, `linked_list`, `agent_log` and `timespec` the
calls, runs, items or the clock are bounded and come to their end.

**Fairness.** `TimerManager!Fairness` asks that a thread that can run runs, so
every callback returns; that a thread waiting for a mutex that stays free gets
it (weak fairness only: pthread mutexes are not fair, and a thread may starve
among others that keep taking the mutex); and that the driver keeps calling
`timer_update`, as timer.h:96-98 demands of the main loop. The other threads
call only finitely often, by the bound on calls, so the driver is not starved.
The clock need not advance. `Timespec` asks that an iteration of the loop that
can be made is made. `LeasePoll` asks that the process is scheduled and sleeps
end. `LanAgent` asks that the agent is started again and scheduled, and that
the lease check ends. `AgentLog` asks that a call that has begun goes on; its
calls are bounded, so that weak fairness gives each waiting thread the mutex in
the end. `IfaceProgram` asks that a program that is not killed keeps running;
nothing is asked of kills, and none of new runs.

## 4. Findings

Two of the runs refute what a comment or a test output of the repository says:

1. A lease file that cannot be opened makes the three-minute loop endless: the
   `continue` of uci_handler.c:445 jumps over the test of the timeout
   (`lease_poll_missing`, `PollingEnds`).
2. The first message of a new log file is overwritten by the header within the
   same call (`circular_log_first`, `MessageWritten`);
   `link_list/database/log.txt:2` shows it.

**Known divergences.** The following statements fail too. Each has a
configuration of its own, which `tlc -config <cfg> <module>` refutes.

| cfg, module | property | what the code does |
|---|---|---|
| `MCTimerFree`, `MCTimerManager` | `NoUseAfterFree` | timer.c:397-398 locks "để đảm bảo không có luồng nào khác đang truy cập danh sách" and timer.h:49-50 has the mutex for access from several threads; but `timer_free` gives the mutex back and then frees it, and a thread that waited goes on with freed memory (timer.c:421-426) |
| `MCTimerForgotten`, `MCTimerManager` | `NothingForgotten` | a `timer_add` that gets the mutex between timer.c:421 and 422, over an empty list, returns `true`, and its timer is lost with the manager |
| `MCTimerReentrant`, `MCTimerManager` | `Rescheduled` | callbacks run with the non-recursive mutex held; a callback that calls the library on its manager never returns (timer.c:329). The header does not forbid it |
| `MCTimerSubNanosecond`, `MCTimerManager` | `Rescheduled` | `timer_add` accepts a positive interval that truncates to 0 nanoseconds; the loop of timer.c:336 then never ends and keeps the mutex |
| `MCTimespecOverlong`, `MCTimespec` | `DueAfterStart` | `timer_add` accepts an interval that `time_t` does not hold (timer.c:41); the timer is due before it starts |
| `MCLeasePollExpired`, `MCLeasePoll` | `UpdatedByLiveLease` | an expired lease in the range counts as confirmation of the new configuration |
| `MCLanAgentListed`, `MCLanAgent` | `ListedIsListed` | main says that the LAN configuration was written to `lan.txt` (main_app.c:20-21) although the results of `fprintf` and `fclose` were not looked at (uci_handler.c:66-93); the file may be empty or cut off |
| `MCIfaceProgramStatus`, `MCIfaceProgram` | `TrueMeansSuccess` | iface_list.h:104 promises "true" for a command that succeeded; a failing exit status is only logged (iface_list.c:354-366) |
| `MCIfaceProgramSaved`, `MCIfaceProgram` | `SavedWhenSaid` | main says that the list was saved although `save_list_to_file` could not open or write the file (main.c:55) |
| `MCLinkedListNull`, `MCLinkedList` | `NullNotFollowed` | after the last item was popped `*list` is NULL, and the next `llist_pop` or `llist_push` follows it (link_list.c:77-84, 99-101) |
| `MCCircularLogKills`, `MCCircularLog` | `BelowMaxSize` | each kill between a wrap-around and the next first line takes room behind that line for good, and log.c:93-96 starts again there without asking whether the message fits; the third one in the small file makes it reach its bound |
| `MCAgentLogPrevious`, `MCAgentLog` | `PreviousKept` | see below |
| `MCAgentLogTorn`, `MCAgentLog` | `OnlyNamedFiles` | `set_log_file` writes the path without the mutex that log.c:30 has "for thread-safe logging"; a message may go to a file whose name is half old and half new |

The shortest run against `PreviousKept`: a thread calls `set_log_file` with a
path that cannot be opened. log.c:64 has copied it over the old path before
log.c:65 tries to open it; log.c:71 then says "Cannot open new log file ... Using
previous log file.", but the path is the new one, and every later message goes
to stderr.

## 5. Proofs

Every theorem holds for all values of the constants that satisfy the named
assumption of the module (`TimerAssumption`, `TimespecAssumption`,
`IfaceAssumption` and so on); these say of what type a constant is, that the
"nothing" values are not values, and nothing about sizes.

**Timer library** (`TimerManagerProofs`, any threads, names, intervals and
clocks, re-entrant callbacks and calls next to `timer_free` too). None of the
invariants `MutualExclusion`, `UniqueNames`, `Accounting`, `SafeUntilFreed` and
`NoneLeftBehind` is inductive alone, so the proof works with their conjunction
`IInv`. `LocalsOK` is half of `SafeUntilFreed` and the strengthening for the
rest: the name `timer_add` looked for is still absent when it links (this gives
`UniqueNames`), the entry under the cursor is still in the list after the
callback, and what a call goes on to use has not been freed. `ManagerThere` is
what the other half needs: the head dangles only while some thread is between
`FreeEntries` and the end of `timer_free` (this gives `OnlyTheWindowIsUnsafe`).
`MutualExclusion` is what makes it stable: while a thread is
inside, no other step changes the list. `Accounting` counts the blocks in the
hands of the one `timer_add` that can be inside (`InFlight`). The module first
states what the actions do to the list (`FireEffect`, `AdvanceEffect`,
`LinkEffect`, `UnlinkEffect`), then has one lemma per invariant with one step per
action.

`TInv` adds what keeps the timetable: a due time is never behind the number of
calls, except that of the one timer under the cursor of the thread that holds
the mutex, in the middle of the loop (`Lagging`). With it come `KeepsTimetable`
(no call before its due time, due times are start + k * interval), and the
refinement `Spec => ImplementsService`. The refinement assumes that 0 is not an
interval: with it the catch-up loop never ends, and there is no next due time
to promise. `StepKinds` sorts the steps into those that the timers do not notice
and those that they do; each of the latter is the abstract action or a
stutter (`LinkRegisters`, `UnlinkUnregisters`, `FireFires`, `AdvanceInvisible`).
`WalkGetsNearer` is the variant of the walk: the entries ahead of the cursor, the
stage at the first of them and how far it is behind the clock go down, in this
order, with each step of the walking thread, and other threads leave them alone,
unless a `timer_free` has pulled the list from under the walk.

**Timespec** (`TimespecProofs`, any second, grain, `time_t` and intervals).
`DueFits` says that a due time is at most one interval after the clock, so
that no sum overflows if the constants fit (`Fits`); then due times are sums of
periods of one length (`Period`), comparisons those of moments (`IntegerTime`).
`PeriodIsNear` says how far that length is from the interval: it is shorter by
less than a nanosecond, and longer by no more than the rounding of one product,
so that the error of a due time has these bounds for each period
(`DriftBounded`). That every timespec is in normal form needs no such condition.
`LoopMakesWay` says that the loop gains a nanosecond or more per turn; it needs a
period of at least that length, and `MCTimerSubNanosecond` shows what happens without it.

**LAN agent** (`LanAgentProofs`, any request and number of faults). That a
package is changed as a whole is inductive only with what the agent has in hand:
it saves nothing but a full set of options (`InHand`), it turns to the DHCP
range only when the address is stored and nothing of it is staged
(`NetworkDone`), and it says nothing of a change before the services were
restarted (`SaidInTime`).

**Lease polling** (`LeasePollProofs`, any octet size, range, leases, interval
and duration). `FoundIsSeen` ties `found` to what the last look read,
`AnswerIsJudged` ties the verdict to the time of that look and to the reading of
the clock after it, and `Paced` says that
a full interval lies between two looks as long as the file opens, which gives the
bound on the number of looks.

**Interface list and program** (`IfaceProofs`, any names, lines, buffers and
number of runs). What a node says is decided
while its block is read, so `BlockInHand` states of the buffers what `OwnBlock`
states of the nodes, and `Handled` says which headers have been dealt with at
each moment of the walk. The program's invariant `ProgInv` contains that of the
list inside it (`ListInside`) and follows the text from the pipe to the file, the
buffer and the parser (`TextKept`), and the nodes to the saved list
(`NodesKept`); `OldListThere` says that the list file is untouched until a run is
past its last reported error. `BufferHeld` says when `file_buffer` is allocated;
with the count of the list's blocks it gives that nothing is left at the end
(`EverythingIsFreed`). `ParserGetsNearer` and `RunGetsNearer` give natural
numbers that each step of the parser, and of a run of `main`, lowers.

**Generic list** (`LinkedListProofs`, any keys and number of items). That the
empty cell is alone makes every other chain a sequence of items; that items are
numbered up to `added` makes a new item the newest of its equals; `HadAnItem` and
the count of items give that a NULL chain means that all items were popped. The
refinement of `ListService` follows action by action.

**Agent log** (`AgentLogProofs`, any threads, calls, names and messages, a buffer
of any size). `Exclusive` says that whoever is between lock and unlock holds the
mutex. `EachLineOnce` is inductive only with `Numbers`: the number of a call
is behind all that were given out, and no two messages on their way share one.
`InRealTimeOrder` needs `Pasts`: what was finished when a call began is finished
now, so the line appended at the end is in nobody's past. `WholeLines` comes
from `Texts`, what the buffer holds until it is written. `TornOnlyInRace` needs
one thread that sets the file (`OneSetter`; with two of them halves of two new
paths mix, and both model and code do that): `PathInv` ties the half that
`fopen` has read to the path as long as nobody changed it. `OutputOnlyGrows` is
an action property: no step changes what was written.

**Circular log** (`CircularLogProofs`, any sizes, base, messages and calls, and
as many kills as `FewKills` has room for). The file is made of bytes, so the
proof first gives the facts about numbers as text: what `printf` writes
`fscanf` reads back (`NumberReadBack`), more digits for larger numbers
(`NumDigitsMonotone`), and where the white space that `fscanf` skips ends
(`HeaderRead`). The invariant `IInv` then says, at every moment of a call, that
the first line gives the end of the last finished message (`Kept`), that the
message in hand goes behind a line end or a blank, and when writing starts again
ends in front of the room of the next (`Hand`), that the messages of the lap
lie behind the first line and in front of that end (`LapKept`), and that lines
are messages except at the seams (`Lines`). `FrontIsClean` is the part that is
easily missed: what lies behind the first line, up to the saved position, begins
within the room the kills so far have cost with a byte of a message and has no
blanks in it, so that `fscanf` stops there. Without it the place where
writing starts again has no bound.
`FewKills` cannot be dropped: `MCCircularLogKills` is the counterexample.

The library's induction theorems are out of the provers' reach, and a recursive
function is not even known to exist by its definition. Where a proof needs them
(digits, numbers, minima and maxima) it argues by the least counterexample,
`WFMin` of the library (`LeastElement`, `Recursion`).

Model-checked only: all liveness (`MutexReleased`, `DueTimeServed`, `LoopEnds`,
`EndsIfReadable`, `RerunRepairs`, `CallsEnd`, `RunEnds`), because the prover does
not handle fairness. For the walk of `timer_update`, the catch-up loop, the parser
and a run of `main` the part of it that is no matter of fairness is proved: each
step lowers a natural number, or comes earlier in a lexicographic order of them
(`WalkGetsNearer`, `LoopMakesWay`, `ParserGetsNearer`, `RunGetsNearer`; the
lemmas `WalkMeasure`, `ParserMeasure` and `RunMeasure` say that they are natural
numbers). Every safety property of the passing runs, and both
refinements, are theorems. `TimerService` and `ListService` have no run of their
own: the runs of the modules that implement them check them.

## 6. Not modelled

The vendored tree: `uselibuci/output` and `uselibuci/dynamic_lib` are about
588,000 lines of a cross toolchain, C library headers and the headers of libuci,
libubox and drivers. The repository only uses them; of libuci the model has the
calls the agent makes, as an external part of `LanAgent`.

Of the program's own code: the formatting of messages, tables and files;
`llist_print`, `list_search` and the printing functions, which change nothing;
NULL arguments and lists, which the
callers in the repository do not pass; texts longer than the buffers of the
interface parser; two agents running at once; a log directory that is missing,
and a log file that can be found but not opened, in the circular log; a failing
`vsnprintf` in the agent's logger, and a write of it that fails part-way (its
line is lost as a whole); a system clock that is set back while leases are
polled. Of the scanners in `parser.c` the model has
what they return and not how they find it.
