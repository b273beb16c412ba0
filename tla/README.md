# The smart library console in TLA+

The program is the firmware of a library console: an STM32F103 with a touch
screen, an RC522 card reader, a serial terminal and an EEPROM, running on
RT-Thread 3.0.3.  A cover shows four icons; behind them are four pages: look up
a book, borrow, give back, and change the stock.  The books are a list in RAM,
the loans are numbers in two blocks of a patron's MIFARE card, and what a patron
types arrives as a line on the serial port.

This directory holds TLA+ modules that model the program, TLC configurations
that check them on small instances, and proofs that TLAPS checks for all
instances.  Line numbers below and in `PROJECT.json` are those of the files
under `src/`; many of them are encoded in GB18030.

## 1. Inventory

| Part | State | Operations | Interacts with |
|---|---|---|---|
| Application threads (`User/main.c`) | five threads, five semaphores, `lcd_mutex`, `lcd_index` | `main`, five entry functions | the kernel; every page |
| RT-Thread kernel (`scheduler.c`, `thread.c`, `ipc.c`, `clock.c`) | ready lists, current thread, lock nesting, waiters | schedule, startup, suspend, resume, delay, exit, yield, semaphore and mutex take and release, scheduler lock | called by every thread and by SysTick |
| RT-Thread timers (`timer.c`) | list of timers, `rt_tick` | start, stop, check | started and stopped by sleeps and timed waits, served by SysTick |
| Serial line (`Public/usart.c`) | `USART1_RX_BUF`, `USART1_RX_STA` | `USART1_IRQHandler`; the copy loops in `rc522.c` and `main.c` | the interrupt against the page that reads |
| Loans (`Others/rc522.c`) | `DATA4_0/1`, `rc522_num`, `rc522_book_id`, `rc522_bit`; two blocks of every card | `Bo_Re(1)`, `Bo_Re(0)` over `Pcd...` | cards, the serial line, the list of books |
| List of books (`Others/book.c`) | ring of nodes, `book_head`, `book_num`, `name[30][20]`, `change_id` | `book_system_init`, `create_book_item`, `delete_book`, `book_find`, `book_id_find`; the change page | heap, loans, serial line |
| Memory pool (`Others/malloc.c`) | table of blocks per bank | `my_mem_init`, `mymalloc`, `myfree`, `myrealloc`, `my_mem_perused` | GUI, font update |
| Touch input of pages (`diy_gui.c`, `keyboard.c`) | per polling function the touch it remembers; SHIFT, CAPS, `i`, `rec_buf` | icon tables, RETURN, `Process_Keyboard` | touch panel, LCD, the find page |
| Touch panel (`APP/touch/cst716.c`) | `tp_dev`, scan counter `t` | `CST716_Scan` | the panel's controller; polled by the pages |
| EEPROM and I2C (`APP/24Cxx`, `APP/iic`) | bus lines, memory | read, write | resistive calibration only, not in this build |
| Clock (`APP/rtc`) | seconds counter, calendar | set, get, weekday | never called |
| Timers, key, motor, PWM (`APP/time`, `key`, `exti`, `pwm`) | counters, key state | interrupt handlers | never started |
| Menu (`APP/menu_list`) | tree of items | create, link, walk | never called |
| Delays (`Public/SysTick.c`) | SysTick counter, scheduler lock | `delay_us`, `delay_ms` | kernel |
| LCD, fonts, windows, sensors, vendor code | registers, pixels | drawing, conversion | - |

Where the difficulty lies, and what makes each part correct:

* **Threads.**  Everything a page draws in its loop is drawn *without*
  `lcd_mutex`; only the chain of semaphores keeps two threads off the screen.
  Correct means: one owner at a time, the ownership is never lost, the page that
  serves is the one that was chosen and the one that is shown, a touched icon
  eventually brings up its page and RETURN the cover.  The list of books is
  built in the LCD thread, and only priorities order this before its readers.
* **Kernel.**  Handing a mutex to a waiter that has not run yet, lending
  priorities, waking a thread while the scheduler is locked.  Correct means: a
  thread is on exactly one list, the most urgent ready thread runs, no wakeup is
  lost, mutual exclusion, no inversion, lent priorities come back.
* **Timers.**  The timer of a wait fires while the owner releases; ticks start
  again from 0 between a start and its expiry.  Correct means: a wait ends with
  the mutex or with its time up, never both; every sleep ends at its tick; no
  timer of an earlier wait is left to end a later one.
* **Serial line.**  An interrupt between any two bytes of an unlocked copy loop.
  Correct means: the copy is the line, and the buffer is never overrun.
* **Loans.**  RAM and two card blocks change in three separate steps, the card
  may leave between any of them, a request outlives page, card and book.  Correct
  means: a book is on the shelf or on one card, never both.
* **List and pool.**  Pointer surgery at the ends of a ring; a number given out
  before memory is; a downward search in a table that trusts its own lengths.
  Correct means: ring and table agree with what was asked for.
* **Touch.**  Four functions poll one driver and remember a touch each, in
  static variables that outlive the page; the driver reads fingers and places at
  two different times, from a panel it asks at every tenth scan only.  Correct
  means: the screen changes hands only by a touch seen since it last did, a
  finger that stays is seen, a touch ends because the finger left.
* **Keyboard.**  SHIFT, CAPS, the buffer and the place in it survive the page;
  four keys have no defined result; the page cuts the buffer behind the
  keyboard's back.  Correct means: the name shown is the name typed, the keys
  type what they show.

`PROJECT.json` lists all components with their status, and the hazards line by
line with the properties that cover them.

## 2. Modules

| Module | Models | Role |
|---|---|---|
| `Handoff` | threads of `main.c`, semaphores as counters, any thread may move | abstract specification of the hand-off |
| `HandoffProofs` | - | proofs about `Handoff` |
| `RtKernel` | ready lists, scheduler, suspend/resume, semaphores, mutexes | the kernel as operators on `sched`, `sem`, `mutex`; used by `MutexClients` and `LibraryThreads` |
| `RtKernelProofs` | - | lemmas about `RtKernel`: lists, scheduler, kernel calls |
| `TimerList` | the list of hard timers | `timer.c` as operators on a list; used by `MutexClients` |
| `Alarms` | sleepers and the ticks they have left | abstract specification of sleeps and timed waits |
| `MutexClients` (`MC...`) | threads contending for one mutex, sleeping and waiting for some time | drives the paths the application never reaches; implements `Alarms` |
| `MutexClientsProofs` | - | proofs about `MutexClients` and `TimerList`, the refinement included |
| `LibraryThreads` (`MC...`) | threads of `main.c` on `RtKernel` | implements `Handoff` |
| `LibraryThreadsProofs` | - | proofs about `LibraryThreads`, the refinement included |
| `LineInput` | a line taken in one step | abstract specification of the serial line |
| `SerialLine` | interrupt and copy loop | implements `LineInput` |
| `Lending` | where each book is | abstract specification of loans |
| `Circulation` | `Bo_Re`, cards, the requests, the change page's effect | implements `Lending` under named faults |
| `CirculationProofs` | - | proofs about `Circulation`, the refinement included |
| `Catalogue` | a sequence of numbered books | abstract specification of the list |
| `BookStock` (`MC...`) | ring, table of names, `change_id`, `book_num` | implements `Catalogue` |
| `BookStockProofs` | - | proofs about `BookStock`, the refinement included |
| `Allocator` | disjoint runs of cells | abstract specification of the pool |
| `MemPool` | `malloc.c` | implements `Allocator` |
| `MemPoolProofs` | - | proofs about `MemPool`, the refinement included |
| `TouchPages` (`MC...`) | `CST716_Scan` and the four polling functions under the threads of `main.c` | what `LibraryThreads!Touch` leaves open |
| `LineEditor` | the line on the LCD | abstract specification of the keyboard |
| `Keyboard` (`MC...`) | `Process_Keyboard` and the look-up of the find page | implements `LineEditor` |
| `InputProofs` | - | proofs about `SerialLine`, `TouchPages` and `Keyboard`, the refinements included |

`map` in `PROJECT.json` gives the lines each definition stands for.  How state
and actions correspond:

**Handoff, LibraryThreads.**  `pc[t]` is where an entry function stands: `wait`
before its `rt_sem_take`, `lock` before `rt_mutex_take`, `draw`, `unlock`,
`serve` in its loop, `give` before its `rt_sem_release`.  The five functions have
one shape: the cover differs in taking its semaphore after the release rather
than before, and in a first `boot` step, `book_system_init()`.  In
`LibraryThreads` a step is taken by `sched.cur` only, and `took` and `locked` are
the inside of `rt_sem_take` and `rt_mutex_take` behind `rt_schedule()`.  A
semaphore release that finds a waiter does not count up but resumes it;
`Handed(t)` therefore adds that unit back in the refinement mapping.  A page's
touches are a free choice in `Touch`; its busy waits (`delay_us` in the touch
panel and the card reader) lock the scheduler in `BusyWait`.

**RtKernel.**  A kernel call runs with interrupts off and is one operator.
`sched.table` are the lists of `rt_thread_priority_table`, most urgent first;
the bitmap search is the least non-empty priority.  `armed` is the set of
threads whose timer runs; in `LibraryThreads` such a timer may fire at any time,
in `MutexClients` it fires when `TimerList` says so.  All IPC is with
`RT_IPC_FLAG_PRIO`, as in `main.c`.  Mutexes may be taken with a time limit, and
`GiveUp` is what `rt_thread_timeout` does to the list of waiters; semaphores are
taken with `RT_WAITING_FOREVER` only, as everywhere in the program.

**MutexClients, TimerList.**  `Tick` is one SysTick interrupt: the tick is
counted, the time slice may end, and every expired timer calls
`rt_thread_timeout`, in the order of the list (`TimeUp`; `Served` is the loop of
`rt_timer_check`).  `late` are the threads whose
`thread->error` is `-RT_ETIMEOUT`.  A call that waits is two steps: up to its
`rt_schedule()` (`Take`, `Sleep`) and behind it (`RunsOn`, `Awakes`), and
anything may happen in between.  Ticks are counted modulo `TickMod`, which is
2^32 in the program.

**SerialLine.**  The interrupt handler is one step (it cannot be interrupted by
the reader); the reader's check, length, each copied byte and the final clear
are steps of their own.

**Circulation.**  `pc` walks through one call of `Bo_Re`: `request`
(`Seek`: request, anticollision, select), `read` (`ReadCard`), `line`
(`ReadLine`), `act` (`Borrow`, `GiveBack` or `Leave`), `write1` and `write0` for
the two `PcdWrite`.  `data` is RAM's copy of the two blocks and survives from one
pass to the next, as do the number of entries, the typed number and the pending
bit.  `link` is the card that answers, `field` the card on the console; `Place`
takes it away between any two steps.  Only the authentications, reads and writes
of sector 4 change what the program remembers, so sector 3, the display and the
register protocol of the RC522 are left out: a command succeeds or fails.
`books` maps the listed numbers to their `state`; 0 is the list head, which the
code returns for "not found" and whose state it reads and writes all the same.

**BookStock.**  `node` is the heap's allocated nodes, with `next` and `prev`;
`Search` is the loop of both find functions.  `MakeBook` is one turn of the loop
in `book_system_init`.  **MemPool** is one bank; `live` is what the callers
think they hold, and `asked` the size asked for last, by which `Allocator` knows
whether a refusal was one because nothing fits.

**TouchPages.**  `panel` is what the controller sees; `Finger` changes it between
any two steps.  A call of a polling function is one step, or two if the driver
found a finger: `CST716_Scan` then waits 4 ms (`reading`) before it reads the
place.  `pressed[f]` is the static `curxpos`, `curypos`, `curtpsta` of function
`f`.  `pc` goes round the loop of the page that has the screen; the hand-off to
another thread is one step here, since `Handoff` says that nothing else polls
meanwhile.

**Keyboard.**  One action per key.  `Undefined` is the result of the keys that
fall off the end of `Process_Keyboard` (`keyboard.c:264`): the page takes it for
0xff or not.  In `LineEditor`, `lost` counts the characters such a result has cut
away and that BACKSPACE still has to pass over.

## 3. Runs

All pass unless marked.  States are distinct states.

| Run | Instance | States | Shows |
|---|---|---|---|
| `handoff` | LCD and 4 pages | 529 | types, one owner, never lost, shown = serving, the chosen page serves |
| `library_threads` | main, idle, LCD, 4 pages at priorities 10, 31, 1, 3 | 7 803 | `ImplementsHandoff`; the books exist before a page thread does; nobody ever waits for `lcd_mutex`; no lost wakeup; an icon brings up its page, RETURN the cover |
| `kernel_mutex` | 4 clients of 3 priorities and idle, 1 mutex, nested twice, waits and sleeps of 0 or 2 ticks, 7 ticks round the clock | 474 642 | one list per thread, most urgent runs, exclusion, inheritance, no overtaking, the timer list in order, `ImplementsAlarms` |
| `serial_line` | 4 byte values, 4 byte buffer | 210 762 | the copy is the line, the finished line is frozen, `ImplementsLineInput` |
| `circulation` | 2 cards, 3 slots, book 1 and room for book 2, bytes of 4 values | 247 016 | `OneHolder`, `ImplementsLending` |
| `circulation_faults` | 2 cards, 2 slots, book 1, bytes of 3 values, every fault | 402 470 | types, and a book is marked borrowed only if its number is on the card |
| `circulation_torn` (violation) | `circulation` with a torn return | - | finding 1 |
| `circulation_strike` (violation) | `circulation` with a lent book struck off | - | finding 2 |
| `book_stock` | 2 names, 2 books at start, 4 nodes, 6 rows | 62 345 | ring whole and sorted, count right, `ImplementsCatalogue` |
| `mem_pool` | 5 blocks of 2 bytes | 10 290 | table = holdings, `ImplementsAllocator` |
| `touch_pages` | 5 places and one beyond the panel, up to 3 fingers, idle panel asked at every 2nd scan, wrap at 4 | 305 304 | the screen changes hands by touches seen since it last did, touches end when fingers leave, a finger that stays is seen |
| `keyboard` | 1 character key, all function keys, 4 bytes | 114 600 | faces of the keys, `ImplementsEditor` |

Why the instances are enough:

* The pages of `main.c` are alike up to their names, so two tell "the chosen one"
  from "another"; the safety runs have the four that exist, and `HandoffProofs`
  and `LibraryThreadsProofs` cover any number.
* `kernel_mutex` has two threads of equal priority (order in a list, time
  slices), one above (lending) and one below (inversion), and takes nested to
  depth `MaxHold` = 2, which separates "released" from "held once less".  With
  `TickMod` = 7 and times of 0 and 2 ticks (the kernel asks for less than half
  the clock), timers are started before and after the clock's wrap, expire
  together or one by one, and meet in any order.  `MutexClientsProofs` covers any
  threads and any clock.
* `touch_pages` has an icon that is nothing else, one that shares its place with
  a choice of the change page, a key, and RETURN.  `Every` and `Last` are 10 and
  240 in the program; the run needs an interval longer than one scan and a wrap
  that comes after it, and `InputProofs` covers every value.
* `keyboard`: `InputProofs` covers any keys and any buffer; the run has room
  for a cut first character, one behind it, and one more to erase.
* `serial_line`'s buffer holds a line that is empty, partly full and one byte
  short of overflow, with `\r`, `\n`, a 0 and a plain byte in every order;
  `InputProofs` covers every length up to the 256 that `len` and `t`, which
  are `u8`, can count (the program has 200).
* `circulation` has a second card to confuse with the first, a second book that
  comes after the first, a place between two entries, a typed number that is 0
  (no digits), one that is no book's, one for each book and one (5) that meets
  book 1 only after being cut to a byte.
  `CirculationProofs` covers any cards, books and slots.
* `book_stock` has a node too few for the last row, so that `malloc` fails, and
  equal names.  `mem_pool` asks for every size from 0 to one byte more than the
  pool, from a table that was cleared or holds rubbish.  `BookStockProofs` and
  `MemPoolProofs` cover every size.

Bounds, by name: `MaxHold` (MutexClients); `rc522_num < Slots` in
`Circulation!Borrow` and, in `Remove`, a zero behind the last slot: a full block
and the byte behind it are left out; `change_id < MaxId` in
`Circulation!AddBook` and `change_id < Rows` in `BookStock!Add`: the table of
names ends there; names fit a row of the table (`Name`); `Typed`, the numbers
typed; `Ticks` (MutexClients), the times asked for; `Keyboard!Advance`, which
stops a name before the last byte of its buffer.  `W`, `Slots`, `Rows`, `RecLen`, `Blocks` and `BlockSize` are sizes of
the program (256, 16, 29, 200, 1280 or 30 720, 32), like `TickMod` (2^32),
`Every` (10), `Last` (240) and `Cells` (30), made small.

`handoff`, `library_threads` and the others check for deadlock: with the idle
thread and the touching user there is always a step.

**Fairness** (`library_threads` and `touch_pages`).  `LibraryThreads!Fairness` asks
strong fairness for the steps of a worker: a thread that is picked again and
again gets on.  The code justifies it since every loop sleeps 20 ticks in
`rt_thread_delay` and every other thread is then picked, and a time slice is much
longer than a statement.  Sleep timers fire and scheduler locks end (weak
fairness on `Wake` and `BusyWaitEnds`): `delay_us` counts SysTick and returns.
`BusyWait` and `TimeSlice` are not fair, they may happen or not.  `Touch` is one
of the disjuncts of a worker's step and not fair by itself: nobody is obliged to
touch the screen, and the two properties start at a touch that happened.
`TouchPages!TouchFairSpec` asks weak fairness for the polling loops, which run for as
long as the console is on; fingers owe nothing, and `HeldTouchSeen` starts from
one that stays.

### Faults of the card reader

`Circulation`'s constant `Faults` names what the run allows beyond a card that is
taken away and a command that fails without effect:

| Fault | Meaning | `OneHolder` |
|---|---|---|
| `torn_borrow` | `rc522.c:181`: list block written, count block not | holds |
| `torn_return` | `rc522.c:223`: the same when giving back | fails |
| `stale_read` | a card that failed to be selected or read authenticates later in the same pass | fails |
| `lost_ack` | the second write is done, its answer lost | fails |
| `reboot` | the console restarts; every book is available again | fails |
| `delete_lent` | the change page deletes a lent book | fails |

The last column was found by running `circulation` with each fault alone.  It
says what the program does *not* guarantee: nothing in it reads the cards back to
repair its list, and no comment or document claims so, which is why these are
listed here and are no findings.  `LentIsWritten` holds under all of them at once; it orders the mark
in RAM behind the write and excludes none of the failures in this table.
A torn borrow is harmless since the count, written last, decides which entries of
the list count.

### What the kernel, the touch screen and the keyboard do not guarantee

These are limits met while modelling.  No comment or document claims otherwise,
except where noted, and the properties are worded around them.

* `rt_mutex_release` calls `rt_schedule` only when it wakes a waiter.  An owner
  that was lent a priority by a thread whose wait has since timed out falls back
  to its own priority and goes on running, although something more urgent may
  be ready (`ipc.c:815`).  `MostUrgentRuns` names this exception and no other.
  The program waits for ever and cannot meet it.
* Coordinates beyond the panel are to be ignored by restoring `tp_dev`
  (`cst716.c:156`), but the `mode=0X80` beside it counts as no finger a few lines
  further down: a touch ends although its finger is still there.  The other touch
  that ends early is one of three or more fingers, once the idle interval begins.
  `ReleaseIsReal` names both.
* If both of two fingers are reported beyond the panel, the second one's place is
  used all the same (`cst716.c:152`), and it lies where RETURN does.
* The keyboard and the change page keep a touch they have seen while
  RETURN's function saw its end: when the page is opened again they act on it.
  The last row of keys ends at y = 703 and RETURN begins at 700, so that leaving the
  find page can type a key on the next visit.
* Within a page one touch may do two things, for each function acts on the last
  place it saw: a finger that goes from a line of the change page (y = 330) to
  RETURN (y = 750) may choose the line and leave the page, and one at 701 to 703
  on the find page may type a key and leave.  `HandOverByNewTouch` speaks of
  hand-overs only.
* When the find page opens, its keys show their normal characters although SHIFT
  or CAPS may still be on (`main.c:114`, `keyboard.c:224`).
* SHIFT, CAPS, SPACE and BACKSPACE return nothing defined.  A look-up may follow,
  after which the first character is gone, and the rest of the name does not
  show until it is erased or ENTER starts over.  The program recovers, which is
  what `LineEditor` says.

### Findings

1. `circulation_torn`: the loop at `rc522.c:215` ("delete this book and shift the
   books") deletes a book by moving the numbers behind it forward, up to the
   first 0.  With nothing behind it the number stays where it is, and only the
   count, one less, hides it.  In the trace a card holds [1, 2] and the return of
   1 is torn: the list [2, 0] is written, the count stays 2.  The return of 2
   then shifts nothing and writes the count 1: book 2 is available again, yet
   its number is the entry that counts.
2. `circulation_strike`: the check at `rc522.c:158` ("does the library have this
   book") is made when the number is typed and trusted until the request is
   carried out, however many passes, pages or deletions later.  The search for
   a missing book returns the list head, and once a return has written 1 into the
   head's `state` (`rc522.c:225`) the condition at `rc522.c:173` lets the number
   of a book that does not exist be lent.

## 4. Proofs

All eight proof modules check without a step left out, from the constants'
assumptions alone:

| Module | Assumption | Says |
|---|---|---|
| `Handoff` | `ThreadAssumption` | `Lcd`, `None` and the pages differ |
| `RtKernel` | `KernelAssumption` | every thread has a priority, the idle thread the last one, which nobody shares |
| `TimerList` | `TickAssumption` | the clock has at least five ticks (2^32 in the program): with three or four a timer of no ticks, served at the next tick, is half way round |
| `MutexClients` | `ClientAssumption` | finitely many threads, one mutex, times below half of the clock, which `rt_timer_start` asserts |
| `LibraryThreads` | `ThreadsAssumption` | the threads are those of `main.c` and differ; one semaphore each, one mutex; the LCD thread is above `main()` (1 and 10 in the program) |
| `SerialLine` | `SerialAssumption` | `CR`, `LF` and `Zero` are bytes, `CR # LF`, `RecLen \in 1..256` |
| `Circulation` | `CirculationAssumption`, `LendingAssumption` | a block has at least 2 slots and fewer than a byte counts, the numbers of books are bytes, `Faults` are faults, no card is called like a place |
| `BookStock` | `StockAssumption` | there is a book at start, the names fit the table, a row's number is a byte |
| `MemPool` | `PoolAssumption` | 1 to 65535 blocks of at least one byte, `NULL` is no number |
| `TouchPages` | `PanelAssumption` | points are pairs, `Wild` lies below the panel, `1 < Every <= Last` |
| `Keyboard` | `KeyboardAssumption` | a buffer of at least one byte, no key types NUL |

**HandoffProofs**, for any set of pages: `TypeCorrect`, `ExclusiveScreen`,
`HandoffNeverLost`, `ServingIsShown`, `ServedAsChosen`.  The argument is a baton:
the right to the screen is with one active thread or is the single unit of one
semaphore.  `Inv` joins the five checked invariants with three parts that make
them inductive: nothing has moved before the LCD thread starts (`BeforeLcd`), the
index names the page the baton is with or on its way to (`Chosen`), and a thread
that has drawn stays on the LCD until it gives the baton away (`Drawn`).
`OneOwner` and `NeverLost` together say that there is exactly one baton; each
alone is not inductive, for a take or a release only preserves "at most one" if
it is known that the unit taken was the only one.  Steps that do not move the
baton share the lemma `BatonStays`.

**InputProofs** holds the proofs of three modules that share no state.

`SerialLine`, for every byte set and buffer length up to 256: `SerialTypeCorrect`
(no byte is written behind the buffer), `ReaderUndisturbed`
(`ReaderSeesWholeLine`), `LineFrozen` (`FinishedLineFrozen`) and
`LineInputRefined` (`ImplementsLineInput`).  `SerialTypeOK` and
`ReaderSeesWholeLine` are inductive together: bit 15 stays set while the reader is
past its check, and while it is set the handler stores nothing.  The refinement
maps the stored bytes to the line and the two flag bits to its phase; the
reader's own steps stutter up to the clear, at which the invariant says that the
copy equals the buffer.

`TouchPages`, for any places and any intervals: `TouchTypeCorrect`,
`NewTouchesHandOver` (`HandOverByNewTouch`) and `ReleaseReal` (`ReleaseIsReal`).
`HandOverByNewTouch` says of the functions that hand the screen over, the cover's
and RETURN's, that they start each turn without a touch of an earlier one; it is
not inductive: that the cover remembers nothing of a page's touch needs that
only the cover's function polls while the cover has the screen (`PollsItsPage`),
and that a touch ends only after the idle interval needs that the counter was
wrapped before each scan (`CounterWrapped`).  `SeeKeepsInv` says it once for every
function, whatever a scan found; the three kinds of scan only say what they found.

`Keyboard`, for any keys and any length of the buffer: `KeyboardTypeCorrect`,
`NameTerminated`, `FacesAgree` (`FacesFollowMode`) and `LineEditorRefined`
(`ImplementsEditor`).  The invariant `Ended(rec_buf, i)` says that the byte at `i`
is NUL and that none between the first and that one is; the first may be, after
a cut.  `StringOfBuffer` concludes what the C string of such a buffer is - nothing
or everything that was typed - and `PutEnds`, `EraseEnds` and `LookUpEnds` say how
typing, erasing and cutting change it, which are the steps of `LineEditor`.

**RtKernelProofs**, for any threads and priorities, are the lemmas that
`MutexClientsProofs` and `LibraryThreadsProofs` share.  First lists: `TakenOut`,
`InsertedInOrder` and `Dropped` say what removing a node, inserting one in its
place and cutting a list off do to its members and its order.  Then the
scheduler: `Fit(s)` says that every ready list holds the ready threads whose
priority now is its own, each once, and that the idle thread is ready; `Picked(s)`
that a thread of the most urgent priority runs.  `Dispatch` proves that
`rt_schedule` establishes the second from the first, and one lemma per kernel
call (`StartUp`, `Woken`, `Resumed`, `Blocked`, `Delayed`, `Exited`, `Yielded`,
`Unlocked`, `PriorityChanged`) what it does to both and to the state and the
priority of one thread.  `Enqueued` says that `rt_ipc_list_suspend` keeps waiters in
the order of their priorities.

**MutexClientsProofs**, for any finite number of threads and priorities, any times
below half of the clock and any clock: every safety and action property of
`kernel_mutex` and its refinement, `ListedOnce` (`OneList`), `WakeupsKept`
(`NoLostWakeup`), `Exclusion` (`MutualExclusion`), `NoInversion`
(`NoPriorityInversion`), `LoansReturned` (`PriorityGivenBack`), `TimersWhole`
(`TimersSound`), `NoneOverlooked` (`MostUrgentRuns`), `NobodyOvertakes`
(`NoOvertaking`) and `Refinement` (`ImplementsAlarms`).  None of them is inductive
alone: who may run is told by the priorities, these by the waiters, these by who
is suspended, and that by the timers.  `Inv` has four parts.  `Standing(t)` says
that the kernel's lists and the place of `t` in its calls tell the same:
suspended means inside a call and not yet late, among the waiters means suspended
in `rt_mutex_take`, and a waiter made ready without being late has the mutex
already.  `Owned` says that waiters are in the order of their own priorities
and the owner is as urgent as each of them, which makes inheritance and the
order of the hand-over one fact.  `Scheduled` says `Picked` only while somebody
waits: `MostUrgentRuns` names the case in which it fails otherwise, and the proof
shows that it is the only one.  `Timed` says that the list has just the armed
threads, sorted by `DueIn`, the way forwards from now to each timer's tick, and
none half the clock away; measured so, no comparison wraps, and `LaterIs` and
`DueAfterTick` translate the unsigned ones of `timer.c`.

A tick may serve any number of timers.  `Served` is a recursive function over the
natural numbers, which nobody may assume to exist: `Unrolled` shows it by taking
the least length at which no beginning of it existed or two differed.
`Reached(s, w, woken, v)` says what the kernel `s` and the waiters `w` have become
when the threads in `woken` have been woken, in whatever order, and
`ServedReaches` gets to all of the expired ones.  The refinement maps the ticks
left of a timer to its alarm; a take or sleep sets one, a hand-over cancels one,
and `AlarmTick` counts all of them down and rings those that end.

**LibraryThreadsProofs**, for any pages and any priorities with the LCD thread
above `main()`: `TypeCorrect`, `BooksFirst` (`BooksBeforePages`), `MutexFree`
(`MutexNeverContended`), `WakeupsKept` (`NoLostWakeup`), `ListedOnce` (`OneList`)
and `Refinement` (`ImplementsHandoff`).  `Inv` joins `Fit` and `Picked` with
`Asleep` (who is suspended waits for its own semaphore with its timer off or
sleeps with its timer on), `Booted` (the threads exist in the order `main()` starts
them) and `Baton` (one thread is past its semaphore, or was handed its unit, or
will find it).  `BooksBeforePages` follows from the strict priority alone: when
`main()` runs, the LCD thread is not ready, so it sleeps or waits, and both come
after `book_system_init()`.  `MutexNeverContended` is not inductive without the
baton, for nothing else keeps two threads out of `rt_mutex_take`; with it the mutex
is free at every take, so no priority is ever lent and those of `InitPriority`
stay, which `Kernel` says.  In the refinement a unit handed to a woken thread
(`Handed`) counts until that thread runs, a blocked take has not moved, and what
scheduler and clock do is not seen.

**CirculationProofs**, for any cards, books and sizes: `TypeCorrect` (counts and
entries stay bytes; that a count stays within the block is not claimed, and a
count of 0 that meets a number of loans read before goes round to 255) and
`MarkedWhenWritten` (`LentIsWritten`) under every fault; `OneHolderAlways`
(`OneHolder`) and `Refinement` (`ImplementsLending`) when no fault but
`torn_borrow` occurs, which is where the table above says they hold.  `Inv` joins
`HeadLent` (the list head's state is 0, so that a number no book has is not lent),
`Ledger` (every entry that counts is a lent book, none stands twice on any cards,
and every lent book stands on one) and `Pass`, which says for each step of `Bo_Re`
what RAM holds compared with the card that answers.  The first entry behind the
count may be of any value - that is what a torn loan leaves - and the next loan
overwrites it; zeros follow.  `TakenOff` and `PutBehind` are what the shift loop and the
append do to the entries.

**MemPoolProofs**, for any number and size of blocks: `MapAlwaysAgrees`
(`MapAgrees`) and `Refinement` (`ImplementsAllocator`).  `Sound(map, live)` says that
each allocation's blocks are marked with their number (`Marked`), that no two
overlap (`Apart`), and that a marked block is some allocation's (`Accounted`).  It
is a predicate of any table and any allocations, so that `Taken` and `GivenBack`
apply to the tables between the `mymalloc` and the `myfree` of `myrealloc`.
`MallocFinds` is the downward search: it returns the highest run that is free,
and NULL only if there is none.

**BookStockProofs**, for any nodes, names, books at start and rows: `TypeCorrect`,
`RingWhole` (`RingSound`), `CountCorrect` (`CountMatches`) and `Refinement`
(`ImplementsCatalogue`).  `Ring(nd, h, n)` says that following `next` from the head
`n` times returns to it, passing every node once, with `prev` its inverse;
`Linked` and `Unlinked` are the pointer surgery of `create_book_item` and
`delete_book`, ends of the ring included.  `Numbered` adds that the numbers ascend
and that none exceeds the last one given out, which makes the search find the
one node a number has.  The refinement reads the ring as a sequence
(`BooksAppend`, `BooksRemove`, `BooksMark`).

Where a proof needs a least or a greatest number (the downward search, the
first free place, the first node found, the first longer wait), the lemma `Least` takes it from the
well-foundedness of strict inclusion on finite sets, since induction on naturals
needs an operator as parameter.

Only model-checked: liveness (`ChoiceServed`, `ReturnReachesCover`,
`HeldTouchSeen`), for fairness and ENABLED are out of the prover's reach.  Every
invariant, action property and refinement of a passing run is a theorem.  The two
violation runs show what does not hold, so there is nothing to prove of them.

## 5. Not modelled

Overlong names: `name` has 30 rows of 20 bytes, `rec_name` 30 bytes, a line up to
199, and nothing compares them (`main.c:230`, `main.c:234`); a loan beyond the 16
bytes of a block (`rc522.c:175`); a thirtieth character typed into `rec_buf`
(`keyboard.c:259`).  Memory past the end of an array has no
state here, so the runs stop at the bounds above.  The memory pool is used from
one thread at a time only because the screen is (`OneOwner`).

Code the build contains but the program never reaches: the calendar (`rtc.c`),
key and timer interrupts (`exti.c`, `time.c`, `KEY_Scan`), the menu (`menu.c`), the
resistive panel with its filter, calibration and EEPROM record (`touch.c`,
`24cxx.c`; the build selects a panel with a CST716), and of RT-Thread events,
mailboxes, message queues, timed semaphores, periodic and soft timers and every
deletion.  A model of it would say nothing of this console.

Pixels, fonts,
the window toolkit, sensors, vendor libraries and the finsh shell hold no
state the properties are about.

## 6. Plan

Done: the threads and their kernel, the serial line, loans, the list of books,
the memory pool, the kernel's timers, the touch screen, the keyboard, and the
proofs of section 4.

Next modules: `DelayUs`, the count of SysTick laps with its scheduler lock
(`SysTick.c`), and the register protocol of the RC522 below `PcdRequest`,
`PcdRead` and `PcdWrite`, whose time-outs decide which commands fail.

Next proofs: more than one mutex, where each restores the priority it saw; then
`PriorityGivenBack` needs the order in which mutexes are nested.
