# shdsl-bridge: a TLA+ model of its kernel, its drivers and its application

The repository is the firmware of an SHDSL bridge on an STM32F107: an
application (`src/utility/shdsl`), drivers and a TCP/IP stack on top of the
RT-Thread kernel (`src/src`, version 1.2). Everything the application and the
drivers do, they do in threads and interrupt handlers that meet in the
kernel's scheduler and IPC objects, so the kernel is the core of this
development. On top of it are the memory manager, the timers, the serial and
Ethernet paths, the driver of the DSL chip, and the application's own threads,
which configure the chip and follow the state of its line. The development
consists of TLA+ modules translated from the C sources, TLC configurations that
check them on small instances, and proofs for TLAPS about the scheduler, the
thread life cycle, semaphore, mutex, event, mailbox and message queue, the
timers, the memory manager, the Ethernet path and the driver of the DSL chip.

`PROJECT.json` maps every definition to the lines it models, lists runs,
faults (a fault is an operator that is a plausible bug of the one after it,
each used to see that a property can fail), findings, hazards and theorems.

## 1. The system

### Components, their state and their operations

| component | source | state | operations | what makes it correct |
|---|---|---|---|---|
| scheduler | `src/src/scheduler.c` | a ready list per priority, the bitmap of non-empty lists, the current thread, the lock nesting, the defunct list | `rt_schedule`, insertion and removal of a thread, enter and exit of a critical section, start | lists and bitmap agree with the threads' states; a switch goes to the most urgent ready thread and never happens in a critical section |
| threads | `src/src/thread.c`, `idle.c` | per thread: state, current and initial priority, error, one list node, one timer | create, start, sleep, suspend, resume, yield, change of priority, exit, delete, timeout; clean-up by the idle thread | a thread is on one list at a time; a timer runs only for a suspended thread; a closed thread never comes back; round robin |
| clock, timers | `src/src/clock.c`, `timer.c` | the tick, a sorted list of timers, flags and deadlines | tick, start, stop, control, detach, expiry with callbacks | timers go off on time and in order across the wrap-around of the tick; a pending timer can be stopped; the interrupt returns |
| waiting lists | `src/src/ipc.c` 70-205 | one list per object, FIFO or by priority | suspend, resume first, resume all | every waiter is resumed exactly once |
| semaphore | `ipc.c` 207-531 | a value, a waiting list | take, release, reset, detach | a permit is acquired once for each one posted; nobody waits while there is a permit |
| mutex | `ipc.c` 534-893 | value, owner, nesting, the owner's original priority, a waiting list | take, release | mutual exclusion; priority inheritance and its end |
| event | `ipc.c` 895-1267 | a set of flags, waiting threads with the flags and options they ask for | send, receive, reset | nobody sleeps through its event; a flag is consumed once |
| mailbox | `ipc.c` 1269-1722 | a ring of mails, lists of waiting receivers and senders | send, receive, reset | first in, first out; no lost wake-up |
| message queue | `ipc.c` 1724-2321 | slots linked into a queue and a free list, waiting receivers | send, urgent send, receive, reset | slots are neither leaked nor shared; order of delivery |
| memory | `src/src/mem.c` | a chain of headers, the lowest free block, statistics | allocate, free, reallocate | blocks tile the heap; none leaks or is shared |
| data queue, completion | `components/drivers/src/*.c` | an array with 16 bit indices, waiting lists of readers and writers, a flag | push, pop, wait, done | no lost wake-up, bounded order |
| ring buffer, pipe, portal | `components/drivers/src/*.c` | two indices with mirror bits, a pool of bytes, waiting lists | put, get, read, write | a bounded byte queue; used by no driver of this firmware |
| serial driver, shell input | `components/drivers/serial`, `bsp/stm32f107/drivers/usart.c`, `finsh/shell.c` | transmit queue and register, receive ring, `rx_sem` | write by DMA or interrupt, read, handlers | characters in order, the oldest dropped first; whoever waits is served |
| Ethernet driver and interface, uIP glue | `bsp/stm32f107/drivers/stm32_eth.c`, `components/net/uip/rt-thread` | receive and transmit descriptors, the semaphores `tx_buf_free` and `tx_ack`, the mailboxes of erx and etx, blocks of memory | handler, input, output, the uIP thread's own sending | a message outlives its use; permits are covered by descriptors; no frame is stranded; a block is freed once |
| SHDSL chip driver | `components/drivers/shdsl`, `utility/shdsl/src/drv_pef24628e_common.c` | state of a download, the last answer, the receive FIFO | download with retries, message in and out | success only with complete images; messages in order, reception goes on |
| SHDSL application | `utility/shdsl/src/rt_shdsl.c`, `configmanage.c` | mode, rate and line status, `g_config`, the flags `g_init_finished` and `g_configed`, mailbox `g_mb`, lock `g_sh_lock` | a polling thread (shp), a state machine thread (shs), initialisation as CO or CPE, commands of the shell | when all is handled, line status, Ethernet port, parameters and chip agree; a configuration is applied |
| web server | `utility/webserver` | `g_config` is its view of the parameters | the configuration form, the status page | modelled where it touches the application; text processing and pages are not |
| SPI bus, memory pools, workqueue, device framework | `components/drivers/spi`, `src/src/mempool.c`, `device.c` | - | - | not modelled: no concurrency of their own, or no user in this firmware |
| uIP stack, interpreter of the shell, vendor libraries | `components/net/uip/uip`, `components/finsh`, `bsp/.../Libraries` | - | - | not modelled: third-party code, parsing, registers |

### How they interact

* Threads call the kernel; the kernel's functions disable interrupts around
  their list operations and enable them again before `rt_schedule()`. What
  happens in those gaps is what the models are about.
* Handlers run to completion between two steps of a thread. They may release a
  semaphore, send an event, a mail or a message; a switch they ask for happens
  when they return. The tick handler ends the time slice and runs the callbacks
  of expired thread timers (`rt_thread_timeout`).
* A waiting call of any object is the same protocol: clear `thread->error`,
  `rt_thread_suspend`, link the thread's only node into the object's list,
  start the thread's only timer, enable interrupts, `rt_schedule()`, look at
  `thread->error`. The thread can be resumed, time out or be preempted between
  any two of the last four.
* shp, shs, the shell and the web server send commands to the chip and read its
  messages in one function, `rt_pef24628_poll`, under `g_sh_lock`. Whoever reads
  mails what shs has to see to `g_mb`, so an event may be read, and mailed or
  dropped, by any thread that waits for an answer of its own.
* The Ethernet handler mails erx and releases `tx_buf_free`. erx reads the
  frames, has uIP process each, and hands the answer to etx in a message on its
  own stack; etx takes a permit, fills a descriptor and acknowledges. The uIP
  thread sends from its timers by itself, past etx and without a permit.
* Writers of the serial device queue what the end-of-transfer interrupt feeds
  to the channel; the receive interrupt fills the ring and releases `rx_sem`,
  which the shell waits for.

### Behaviours that are hard to test

The list `hazards` of `PROJECT.json` has each one at its line. In short: a
time-out that races with a wake-up; a wake-up between the enabling of
interrupts and `rt_schedule()`; a woken thread that is overtaken; values read
with interrupts enabled and used later (`rt_ipc_list_resume_all`,
`rt_timer_stop`, `rt_timer_control`); operations made of several critical
sections (`rt_thread_delete`, `rt_mq_send`, `rt_realloc`); priorities inherited across
several mutexes; counters and indices at their limits. In the drivers: interrupts that are
merged or cleared too late; a message on the stack of a thread that waits for
its acknowledgement; one memory allocation of several failing; answers of the
chip that are lost, refused or late. In the application:
answers that come after their command was given up; link events in and around
an initialisation, and mails older than it; a mailbox that is full; parameters
that one thread writes and another reads field by field.

## 2. The modules

    Kernel ------- Processor ---+-- Threads ------ MCThreads
      |                         +-- Semaphore -+-- MCLocks   (implements CountingSem)
      |                         +-- Mutex -----+
      |                         +-- Event -------- MCEvent
      |                         +-- Mailbox ---+-- MCQueues  (implements MailQueue)
      |                         +-- MessageQueue   (implements MailQueue)
      |                         +-- Serial ------- MCSerial
      |                         +-- Net ---------- MCNet
    Timer -------------------------------------- MCTimer     (implements AlarmClock)
    Heap --------------------------------------- MCHeap
    ChipDriver --------------------------------- MCChipDriver (implements MailQueue)
    Shdsl -------------------------------------- MCShdsl

and of the proofs, each of which also extends the modules it is about:

    ListProofs ---+-- KernelProofs ---+-- ThreadsProofs    (Threads)
                  |                   +-- LocksProofs      (MCLocks)
                  |                   +-- IpcProofs        (Event, Mailbox, MessageQueue)
                  |                   +-- DriverProofs     (Net, ChipDriver, Serial)
                  +-- TimerProofs                          (Timer)
                  +-- HeapProofs                           (Heap)

**Lists** has the doubly linked lists of `rtservice.h` as sequences: `Unlink`
and `LinkAt`. Kernel, Timer and AlarmClock extend it.

**Kernel** has the globals of the kernel as one record `k` (`stat`, `prio`,
`error`, `timer`, `ready`, `group`, `wait`, `defunct`, `cur`, `nest`, `gone`)
and every C function that runs with interrupts disabled as an operator from
record to record, so a caller is the composition of the functions it calls,
as in the code. `group` is the bitmap as the set of its bits, `timer` the set
of threads whose timer is activated, `wait` the suspended lists, `cur` the
current thread. `number_mask` is not a field: `thread.c` always assigns it
together with `current_priority`.

**Processor** adds what every model of kernel calls shares: `pc`, the place in
a kernel call where each thread is; the rule that only `sys.cur` takes thread
steps; start-up; the tick (`TickYield`, `TimerExpires`); and the common
halves of blocking calls (`WaitOn`, `Schedule`, `ResumeAll`). One step is one
stretch of code with interrupts disabled, plus the code before it that touches
nothing shared. Interrupts fit between any two.

**Threads** is the thread life cycle. `rt_thread_delete` and
`rt_thread_detach` are three steps because they unlink, stop the timer and
insert into the defunct list in separate critical sections. `Block` and `Wake`
stand for the wait and the wake-up of any IPC object.

**Semaphore, Mutex, Event, Mailbox, MessageQueue** have one action per call or,
for a call that blocks, one up to `rt_schedule()` and one after it. Mailbox and
message queue receivers loop: after a wake-up they look again and may wait
again with what is left of their time-out. `rt_mq_send` is two steps, as its
copy is made with interrupts enabled; `rt_sem_detach` is one step per test and
per resumption, as `rt_ipc_list_resume_all` enables interrupts between them.
MCLocks and MCQueues each let the threads use either of two objects. They
extend both, so that what is proved of each is about the checked system too.

**CountingSem**, **MailQueue** and **AlarmClock** are the abstract
specifications: permits that are posted and acquired; a bounded first-in
first-out queue whose urgent mails go to the front; timers that go off in the
first tick at which their time is up, in the order of their deadlines.
`CountsPermits` maps `avail` to the value of the semaphore plus the permits
handed to threads that have not returned yet; `FirstInFirstOut` and
`DeliversInOrder` map `queue` to the contents of the ring and of the linked
list of slots, `MessagesInOrder` to the messages in the chip driver's FIFO;
`FiresOnTime` maps the time left of each timer to the signed distance, modulo
the width of the tick, of its deadline from `rt_tick`.

**Timer** has the sorted list, the deadlines and flags of user timers. Each
timer has an owner whose calls are cut wherever interrupts are enabled
(`rt_timer_start` is three steps, `rt_timer_stop` three, a change of the flag
byte by `rt_timer_control` two). The tick interrupt is a sequence of steps that
no owner interrupts, one per expired timer (`Expire`), whose callback may stop
or restart the timer.

**Heap** has the headers of the heap by offset; a header that was merged away
leaves the domain, so that a stale pointer to it is an error. A step is what
happens under `heap_sem`. `rt_realloc` that moves a block is three steps
(`rt_realloc`, `MoveMalloc` or `MoveRefused`, `MoveFree`), since it gives the
semaphore back in between.

**Serial** is the serial device in three paths that share no state: writing by
DMA over the data queue (`_serial_dma_tx` ... `DmaDone`), writing by interrupt
with the completion (`_serial_int_tx` ... `TxDone`), and reception, where the
handler itself is several steps because characters arrive while it runs
(`USART_IRQHandler`, `RxStore`, `RxIndicate`, `RxClear`, `RxLeave`), with the
shell as the reader.

**Net** composes the Ethernet driver, the erx and etx threads and the uIP
thread on Processor. The DMA engine and the handler take steps between any two
steps of the threads, and the engine also between those of the handler, which
is where interrupts get merged. `mem` counts how often the block of the current
frame is freed. Semaphores and mailboxes act as their own models promise.

**ChipDriver** is `rt_shdsl_init` as the sequence of frames that the download
functions send (`Script`), each transmitted, awaited, repeated or given up
(`Transmit`, `ReceiveAck`, `AckMissing`, `WaitCrc`), and the messages of the
started firmware. The chip is external: RAM, control bits, a CRC over what it
has in its RAM.

**Shdsl** is the application: shp, shs and the threads of the shell and the web
server. A thread's calls are the sequence of steps it has left (`th[t].todo`):
commands to the chip, each a write under the lock (`Write`, `WriteFails`)
followed by `Receive` for every message read and `NothingPolled` when there is
none, and the assignments between and after them (`FinishInit`, `ForceLink`,
`ApplyRate`, `ApplyMode`, `SetMaxrate`, `rt_sendmb`). `Dispatch...` is
`rt_msgdispatch`, one action per kind of mail. The mailbox and the lock are
taken by what their own models promise: a bounded queue that a send does not
wait for, and mutual exclusion. The chip (`Executed`, `LinkUp`, `LinkDown`) is
external: it executes a command, answers or not, and reports changes of the
line. `event` records what the code did with the last of these reports, so that
properties can name the exceptions the code makes.

### Modelling assumptions

* Threads block only outside critical sections (`nest = 0`). Inside one,
  `rt_schedule` does nothing and a blocking call returns at once without what
  it waited for; this is the kernel's rule of use, and a listed hazard.
* In the models on Processor a running thread timer may expire at any later
  tick: the value of the tick and the order of timers are abstracted. Fewer
  expiries are possible in the code, never more. Timer has both.
* Handlers do not nest. A handler that interrupts a handler only finds
  interrupts enabled between kernel calls of the interrupted one, so it acts
  like one that runs before or after it, but for the deferred switch.
* `rt_sem_take` with a time-out of zero is `"none"`, a negative one
  `"forever"`, a positive one `"timed"`.
* `thread->error` has the values the kernel stores in it; what callers leave in
  it besides is not read by the modelled code.
* In Threads any thread may be deleted at any moment, asleep, waiting, running
  timer or not, in the middle of a deletion of its own. When its timer expires
  before `rt_thread_delete` has stopped it, it is back in a ready list, and the
  last step of the deletion may then take the only list node of a thread that
  is still linked, or that has exited meanwhile. From there on the lists of the
  code are no lists; the model notes it (`Torn`) and ends. The history variable
  `back` holds the threads that came back in this way. A thread whose deletion
  has begun is not started, deleted again, or given another priority by others.
* `DetachQuiescent` says that an object is detached when its waiters have no
  running timers, and is then used by nobody else. The code assumes so without
  checking; section 5 says what happens otherwise.
* In Timer an owner that has computed a deadline is kept from inserting it for
  at most `Delay` ticks, as `rt_timer_start` computes it with interrupts
  enabled; periods are at least one tick; callbacks of one-shot timers do not
  restart their timer (`OneShotRestart` is FALSE; see section 5).
* In Heap threads free and reallocate only blocks they hold, once. Requests are
  far below the range of `rt_size_t`.
* In Serial any number of threads write, and `put_index` and `get_index` wrap.
  Only one thread may wait on a completion: where the assertion that says so
  fails, the system halts (`Halted`). The board opens its
  console for reception by interrupt and writes to it by polling: writing by
  DMA and by interrupt are checked as what the driver offers. The registers
  behave as the manual of the microcontroller says: a character that arrives
  on a full receive register is lost and sets ORE.
* In Net what `uip_process` leaves in `uip_buf` is left out: a frame has an
  answer or not. The priorities are those of the code (uip above erx and etx,
  which share theirs). SysTick has the lowest interrupt priority and does not
  run inside the Ethernet handler. `MaxDirect` bounds how often the uIP thread
  sends by itself, as each time may add one permit for good.
* In ChipDriver frames and answers are lost, refused or late, never corrupted:
  their own CRC is checked by the byte protocol, which is left out. A frame
  that the chip refuses is not executed.
* In Shdsl the priorities of the threads (shp 10, shs 11, uip 12, finsh 20)
  decide who may run (`MayRun`): a thread of the shell or the web server goes on
  only while shs sleeps, waits for a mail, or waits for the lock that thread
  holds. shp's poll is one step, since nothing preempts it.
* Of the commands of an initialisation the ones that a property tells apart are
  kept: reset, the profile with the rate, and the activation in a mode, plus the
  status request of a CPE. The others fail and are answered in the same way. A
  rate is a model value; its unit and the bounds that the form checks are data.
* The shell's reinitialisation is an option of the module (`Shell`) that no run
  uses: from a thread less urgent than shs it can be preempted between filling
  in a command and taking the lock, and `ChipConfigured` fails then. The hazard
  of `ChipConfigured` in `PROJECT.json` says so.

## 3. The runs

| run | instance | what it shows |
|---|---|---|
| `threads` | t1 urgent, t2 and idle of one priority, two waiting lists | ready lists, bitmap, waiting lists and timers agree with the thread states at every instant interrupts are enabled, through deletions at any moment; closed threads stay out, but one whose timer expired while it was being deleted; switches go to the most urgent ready thread; threads of one priority take turns |
| `locks` | three threads of three priorities, handlers; a semaphore that the most and the least urgent one may detach, or a mutex taken up to twice | the semaphore implements `CountingSem`, has no waiter while there is a permit, no time-out of a wait without one, and serves every waiter (FIFO); mutual exclusion as the callers see it, inheritance and its end |
| `event` | three threads, two flags, AND, OR and CLEAR | no thread sleeps through its event or gets flags it did not ask for; a flag is consumed once |
| `queues` | two threads, handlers; a mailbox or a message queue of two slots, two mails, one of them urgent in the message queue; or three threads and a mailbox with mails that are all alike | bounded first-in first-out queues without lost wake-ups; mails are fetched; slots are divided among queue, free list and callers |
| `timer` | two timers, a tick of ten values, periods of one and two ticks | implements `AlarmClock` across the wrap-around; pending timers can be stopped; the tick interrupt returns |
| `heap` | two threads, 112 bytes, requests of 0, 1 and 40 bytes | headers tile the heap without free neighbours, the search starts at a usable block, every used block has one owner and its size |
| `serial` | two threads that write, one of them reads, a data queue of four whose indices have eight values, a ring of three, nine buffers and more or five characters | nobody sleeps without a step owed to him; the ring drops its oldest character only; who has the device for himself is served |
| `net` | erx, etx, uip and idle, two descriptors each way, mailboxes of one, memory that may be missing | a message on erx's stack outlives its use; permits are covered by free descriptors; no frame is stranded; every hand-over is acknowledged and its blocks are freed |
| `net_free` | the same | a block is freed twice when there is no memory for an answer: a finding |
| `chip` | two blocks per image part, two tries, three rounds for a CRC, a FIFO of three, one late answer | success is reported only with both images complete in the chip; messages in order, and on after the FIFO was full |
| `shdsl` | shp, shs and one more thread, two rates, a mailbox of one, commands that cannot be written or whose answers come too late, a line that goes up and down | the lock is held exactly by who waits for an answer; when all is handled, line status, Ethernet port, parameters and chip agree, except where the code drops an event or a command failed |
| `shdsl_config` | the same with one rate, a mailbox of two and commands that are not answered | a mailed configuration is applied, whatever the chip reports meanwhile |

**Bounds.** Two or three threads and the idle thread give an owner, a waiter
and a third one that overtakes or is overtaken; every race the code can meet
is between a caller, another caller and an interrupt, and interrupts are not
bounded. In `queues` the third thread, as urgent as the first, takes part on one object only
(`CrowdNext`), whose mails are all alike: there a woken receiver is overtaken
while another one waits.
`PRIORITY_MAX` is 2 to 4 so that lists of one and of two threads,
and empty lists between them, occur. `MaxNest` (2) bounds nested critical
sections, past the only boundary, 1. `MaxValue` (2) bounds the value of the
semaphore: the code tells only zero from more. `MaxHold` (2) bounds the nesting
of a mutex: inner and outer release. `Size` (2) lets the rings wrap, be full
and be partly full. `NewPriority` bounds what a change of priority may set.

Timer: ten values of the tick (2^32 in the code) with periods of one and two
and a delay of one keep all deadlines within half the range, as the comparison
needs, and every step happens on either side of the wrap-around; two timers are
the pairs that the insertion compares. Heap: with headers of 16 bytes, 112
bytes hold up to three blocks of the smallest size, or a large and a small one,
so that blocks have a free or a used neighbour on either or no side, do or do
not split, and fill the heap; 40 is large enough to be shrunk. Serial: `Size` 4
(8) and `Lwm` 2 (4) so that a pop passes the mark before the queue is empty,
and two writers can both sleep on it; calls are made until `MaxPush` (9) buffers
were queued, more than `IndexWrap` (8, 2^16 in the code), so that `put_index`
wraps and a full queue is no longer recognised, see section 5; the ring of 3
(64) is filled and overrun by `MaxChar` (5). Net: two receive descriptors (4), two transmit
descriptors (2), mailboxes of one, so that a second interrupt finds the mailbox
full. Chip: `Retries` (3) is 2, `CrcPolls` (10 or 100) is 3, so that a CRC is
found at once, later or not; `REC_FIFO_BLK_NUM` (20) is 3.

In Shdsl, `MbSize` (32 in the code) is 1, so that mails are lost often, or 2, so
that a mail waits behind another; `Retries` (99) is 2, so that an answer is
found at once, after another message, or not at all; `MaxOut` is the number of
messages from which on the chip reports no change of the link; a command is sent
up to and including that number. With 2, a command's answer may lie behind more
messages than are read for it, and is then found by the next command, also by
one of the same kind. `Faults` says what may go wrong in a run. `shdsl` needs no
late answers besides those just described, as a poll that finds nothing to read
yet leaves its answer behind in the same way, and no lack of memory, as a full
mailbox loses a mail as well. Rates are symmetric in `shdsl`, threads in `heap`.
What these bounds keep out of reach (65536 pushes, 256 nested takes) is
among the hazards, with a note.

**Deadlock** is checked in every run but `chip`: interrupts can always happen,
so it only says that no model runs into a dead end of its own. The driver of
`chip` may stop: a failed initialisation is not repeated.

**Fairness.** `Threads`: strong fairness of the tick that ends a time slice
outside a critical section (`rt_thread_yield` calls `rt_schedule`, which does
nothing inside one; a clock that only ever hit critical sections would let a
thread keep the processor), and weak fairness of a thread's step inside a
kernel call or out of a critical section. `Semaphore`: weak fairness of the tick and of steps inside calls.
`Mailbox`: the same, but strong for the steps inside calls, since a tick may
take the processor away before each of them: a time slice is longer than a
step. Nothing is assumed about what threads decide to call. `MailFetched` assumes of
its threads that none stays outside of the kernel for ever with the processor:
there is no time slice that would take it from the most urgent thread, so the
code promises nothing to the others then. `RoundRobin` also assumes that the thread stays ready at the running priority, that critical
sections end, and that its own priority is not set again and again, which
would move it to the tail each time. `Timer`: weak fairness of `rt_timer_check`
alone, a handler that was entered. `Serial`: weak fairness of the hardware and
the handlers, strong fairness of a thread inside a call, for the reason given
for the mailbox; `Served` speaks of a thread that is the only one inside a call
of the driver while no other computes for ever (`Alone`), since a writer that
pushes again and again may keep another one at the back of the queue. `Net`: weak fairness of the transmitting engine and of the
handler; strong fairness of the expiry of etx's time-out, of erx and etx
together and of the uIP thread: the uIP thread sleeps between its polls and
leaves the processor to the others, and the two share a priority. No frame need
ever arrive. `ChipDriver`: weak fairness of the download and of shp's polling
and reading; nothing of the chip. `Shdsl`: weak fairness of shs, of shp's
polling and of a thread that holds the lock, as these never block there and shs
is preempted by shp alone; strong fairness of shs taking the lock, which it is
handed when it is released, being the most urgent thread that waits for it.
Nothing is assumed about the chip, the shell or the web server.

## 4. What is proved

The theorems hold for every value of the constants that the named assumptions
of the modules admit: any numbers of threads, objects and priorities, any size
of the heap and of the requests, any number of descriptors, any size of the
serial rings, any width of the tick, images of any length. TLC evaluates the
assumptions in each run, and checks the properties on its instance.

| module | theorem | property | also assumes |
|---|---|---|---|
| ThreadsProofs | `ThreadsSafe` | `TypeOK`, `ReadyQueueOK`, and the next two | |
| | `WaitersSuspended` | `SuspendedOK` | |
| | `ClosedStaysOut` | `ClosedNotScheduled` | |
| | `SwitchesToHighest` | `SwitchToHighest`, an action property | |
| LocksProofs | `TimeoutsAreAskedFor` | `NoSpuriousTimeout` | |
| | `PermitsReachWaiters` | `PermitNotWithheld` | `DetachQuiescent` |
| | `SemaphoreCounts` | `CountsPermits`: it implements CountingSem | finitely many threads |
| | `MutualExclusion` | `HeldByOne` | |
| | `OwnerIsRaised` | `OwnerInherits` | `Single`, `MutexFlag = "PRIO"` |
| | `InheritanceEnds` | `RestoresPriority` | `Single` |
| IpcProofs | `NobodySleepsThrough` | `NoWaitSatisfied` | |
| | `FlagsHandedOver` | `HandedOver` | |
| | `FlagsConsumedOnce` | `ConsumedOnce`, an action property | |
| | `MailNotOverslept` | `NoLostWakeup` | |
| | `MailInOrder` | `FirstInFirstOut`: the mailbox implements MailQueue | |
| | `MessageSlots` | `MqTypeOK`, `SlotsDivided` | |
| | `MessageNotOverslept` | `NoLostMessage` | |
| | `MessagesInOrder` | `DeliversInOrder`: the message queue implements MailQueue | |
| TimerProofs | `ImplementsAlarmClock` | `FiresOnTime`: it implements AlarmClock | |
| | `PendingStops` | `PendingCanBeStopped` | no `OneShotRestart` |
| HeapProofs | `HeapTiled` | `Tiled` | |
| | `LfreeAlwaysUsable` | `LfreeUsable` | |
| | `BlocksOwned` | `Owned` | |
| DriverProofs | `MessageStaysAlive` | `MessageAlive` | |
| | `PermitsAreCovered` | `PermitsCovered` | |
| | `NoFrameIsStranded` | `NoFrameStranded` | |
| | `BootIsVerified` | `BootVerified` | |
| | `MessagesKeepOrder` | `MessagesInOrder`: the receive FIFO implements MailQueue | |
| | `OldestDropped` | `DropsOldest`, an action property | |
| | `NobodySleepsOnSerial` | `NoLostWakeup` | |

Each assumption of the last column excludes a case in which the code breaks the
property (section 5): a semaphore detached while it is used, a second mutex, a
one-shot timer that its callback restarts. `MutexFlag = "PRIO"` is needed because with a first-in first-out list
a hand-over gives the mutex to whoever waits longest, and the new owner is not
raised to the priority of those still waiting. `SemaphoreCounts` counts the
threads that were handed a permit, which is a number only when there are
finitely many.

**ListProofs** has what the others need of `Unlink`, `LinkAt` and `Append`:
the elements, that none occurs twice, that a list sorted by a key stays so, and
which element precedes which (`Precedes`). Where a proof goes along a list or a
chain, it counts up to its length (`CountUp`), a fact about numbers got from
the well-foundedness of their order, since the library's induction theorems
cannot be instantiated here.

**KernelProofs** has one lemma per operator of Kernel: under which conditions
it preserves `KernelOK`, and the frame, every field it leaves alone. The lemmas
are about any record, so the proofs of all models on Processor use them.
`KernelOK(k, Exempt)` is the conjunction of `ReadyListsOK`, `WaitListsOK`,
`TimersOK` and `DefunctOK`, where `Exempt` is the set of threads that are
unlinked ahead of a change of their state; `Sound(k)` is the same for a record
of the right type and no such thread, and `Base(k)` adds what holds between any
two calls of ipc.c. `BootBase` and `TickBase` say what start-up and the clock
do to every model on Processor; `ResumeAllBase` what the loop of
`rt_ipc_list_resume_all` does to a list of any length (`AllWoken`).

**ThreadsProofs**: `IInv` says that the lists are torn (`Torn`), or that there is
a set `X` of threads, the unlinked ones, with `Good(X) == TypeOK /\
KernelOK(sys, X) /\ UnlinkedOK(X) /\ DeletersOK(X) /\ CurOK(X)`. The properties
are not inductive by themselves: that a resumed thread can be appended to a
ready list needs that it is on no other list (`WaitListsOK`); that a timer may
make a thread ready needs that it is suspended (`TimersOK`); and a thread under
deletion is READY or SUSPEND but on no list, unless it came back. So `X` lies
between the threads under deletion that never came back and all of them
(`UnlinkedOK`). It gains a thread in the first step of a deletion; it loses it in
the last, or when the thread's timer expires (`TimerStep`), and then the second
step finds the thread suspended again and on no list, where it rejoins `X`, or
on a list or gone, where the lists are torn (`DeleteCloseStep`). `DeletersOK`
says that two callers never delete the same thread and that a thread marked
CLOSE by the second step is in `X`; `CurOK` that the current thread is not in
`X`, and where it may be when it is not ready: between the blocking half of a
call and its `rt_schedule()`. No step but that of the thread's own timer makes
`back` grow, which is what `ClosedNotScheduled` excepts.

**LocksProofs**, semaphore: `SemInv` adds to the consistency of the lists that
whoever waits is inside `rt_sem_take` with `EOK` as its error (`SemWaits`), that
the only timers are those of timed waits (`SemTimers`), and that while the
semaphore is detached no other thread uses it (`SemDetach`). Each action is then
shown to change the pair of the value and the set of threads that were handed a
permit in one of six ways (`SemEffect`), and each of these is a step of
CountingSem or none. Mutex: a time-out and a hand-over race for each waiter, so
`MutexInside` says that a thread in `rt_mutex_take` waits, or is the owner and
has no error, or has timed out and is not the owner; `MutexOwner` relates
`hold` to what the threads took, a hand-over under way included. For the
priorities `MutexPriority` says that only the owner runs at a priority that is
not its own and that `original_priority` is the owner's, and `MutexOrder` that
the waiters are sorted, which the new owner's priority depends on.

**IpcProofs**, event: `rt_event_send` walks a list that it changes, and changes the
flags on the way. `Offered(e, f, D, W)` is the invariant of this loop after it
has looked at the threads of `D` and woken those of `W`: what is left of the
flags satisfies none of the others (`FewerFlags`: consuming flags satisfies
nobody), and those of `W` have what they asked for, each its own flags if it
clears them. `SentOK` carries it to the end of a list of any length, and the
three theorems follow with what is known of a waiting thread: that it is inside
`rt_event_recv` with `EOK`, and that its `event_set` is still what it asked for
(`EventWaits`). Mailbox: "nobody waits while there is a mail" is not true, as a
woken receiver may be overtaken before it runs. What is true and inductive is a
count (`MbCount`): while a thread waits at a side, there are no more mails, or
free places, than threads that were woken at this side and are on their way.
Each send adds one to both, each overtaking receiver takes one from one of them
only, and whoever comes back and finds nothing waits again (`MbWaits`); so with
a waiter and nobody on the way there is nothing to fetch. `MbRing` ties the two
offsets to the number of mails, and reading and writing the ring at them is
shown to be `Tail` and `Append` on the mails as MailQueue has them.
Message queue: the same count over its receivers (`MqCount`), and `Lists`: there
are two sequences of slots, the queue and the free list, which are what the
links give from `head` and from the free pointer, end at the null pointer, have
`tail` as the last of the queue, and share nothing with each other or with the
slots that callers hold between their two critical sections (`MqHolds`).
`Divided` is kept by each way a slot is linked or unlinked, as operators on the
pool, and implies `SlotsDivided`, which the model states with a function that
follows the links: `CountUp` goes along it. That urgent messages go to the
front of the abstract queue needs that the two senders do not mix
(`MqKinds`).

**TimerProofs** first proves what the comparisons of `timer.c` mean modulo the
width of the tick: `LeftOf(a, now)`, the signed distance of a deadline from a
tick, is the only number within half a turn that leads from one to the other
(`LeftOfIs`); a tick takes one from it (`OneTickLess`); `rt_timer_start`
compares two of them (`ComparesDeadlines`) and `rt_timer_check` one with zero
(`DueIsPast`) as long as the deadlines in question are near enough. That they
are is the invariant: `TimerInv` says that the timers in the list have from `Lo`
to `Latest` ticks left, that the list is sorted by this number and, where it is
the same, by the order of starting (`Ranked`), and that a deadline that was
computed and not yet inserted is at most `Delay` ticks old (`PlaceOK`). `Lo` is
`-Delay` while the tick is handled and one more outside. Each action keeps
`TimerInv` and is a step of AlarmClock on the ticks left (`LeftOn`) or none.
`ActiveOK` strengthens `PendingCanBeStopped` by what `rt_timer_control` has read
of the flag and not yet written back.

**HeapProofs**: `IInv == HeapOK /\ OwnersOK`. The chain of headers is linked
both ways from the first to the last with enough room between each two
(`Chain`), free blocks are no neighbours (`Apart`, with exceptions inside
`plug_holes`), the statistics are the number of bytes in used blocks, and every
used block is held by one caller, or is one of the two blocks of a `rt_realloc`
that moves, and is as large as asked for. The functions of `mem.c` are shown to
keep it as operators on a record of the heap: taking a block and splitting it
(`Taken`, `Split`), and `plug_holes` with both merges (`PlugForward`,
`PlugBackward`).

**DriverProofs**, Ethernet: `IInv == TypeOK /\ Runs /\ Waiters /\ HandOver /\
Permits /\ Frames`. `Waiters` says at which place each thread can wait for
which object; `HandOver` that there is one message at a time, in the mailbox or
with etx, while erx waits for its acknowledgement; `Permits` counts permits
given, in use and owed by the handler against the free descriptors; `Frames`
says that a frame erx was not told of has its interrupt before it.
Chip: all the download knows of the RAM is one CRC for each part of an image,
and an answer says neither what it answers nor when it was sent. `BootVerified`
rests on four facts, whose conjunction is `LoadInv`. The frame at each index of
a script is known for images of any length (`FrameIs`). While a part is not
checked, the RAM holds what the frames so far can have put there, lost switches
between the halves included: when the data is checked, either its half is still
blank, and no CRC that comes is the one waited for, or the switch was made and
the code is whole (`Written`). A CRC that could end the wait is true of the RAM
as it is, and those of the last check are read before it, so a late answer
never passes for that of the next part (`CrcInOrder`). Whoever passed a check
has the whole part in the RAM, and only the device address is written over it
(`Whole`). That both cores are marked valid is true only when no answer was
late: each answer is then that of the frame in hand (`InStep`, in `Marked`).
For the FIFO `FifoHolds(F, on, q, d)` says that from the next place to read
there come `d` empty slots and then the messages `q`. `d` is not zero after the
reading of a FIFO that is empty and still marked full, which leaves the place
to write a whole turn less one place ahead; a slot is never overwritten, since
`d` plus the length of `q` reaches the size only when the mailbox's interrupt
is off.
Serial: `SerialInv` strengthens `NoLostWakeup` by where a thread may be when
something is left for it, for any number of writers. While the queue is not
empty, the channel is active or a writer is about to test whether it is, and an
active channel sends or is about to be started by a writer (`Channel`). Only a
push on a full queue arms the mark, only a pop with somebody to wake clears it,
and whom it wakes can run; a pusher that sleeps on without the mark is behind
such a one, and a writer stops being ready only by arming the mark again, as no
behaviour uses two paths of the driver (`Fits`). Until an index wraps the queue
is what was pushed and not yet popped (`Unwrapped`). A writer that found the
register full finds it full still, or the flag set, or another writer took the
flag and is about to fill the register (`Register`), which is why the handler
may come between `putc` and `rt_completion_wait`. What lies in the ring is being
read, was indicated or is about to be (`Reader`), and there is a character for
each indication, which bounds `rx_sem`. `DropsOldest` needs none
of this: `Chars(b, g, p)`, the characters of a buffer between two offsets, has as
many elements as there are places from `g` to `p` (`RingHeld`), so that a read is
`Tail` (`RingRead`) and a store is `Append`, after `Tail` when the ring is full
(`RingStore`).

**Only model-checked**:

* the liveness properties (`RoundRobin`, `WaiterServed`, `MailFetched`,
  `CheckEnds`, `Served`, `Acked`, `ReceptionResumes`, `ConfigApplied`): the
  proof system does not reason about fairness and enabledness;
* the safety properties of Shdsl (`StatusCurrent`, `ChipConfigured`), for which
  no proof has been written.

## 5. Findings and limits of use

The run `net_free` shows a disagreement of the code with itself:

* `tcpip_input` frees a frame and reports failure when there is no memory for
  the answer; `eth_input` frees it again
  (`src/components/net/uip/rt-thread/uip_tcpip.c:19`). `rt_free` asserts that
  the block is in use (`src/src/mem.c:538`).

What follows holds only under an assumption that the code does not check; the
named constant admits the other case, in which the named property fails:

* `rt_sem_detach` while waiters time out or handlers release
  (`src/src/ipc.c:175`): `rt_ipc_list_resume_all` can take the list head for a
  thread (`DetachQuiescent`, `PermitNotWithheld`).
* Two mutexes that are not released in the reverse order of their taking
  (`src/src/ipc.c:684`): an inherited priority is kept for good (`Mutexes`,
  `RestoresPriority`).
* A one-shot timer whose callback starts it again (`src/src/timer.c:535`): it is
  pending and cannot be stopped (`OneShotRestart`, `PendingCanBeStopped`).

Known to the models and excepted by name in a property: `rt_thread_delete` of a
thread whose timer runs (`src/src/thread.c:347`), which the timer can make ready
again between two critical sections, after which the deletion may tear the lists
(`back` in `ClosedNotScheduled`, `Torn` in `ReadyQueueOK` and `SuspendedOK`); two
writers by DMA on one serial device
(`src/components/drivers/src/dataqueue.c:224`), of which one wake-up at the low
water mark wakes one, while the other sleeps until the queue is full again and
the mark armed by somebody, which need not happen (`NoLostWakeup` says only that
somebody can run); more than 65535 buffers pushed since the data queue was
initialised (`src/components/drivers/src/dataqueue.c:82`), after which a full
queue is not recognised (`pushes` in `NoLostWakeup`); a link event dropped
during an initialisation or by a full mailbox, and a READY from before an
initialisation handled after it (`StatusCurrent`); frames left behind one that
erx gave up on (`NoFrameStranded`); permits added by what the uIP thread sends
(`PermitsCovered`); a late answer taken for that of a lost control frame
(`BootVerified`). `Pef24628e_Get_IDC_Msg` does not clear `bRxFifoFull`, so a
FIFO that was full and has been emptied still looks as if it had data until the
next message comes; the model has it, and `MessagesInOrder` shows that no
message is lost by it, only empty ones are read.

## 6. Not modelled

Detaching and deleting mutexes, events, mailboxes and message queues (the
semaphore's detach shows what `rt_ipc_list_resume_all` does in each of them);
object container and names; hooks, stack checks, printing; soft timers and
further levels of the skip list, which are not configured; memory pools,
workqueue, ring buffer, pipe and portal, which nothing in this firmware uses;
`slab.c`, `memheap.c` and `module.c`, which are not compiled; nested handlers;
the device framework, which dispatches calls; the SPI bus, a mutex around
register access; all register access. Of the serial driver opening, closing
and reception by DMA; of the Ethernet driver initialisation and PHY; of the
chip driver the SCI byte protocol, HDLC and the monitor. The uIP stack, the
interpreter of the shell, the web server's pages and the vendor's libraries:
third-party code, text and data. Of the application: the contents of commands,
the shell's setters of single parameters, what is read of the SNR, and the
memory that a mail takes. Overflow of the semaphore's value and of a mutex's
nesting counter is modelled by the bounds only.

By lines most of the repository is such code: the vendor's libraries, message
catalogues of the chip (`idc_onlinemessages.h`, `user_if_SOC4BIS.h`), firmware
images and pages as arrays, and a second copy of the Ethernet driver
(`stm32_eth_bak.c`).

## 7. Plan

What is left is one proof: for Shdsl that the lock is held exactly by who waits
for an answer, and with it `ChipConfigured`, for shells that do not
reinitialise.
