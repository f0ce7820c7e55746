# Verification of the sensor node and its BeagleBone companion

The repository holds two programs.  `src/tiva_tm4c` is the firmware of a TM4C1294
sensor node on FreeRTOS: it samples a BME280, counts people with two HC-SR04
ultrasonic sensors and exchanges packets with a BeagleBone over a UART.
`src/beaglebone_green` is the Linux companion: it logs what the node reports,
serves a user interface over a socket, and watches its own threads with a
heartbeat.  The firmware carries the sources of its kernel with it, FreeRTOS 10.
This project models the tasks of both programs with what they share, and the parts
of the kernel that the firmware stands on: its scheduler, the services for tasks,
queues, semaphores and mutexes, software timers and the heap.

## 1. Inventory

| Component | State | Operations | Interacts through |
|---|---|---|---|
| Kernel objects (`main.h`, `main.c`, `comm_task.h`, `bme280.h`) | 5 counting semaphores, 4 queues, event words `comm_task_events`, `BME280_task_events` | take, give, give from ISR, send, receive, messages waiting, `w \|= f`, `w &= ~f` | shared by everything below |
| `vCommTask` (`src/comm_task.c`) | position, packet in hand | drain `comm_send_queue` to the UART, drain `comm_receive_queue` and dispatch | both event words, `comm_task_sem`, all queues |
| `Task_BME280` (`src/bme280.c`) | position, calibration | initialise or delete itself, sample, discard commands | both event words, `sem_bme280_acq`, `bme280_queue`, `comm_send_queue` |
| `Task_HCSR04`, its command task and port interrupts (`src/hcsr04.c`) | position, pulse widths, `number_of_people` | pulse, wait for the echo, report, discard commands | `sem_hcsr04_*`, `comm_task_events`, `hcsr04_queue`, `comm_send_queue` |
| Timer callback (`main.c`) | `count` | of three expirations, two start an HC-SR04 cycle and one asks for a sample | `sem_hcsr04_acq`, `sem_bme280_acq`, `BME280_task_events` |
| UART driver (`UART/uart_comm.c`) | bytes of the packet under way | receive interrupt, polled send that stops at a zero byte | `comm_receive_queue`, `comm_task_events`, `comm_task_sem` |
| I2C driver, BME280 compensation | calibration data | register access, arithmetic | called by `Task_BME280` only |
| Scheduler and task services (`tasks.c`, `list.c`, `port.c`) | current task, ready, delayed, suspended, pending and event lists, tick count, priorities, notifications | tick, context switch, suspend and resume the scheduler; delay, suspend, resume, delete, create, notify a task, set its priority | called by every task; the queues block and wake tasks through it |
| Queues, semaphores, mutexes (`queue.c`) | ring of items or count, two event lists, two lock counters, the mutex's holder | send, receive, peek, reset, with a block time or from an interrupt | shared by tasks and interrupts |
| Software timers (`timers.c`) | two lists of timers, the command queue | the timer task; start, stop, change the period | the firmware's `timer_callback` runs in the timer task |
| Heap (`heap_4.c`) | list of free blocks | allocate, free | queues, tasks and timers are created from it |
| Event groups, stream buffers, co-routines, uartstdio, start-up code | | not used by the program, or vendor code | |
| BeagleBone `main.c` | `task_alive`, `task_heartbeat`, `send_heartbeat`, `close_app` | timer handler, heartbeat collection, shutdown | POSIX queues and semaphores with the three tasks |
| BeagleBone logger (`logger_task.c`) | log file | write what is queued, answer heartbeats, join its notifier | `mq_logger`, `mq_heartbeat`, `sem_logger` |
| BeagleBone communication task (`sock_comm_task.c`, `uart_comm.c`) | UART, socket | route packets by `route_id`, forward requests, answer heartbeats, join two threads | UART, both sockets, `mq_logger`, `sem_sock_comm` |
| BeagleBone user interface (`ui_task.c`) | socket, command table | read a command, check a threshold, send a request and wait, answer heartbeats | both sockets, `sem_ui`, `close_app` |

What is hard in the firmware:

* **Shared event words.**  Flags are `volatile` integers changed by `|=` and
  `&= ~` from three tasks, the timer daemon and an interrupt, without a critical
  section.  A store can undo somebody else's store.
* **A flag and a token.**  Work is announced by a flag and a semaphore that can
  drift apart: a producer gives only if the flag was clear, a consumer clears the
  flag after it has found the queue empty, and both branches of a task take
  tokens of the same semaphore.
* **Masks.**  The flag macros are `1<<0` and `1<<1` without parentheses, so
  `w &= ~RECEIVE` becomes `w &= ~1<<1` and clears both flags.
* **Blocking for ever.**  Every call waits with `portMAX_DELAY`, one of them in an
  interrupt handler (`uart_comm.c:37`); two tasks send to each other's queues.
* **Shared completion.**  Both echo interrupts give the same semaphore.

What is hard in the kernel:

* **Checks and waits.**  A call that finds nothing leaves its critical section,
  suspends the scheduler, locks the queue, looks again and only then joins an event
  list.  Interrupts come in between at any point; while the queue is locked
  they only count, while the scheduler is suspended they only put tasks on a list
  for later.
* **Two items per task.**  A task is linked into one list of states and perhaps
  one list of events; its event, its timeout, an interrupt, a suspension and a deletion
  all unlink and link them.
* **Caches.**  `xNextTaskUnblockTime` and `uxTopReadyPriority` stand for a search that is
  then not made.
* **The wrap of the tick count.**  Times are compared modulo its width, in `tasks.c`
  and once more, differently, in `timers.c`; delayed tasks and timers live in two
  lists that change places.
* **Borrowed priorities.**  Waiters lend their priority to a mutex's holder, time
  out, and take it back while others have lent theirs.

What is hard in the companion:

* **Rounds.**  Three expirations of a timer ask three tasks; the third also looks
  at the answers, among them one that cannot have come yet.  A collected
  heartbeat is never reset and a task given up never taken back.
* **Bounded queues both ways.**  `main()`, the handler and the communication task
  block on `mq_logger`, which the logger drains; the notifiers, and the logger before it
  drains anything, on `mq_heartbeat`, which `main()` drains.
* **The end.**  `close_app` is a plain flag, tested only between calls that block
  without a timeout; `main()` joins the tasks and destroys what they shared, but
  nobody joins the notifier of the user interface.
* **Giving up half-way.**  The communication task may end before it creates the
  threads that answer for it.

What makes each part correct: a task never sleeps while work for it is waiting
and nobody is about to wake it (`vCommTask`, `Task_BME280`, the command task); an
echo is matched with its own pulse (`Task_HCSR04`); what is queued for the UART is
written; a request for a sample is served; queues and semaphores stay within
their bounds.  In the kernel: a task is in one list; the highest priority runs; a
delay lasts exactly its ticks; no wake-up is lost; a queue is first in, first
out and a semaphore loses no token; a timer calls back when it is due and not before;
memory is given out once.  On the companion: a task that answers is not given up, one that is
reported alive has answered, one that has ended is given up, nobody answers
for another, `main()` and the logger do not wait for each other, and nothing is destroyed under a thread that may use it.
`PROJECT.json` lists each hazard at its line with the properties
that watch it.

## 2. Modules

| Module | Models |
|---|---|
| `TivaKernel` | the shared objects and the calls on them |
| `CommTask` | `vCommTask` |
| `Bme280Task` | `Task_BME280` |
| `Hcsr04Task` | `Task_HCSR04`, `Task_HCSR04_Cmd_Handling`, the two port interrupts |
| `TivaNode` | the composition with the timer callback and the UART interrupt, the fairness, and the properties |
| `MCTivaNode`, `MCService` | its scenarios for TLC: safety; what must happen eventually |
| `TivaNodeProofs` | the theorems and their proofs |
| `Heartbeat` | what the BeagleBone's threads share, `main()`, the timer's handler and the notifier that each task runs |
| `LoggerTask` | `logger_task_thread` |
| `UserSockets` | the two Unix datagram sockets |
| `SockCommTask` | `sock_comm_task_thread`, `sock_comm_ui_handler_task_thread` |
| `UiTask` | `ui_task_thread` |
| `Companion` | the composition of the BeagleBone's modules, the fairness and the properties |
| `MCCompanion`, `CompanionProofs` | its scenarios for TLC; its theorems and their proofs |
| `TickCount`, `Lists` | tick counts with their wrap; `list.c` |
| `Scheduler` | the data of `tasks.c` and the functions the services are built from; the tick, the context switch, the idle task; the invariants of the lists |
| `TaskServices` | delays, suspension, priorities, deletion, notifications; implements `Sleepers` |
| `Sleepers` | abstract: a sleeping task is awake after its ticks |
| `QueueBuffer` | the ring of a queue, the count of a semaphore |
| `KernelQueue` | the calls of `queue.c` step by step, over `TaskServices`; implements `AtomicQueue` |
| `AtomicQueue` | abstract: a bounded queue with atomic operations |
| `SoftwareTimers` | `timers.c`; implements `Alarms` |
| `Alarms` | abstract: when each timer is due, and what may change that |
| `Heap4` | `heap_4.c` |
| `MCTasks`, `MCObjects` | the scenarios of the kernel's modules for TLC |
| `KernelQueueProofs`, `Heap4Proofs` | theorems about queues and the heap and their proofs |
| `BlockingProofs` | theorems about queues and the scheduler together, and their proofs |
| `ListProofs`, `SchedulerProofs`, `TaskServicesProofs` | theorems about the lists, the scheduler and the services for tasks, and their proofs; the timer task and the tick counts |

The kernel's modules say what `TivaKernel` takes for granted: `KernelQueue` shows that
a call on a queue or a semaphore appears atomic (`FirstInFirstOut`), that a task blocked
in one is woken (`NoWakeUpLost`), and under which condition on interrupts that is so.
Nothing connects `TivaNode` and `Companion` yet: what each receives from the other
is free (`PacketArrives`, `UartDelivers`).

### 2.1 The firmware

Each task has a program counter (`comm_pc`, `bme_pc`, `hcsr_pc`, `cmd_pc`) whose
values name the place in its loop, and a register (`comm_reg`, ...) that holds an
event word between its load and its store.  One action is one access to shared
state: a kernel call, a test of a flag, a load or a store.  Local computation goes
with the neighbouring action.  The correspondence to the code, action by action,
is the `map` of `PROJECT.json`.  Operators named as mutants in the modules are
plausible bugs of the definition they precede; no specification uses them.

Steps that stand for more than one access, and why that loses nothing:

* `CommWait` (`comm_task.c:38-42`) and `BmeWait` (`bme280.c:205-207`): the
  take followed by a give of the same token.  Only the task itself takes tokens of
  its semaphore, so once there is one it can take and return it; a flag SEND that
  it finds raised is cleared by nobody else, so the second take of line 42 sees the
  same state (`CommWait`).  The give cannot meet a full semaphore in a way that matters: a
  token given in between to a semaphore that the give then finds full leaves it
  full, as here.
* `CommTransmit`: nobody else receives from `comm_send_queue`, and writing to the
  UART changes no shared state.
* `HcsrTakeUpdate1`, `HcsrTakeUpdate2`: the pulse, the reading of the width and
  the comparison happen while the sensor read is silent (`EchoAnswersPulse`).
* `HcsrSendReport`: `number_of_people` belongs to the task.
* `timer_callback` and `UARTStdioIntHandler` are one step.  The timer daemon has
  the highest task priority; an interrupt could come between its two statements,
  but the only interrupt that touches what it uses gives a semaphore of another
  task.  The load and store of `BME280_task_events` in the callback are one step for
  the same reason: no interrupt stores that word.

Abstractions:

* A packet is its destination (`bme`, `hcsr`, `other`), a log line is `log`, a
  pulse width is near or not near.  Both `number_of_people`, which the code lets
  fall to -1 (`hcsr04.c:206`), and its order with the message are kept.
* Kernel calls are atomic.  FreeRTOS promises that only to interrupts below
  `configMAX_SYSCALL_INTERRUPT_PRIORITY`; the handlers here are registered without a
  priority and run above it.  Run `unmasked` shows what this breaks; the modules of
  the tasks take the promise as kept.
* The initial state is the start of the scheduler: queues and semaphores exist
  and no packet has arrived.
* A UART interrupt that meets a full `comm_receive_queue` calls a blocking send
  it cannot block in: `uart_isr` becomes `"spinning"` and nothing runs any more.
* A sensor is attached and ends every echo, or is not attached
  (`EchoAttached`); a BME280 answers or not (`BmeInitResults`).

### 2.2 The companion

Each thread has a program counter (`main_pc`, `logger_pc`, `sock_pc`,
`ui_handler_pc`, `ui_pc`, and `notifier_pc` per task) and the running handler has
`handler_pc` and `handler_task`.  A call that can block is one step, disabled while
it blocks, and so is a test of `close_app`.  The model starts when `main()` has
created its threads (`main.c:110`), with three lines in the logger's queue.

Steps that stand for more than one access:

* `MainReceives` takes a heartbeat and marks it: nobody else receives from the
  queue, and a handler in between sees what it sees before the step, except that
  the slot is free.
* `HandlerTests` reads `task_alive` and `task_heartbeat` of one task; the first is
  written by handlers only.
* `LoggerStarts` is the startup heartbeat alone (`logger_task.c:19`).  The notifier is
  created in a step of its own (`LoggerCreatesNotifier`, line 26), since `main()` may
  collect the heartbeat before.
* `LoggerReceives` includes the writing to the file, which is opened and closed
  for each message and used by no other thread until the end.
* `HandlerLogsAlive` logs and then sets the request; in between a notifier could
  only find what it finds before the step.
* `SockStarts` binds the socket after it created it, opens the UART with the line
  it logs (the same line in both cases), and creates two threads at once: neither
  can end before the other without `close_app`.
* `MainJoins` and `SockJoins` join their threads together; the order of joins
  decides nothing, since all of them are waited for.

Assumptions:

* `Prompt`.  A period of the timer is two seconds (`main.h:39`) and what a thread
  does between two expirations takes milliseconds.  Under `Prompt` an expiration
  comes only when `main()` and the notifiers have come to rest (`Settled`).  The
  steps within an expiration stay unordered.  The properties that need it say so.
* A handler ends before the next expiration (`handler_pc = "idle"`), so the shared
  static `count` is not raced for.
* A signal restarts the calls it interrupts, which is what `signal` arranges on
  glibc.  `mq_open`, `socket`, `bind` and `fopen` succeed, and so does every call
  on an open queue.
* `sem_ui` is never given to `sem_init`; as a global it is zero, which is
  an unlocked semaphore on Linux.
* Closing the log file twice, and writing to it closed, is undefined; the process
  goes on or is aborted (`LoggerClosesAgain`, `SockWritesClosed`).
* Line 123 of `sock_comm_task.c` starts with a stray `cd ..`; the
  assignment behind it is modelled.

Of `mq_logger` and of the sockets only the number of messages is kept, of a packet
its route (`logger`, `ui`, `other`), of a command whether it ends the program, is
answered at once or sends a request.

### 2.3 The kernel

The data of `tasks.c` is one record, `kernel`, so that its functions can be operators
that take and return it: `RemoveFromEventList(k, object)` is
`xTaskRemoveFromEventList`, and a critical section is their composition.  `pc` says where
each task is in the call it makes; only `kernel.current` moves.

A step of a task is a critical section, or a stretch that the suspended scheduler
and the locked queue protect.  Between two steps interrupts run, among them the
tick, and, unless the scheduler is suspended, PendSV, which switches the task.
The tick's loop over the tasks that are due (`tasks.c:2624-2697`) is one step for
each of them, `TickLoops`, with `kernel.ticking` set and all else held off.
`masked` marks the places where a critical section is more than one step:
`xTaskResumeAll`, which works off task by task and tick by tick what it missed, and the
taking of an item, whose load and store of the count are apart so that an interrupt above the
mask can come between (`Counts`, `Receives`, constant `Masked`).

Simplifications:

* The scheduler starts with the ready lists that `main()` and `vTaskStartScheduler` have
  built (constant `First`): of the tasks of the highest priority, the one created last is
  `pxCurrentTCB`.
* A list's links are a sequence from the end marker on, with the position of the
  index; ready lists, where the index walks, keep it, sorted lists do not use it.
* A time-out state (`TimeOut_t`) is kept per task: the tick at which it was set and
  whether the number of overflows has changed since.  It ends with its call.
* `prvUnlockQueue` wakes in one step the tasks that its loop wakes one by
  one in a critical section; `MaxLocked` bounds the interrupts that come meanwhile.
* A task takes one mutex and takes it once.  Objects are not deleted.
* A caller of `vTaskResume` knows its task to be suspended and not waiting for a
  notification, as the manual of the kernel asks for (`MayResume`).  The kernel takes one for
  the other, although a comment says that it tells them apart (`tasks.c:1748`): it looks at
  the event item, which a wait for a notification does not use.
* The next task is selected as `tasks.c:132-173` does it, with `uxTopReadyPriority` as a
  number.  `FreeRTOSConfig.h` does not set `configUSE_PORT_OPTIMISED_TASK_SELECTION`,
  and the port's header, which is not in the repository, may choose the other variant: a
  bit for each priority (`tasks.c:175-207`), for which `TopIsHighest` says nothing.
* The counters of a queue's lock, `cRxLock` and `cTxLock`, are eight bits wide and signed
  (`queue.c:1057`, `1222`, `1824`).  They have no width in the model, since `MaxLocked` keeps
  them small: 128 interrupts on one locked queue would make such a counter negative and lose
  wake-ups.
* A timer that is deleted is one that is stopped and not used again.
* The timer task is modelled with its own clock in `SoftwareTimers`, not as a task of
  `Scheduler`: it has the highest priority, but may be late by `MaxLate` ticks.
  `MaxAsked` bounds the commands of others in its queue; in the run it leaves room for its own.
  The periods of timers that are not under way are as their creation or the last command
  left them.
* A heap address is a number; `HeapStart` is not aligned in the runs, and the sizes of
  a header and of the alignment are constants.  A request beyond the address space
  (the addition of the header wraps) is left out, and so is a request that returns
  NULL, which changes nothing.
* The kernel's own headers are not in the repository: 32-bit ticks are configured
  (`FreeRTOSConfig.h:85`), time slicing and `xTaskResumeFromISR` are FreeRTOS's defaults.

## 3. Properties and runs

### 3.1 The firmware

`TypeOK` bounds the queues and the counts.  The others:

* `CommNoticesSend`, `BmeNoticesSend`: SEND is never raised, with the task outside
  its branches, without a token in its semaphore or a task about to give one.
* `HcsrNoticesCommands`: the same for a command in `hcsr04_queue`.
* `EchoAnswersPulse`: the shared update semaphore has exactly the token of the
  pulse the task is waiting for, and none otherwise.
* `HcsrCommandsHandled`, `HcsrCyclesRun`, `LogLinesWritten`: commands are
  drained, cycles start and end, log lines are written.  `AttachedCyclesRun` and
  `SampledLogLinesWritten` ask for the last two in the scenarios in which the sensors are
  attached and in which the BME280 answers.  These two assume
  `~QueueFillsUnnoticed`: if the send queue fills up between the test that finds it
  empty and the clearing of the flag, producer and consumer wait for each other for
  ever.  With 100 items this takes 100 messages between two statements; with the
  queues of the runs it happens, so the premise names it.
* `RequestsAreSampled`: `Task_BME280` clears a request only after a sample.

| Run | Scenarios | Shows |
|---|---|---|
| `node` | both producers and no packets; commands for the BME280 racing its samples; every class of packet and no sensor answering | the five invariants |
| `service` | commands for all sensors; the HC-SR04s alone; the BME280 alone | `HcsrCommandsHandled`, `AttachedCyclesRun`, `SampledLogLinesWritten` |
| `lost_report` | the HC-SR04s alone | `LogLinesWritten` is **violated** |
| `lost_tick` | commands for the BME280 | `RequestsAreSampled` is **violated** |

**The lost report.**  `vCommTask` finds the queue empty (`comm_task.c:43`);
`Task_HCSR04` queues a report, finds SEND still raised and gives nothing
(`hcsr04.c:195-196`); `vCommTask` clears SEND (line 52).  The report stays until
another message is produced.  With a BME280 that is at most the next sample, which is why
`SampledLogLinesWritten` holds; without one it is the next person at the door, or never.

**The lost request.**  `Task_BME280` clears RECEIVE with a load and a store and
with a mask that clears SEND too.  A request that the timer raises during the
drain of the commands, or between the load and the store, is gone.

With a BME280 and packets that are no commands, a line can be lost as well (the
clearing of RECEIVE clears SEND, `comm_task.c:83`), which is why its scenario of `service`
has no packets.

Bounds.  Queues of 2 items and semaphores of at most 2 tokens make the full
queue and the full semaphore reachable in every scenario; no invariant mentions a
length, and the theorems hold for all of them.  `MaxPeople` stops people from
entering, not from leaving.  Every class of packet that can tell two paths of
the code apart is in one of the scenarios.  Nothing else is bounded: timer,
packets and echoes keep coming.  A UART interrupt that spins is the end of the node;
`MCSpins` lets it spin, so that deadlock is checked for everything else (`lost_tick`
switches the check off).

Fairness (`FairSpec`).  The tasks have the same priority and are time-sliced
(`configUSE_PREEMPTION` with FreeRTOS's default time slicing), so each gets a weak
fairness condition; the timer reloads itself; an attached sensor ends its echo.
Packets have no fairness.  `lost_report` is a counterexample under these
conditions: every task keeps running and the timer keeps expiring.

### 3.2 The companion

* `AnsweringTasksStayAlive`: under `Prompt`, the logger and the communication task
  are not given up while they have a notifier and the program is open.
* `AliveMeansAnswered`: under the same conditions, a report that one of them is
  alive is made only if its request of this round is cleared.  This ties the
  report to an answer, since `task_heartbeat` alone is never reset.
* `AbsentTasksAreSilent`: a task without a notifier has no heartbeat collected
  or under way.  The logger between its announcement and the creation of its notifier
  is excepted (`Announced`); the other two tasks announce nothing.
* `NoCircularWait`: `main()` in `LOG` on a full `mq_logger` and the logger in its
  first `mq_send` on a full `mq_heartbeat` do not meet, whatever the speed of the
  threads.  It has a condition on the two sizes, `QueuesFit`, which the program's 10 and
  10 fulfil: the logger's queue is larger than the other by three at most.
  Three messages are logged before the threads exist, and then no task sends a
  heartbeat without a message before it or one that `main()` owes.
* `LoggerComesToWork`: under the same condition and fairness the logger gets to the
  loop in which it drains its queue.  From there it waits for nobody but for
  messages, so that this start is the only time at which the waits could close.
* `ThreadsJoined`: when `main()` has ended, so has every thread of the logger and of
  the communication task.  The notifier of the user interface is not among
  them: nobody joins it.  Nor are the threads of the timer's handler: the timer is
  never deleted, and a late expiration may post a semaphore that is destroyed.
* `UartFailureReported`: a communication task that could not open its UART is given up.

| Run | Shows |
|---|---|
| `companion` | `TypeOK`, `AnsweringTasksStayAlive`, `AliveMeansAnswered`, `AbsentTasksAreSilent`, `ThreadsJoined`; scenario `in_use` with packets of every route, requests and a UART that opens or not, scenario `closing` with `exit` and interrupts at any time |
| `heartbeats` | `UartFailureReported` in the scenario `left_alone`: prompt threads, no packets, no user; `NoCircularWait`, `LoggerComesToWork` in `late_logger`: threads of any speed, packets and commands, until the logger has come to work |
| `false_death` | `AllAnsweringTasksStayAlive` is **violated**, with the program's queue sizes |
| `shutdown` | `ProgramEnds` is **violated** after `exit` |

**The late logger.**  `heartbeats` has one place for heartbeats and four for messages,
the limit of `QueuesFit`.  With a fifth place TLC reaches the cycle: the third expiration
has come, `main()` has collected the heartbeat of one task and waits to log it, that of
another fills `mq_heartbeat`, and the logger has not sent its own.  The same happens
with four places if the communication task does not log the UART it has opened; the text of
that line says that an error occurred (`sock_comm_task.c:72-76`), so that it invites
removal.  That is the mutant of both properties.

**The false death.**  The third expiration posts `sem_ui` (`main.c:181`) and looks at
the heartbeats in the same call.  The user interface sends none when it starts, so
its first answer races the handler; if it loses, the task is given up for good.
The communication task sends none either, but has a whole period.

**The shutdown.**  After `exit` the notifiers end and `main()` waits in `mq_receive`
(`main.c:128`) for a heartbeat that nobody sends.  Once the logger has left its loop,
the handler waits in a full `mq_logger` as well.  The run has no UART, so that the
communication task ends at once; with a UART the thread that reads it and the one that
waits for requests hold up the joins in the same way (a state space six times as
large).

Bounds.  One heartbeat and three log messages (the least `main()` needs to get as
far as its threads) make both queues fill up in `companion`.  Under `Prompt` the timer
does not expire before the logger has started, which is why the wait of `main()` and the
logger for each other has a scenario of its own.  `MaxPosts` = 1 suffices where a post
is consumed before the next one to the same task (`Prompt`).  `false_death` and
`shutdown` have the program's sizes, 10 and 10, so that the violations are not those of small queues.
`late_logger` has no requests of the user: a user who waits for a response can do
nothing more, while one who types on keeps the program from coming to a stop that TLC
would report as a deadlock before it looks at the property; nor is the program closed there,
which excuses the logger.  `NoCircle` covers both.  `MaxPosts` = 2 in this run: a
notifier that finds a second post, and no request, does nothing with it.
The scenario `closing` has no packets for anyone and no requests, which leave
`close_app` alone.  A program that is closed may stop: `MCStops` lets it, so that
deadlock is checked while it is open, and `shutdown` switches the check off.

Fairness (`FairSpec`).  Every thread is scheduled.  A thread that waits for room in a
queue competes with others for it; Linux serves such senders in turn, hence strong
fairness for the threads that send.  The logger waits for room only with its first
heartbeat, for which weak fairness turns out to be enough (`LoggerComesToWork`), and the
timer reloads itself: weak fairness.  The user, the node and the
interrupt have none.

### 3.3 The kernel

* `OneListEach`: each task's state item is in one list, and in the ready list of its
  priority if it is ready; its event item is in one at most; no list holds a task twice.
* `NothingPending`: when the scheduler is not suspended no task is left in
  `xPendingReadyList` and no tick uncounted.
* `HighestPriorityRuns`, `TopIsHighest`: the running task is of the highest ready
  priority unless a switch is pending; `uxTopReadyPriority` is not too low.
* `DelaysInOrder`: the delayed lists are sorted and of the round their tasks wake
  in, and `xNextTaskUnblockTime` is not too late.
* `SleepsOnTime`: `TaskServices` implements `Sleepers`.  The mapping counts, for a task on
  a delayed list, the ticks to its wake time round the wrap.  Ticks that come while the
  scheduler is suspended count when they are replayed.
* `NotifiedTaskRuns`: a task whose notification has arrived does not sleep on.
* `NoWakeUpLost`: while the queue is not locked, a task on an event list is not there
  in vain: if the queue has what it waits for, another task is on its way to it.
* `PriorityIsInherited`: a mutex is available or held; its holder runs at
  the priority of its highest waiter, or at one that a task still in its call has lent;
  every other task at its own.
* `FirstInFirstOut`: the object implements `AtomicQueue`.  The mapping reads the ring from
  its read position.
* `CallsBackInTime`: `SoftwareTimers` implements `Alarms`, whose state is the tick count and,
  for each timer, its period and the ticks before it is due.  A timer in a list is due at
  its expiry time, of the round of the list it is in; one whose restart is under way in
  the queue or in the hands of the timer task, a period after the time in the message.  Only
  a tick brings that nearer, by one; only a callback, which needs the timer to be due, adds
  a period to it or ends it; and only for a timer that a task has commanded does it change
  otherwise, to a period after the tick of a start (`Commanded` is part of the mapping, and so
  `Alarms` may not restart or stop a timer of its own accord).  So no callback comes early, none
  comes twice for a period, and a late timer task makes up for the periods it missed
  without drift.
* `NoneCallsBackEarly`: each of the three ways to a callback (the head of the list has
  expired, a timer is left when the lists are switched, a command is executed too late) is
  taken only with a timer that is due.
* `BlocksApart`, `FreeBlocksMerge`, `NothingLeaks`: no byte is in two blocks, two free
  blocks never touch, and the blocks cover the heap.

| Run | Scenarios | Shows |
|---|---|---|
| `tasks` | `delays`, `suspending`, `deleting`, `notifying`: services that two tasks and interrupts use together; `timers`: one that reloads and one that does not; `heap` | all but the three of queues |
| `objects` | a queue of length 1 or 2, a semaphore, a mutex; two tasks of different priorities, interrupts | `OneListEach`, `NothingPending`, `NoWakeUpLost`, `PriorityIsInherited`, `FirstInFirstOut` |
| `unmasked` | a semaphore of at most 2, interrupts above the mask | `FirstInFirstOut` is **violated** |
| `priority_gap` | a mutex, three tasks of three priorities | `HighestPriorityRuns` is **violated** |

**The unmasked interrupt.**  `FreeRTOSConfig.h:117` forbids kernel calls from interrupts
above `configMAX_SYSCALL_INTERRUPT_PRIORITY`.  No file of the firmware sets the priority
of an interrupt, so that the handlers of the ports and the UART have the one of reset,
the highest.  A give from the handler (`hcsr04.c:64`) between the load of the count in
`xQueueSemaphoreTake` (`queue.c:1416`) and its store (line 1426) is overwritten.

**The priority gap.**  High waits for the mutex that middle holds, lends it its
priority, and times out while middle, now its equal, has the processor in turn.  Middle
gives the mutex: it falls back below high, and low, which waits too, becomes ready.  The
yield that the fall asks for is tried only if nobody waits (`queue.c:812-825`), and the one
for the waiter only if it is of a higher priority.  So middle runs on while high is ready, until
the next tick.  The comments (`queue.c:827-830`, `tasks.c:3935-3942`) know this
only of several mutexes.

Bounds.  The tick count wraps after 3 (`tasks`) or 2 (`objects`), so that every delay
and block time straddles the wrap in some behaviour, and 2 or 3 ticks make
any two wake times meet, precede or follow one another.  One tick or one interrupt
while the scheduler is suspended or the queue locked (`MaxPended`, `MaxLocked`) reaches
every branch that makes up for it; the next one repeats it.  With two tasks and the
idle task a task is preempted, readied by another and by an interrupt;
`HighestPriorityRuns` needs three where a mutex is used, and fails there.  In the
queue's scenario of `objects` tasks wait for ever and no tick comes: what a queue adds to
a semaphore is its storage, which does not depend on time.  Two timers meet in every
order in both lists; two ticks of period and one of lateness are one less than a round, so
that a timer can be found expired, expired twice and in the next round.  That is also
the most they may be: with a period of three the timer task misses a wrap (section 4.3).  The heap
has 16 units after alignment and a header of 2: it can be split into four
blocks, freed in every order and merged from either side.

Of `HighestPriorityRuns` in `tasks`: a switch that an interrupt only recorded
(`xYieldPending`) counts as pending, as the code leaves it to the next tick.

## 4. Theorems

### 4.1 The firmware

`TivaNodeProofs` proves for every queue length, every semaphore maximum and
every set of packet classes (`KernelAssumption`, `Bme280Assumption`,
`Hcsr04Assumption`):

| Theorem | States |
|---|---|
| `TypeCorrect` | `Spec => []TypeOK` |
| `CommNoticed` | `Spec => []CommNoticesSend` |
| `BmeNoticed` | `Spec => []BmeNoticesSend` |
| `CommandsNoticed` | `Spec => []HcsrNoticesCommands` |
| `EchoesPaired` | `Spec => []EchoAnswersPulse` |

The kernel calls come first: what a take, a give, a send and a receive do to
every count and every queue.  `TypeCorrect` follows one lemma per process.  Each
wake-up invariant is inductive together with `TypeOK`, because it is stated where
the argument works: tokens of a semaphore are taken by its own task only, in
steps that lead into a branch the invariant does not speak of (`CommWait`,
`BmeTakeSend`, ...); whoever raises a flag gives a token or is recorded as owing
one (`ProducerOwesToken`, `comm_pc = "giveBme"`, `"giveCmd"`); and the only
store that can bring back a stale flag is one whose task still owes its token.
That is also why the invariants survive the races on the event words, while
`LogLinesWritten` and `RequestsAreSampled` do not: no flag is stranded, but a flag
can be lost.  `EchoAnswersPulse` needs only the exclusion in the HC-SR04 task
itself: a pulse is sent when no token is left, and the next one after its token
was taken.

### 4.2 The companion

`CompanionProofs` proves for every size of the queues and sockets, every outcome
of opening the UART, and any packets and commands (`HeartbeatAssumption`,
`UserSocketsAssumption`, `SockCommAssumption`, `UiAssumption`,
`CompanionAssumption`):

| Theorem | States |
|---|---|
| `TypeCorrect` | `Spec => []TypeOK` |
| `AbsentSilent` | `Spec => []AbsentTasksAreSilent` |
| `AnsweringAlive` | `Spec => []AnsweringTasksStayAlive` |
| `AliveAnswered` | `Spec => AliveMeansAnswered` |
| `Joined` | `Spec => []ThreadsJoined` |
| `NoCircle` | `Spec => []NoCircularWait` |

The argument about rounds is `RoundInv`.  `AnsweringTasksStayAlive` is not inductive:
why a heartbeat is there when the handler looks has to be followed through the
round.  `NotAsked` says that a task which has not yet created its notifier has not
been asked (its request stands and `count` is 0).  `Asked` follows the request of
one that has: before its expiration the request stands, or its answer is under way or
collected; after it the notifier has a post it has not seen, is sending, or has
answered and cleared the request; and while the handler still has to look at the task,
the heartbeat is collected, the request cleared and the notifier waiting.
`RoundSteps` reduces a step to the seven kinds that matter, each with its lemma
(`MainRound`, `TimerRound`, ...); `TimerRound` is where `Prompt` is needed.  From
`Asked` and `AbsentSilent` both properties follow.  `Joined` rests on `JoinInv`,
which adds that a communication task that ends early has created no thread.

`NoCircle` rests on `LateInv`, which counts while the logger has not started: the messages
in `mq_logger` are at least the heartbeats in `mq_heartbeat`, those that the communication
task and the user interface still owe (`Owed`: asked for and not sent), the one that
`main()` has collected and not logged, and two, or three once `main()` has logged that
the threads exist (`MainOwes`).  Each step keeps the balance: what a
notifier sends it no longer owes, what `main()` collects it logs, a task is asked again
only after a line that says it is alive (`HandlerLogsAlive`), the communication task
creates its notifier after a line (`SockStarts`), and `main()` logs one before the timer
starts, so that nobody sends earlier (`NotTimed`).  If `main()` waits to log a collected
heartbeat and `mq_heartbeat` is full, `mq_logger` holds more than three messages
more than `mq_heartbeat` has places, against `QueuesFit`.

### 4.3 The kernel

| Theorem | States |
|---|---|
| `ServicesInvariant` | `TaskServicesSpec => []ServicesInv` |
| `ServicesAreTyped` | `TaskServicesSpec => []TaskServicesTypeOK` |
| `EachInOneList`, `NothingStaysPending` | `TaskServicesSpec => []` of `OneListEach`, `NothingPending` |
| `HighestPriorityAlwaysRuns`, `TopIsAlwaysHighest` | of `HighestPriorityRuns`, `TopIsHighest` |
| `DelaysStayInOrder`, `NotifiedTasksRun` | of `DelaysInOrder`, `NotifiedTaskRuns` |
| `DelaysEndOnTime` | `TaskServicesSpec => SleepsOnTime`, the refinement of `Sleepers` |
| `InsertKeepsOrder` | `vListInsert` keeps a sorted list sorted |
| `QueueIsFirstInFirstOut` | `KernelQueueSpec => FirstInFirstOut`, if `Masked` |
| `QueueInvariant` | `KernelQueueSpec => []IInv`, if `Masked` |
| `BlockingInvariant` | `KernelQueueSpec => []BlockingInv`, if `Masked` |
| `QueueTypesHold`, `BlockedTasksAreInOneList`, `BlockingLeavesNothingPending` | of `KernelQueueTypeOK`, `OneListEach`, `NothingPending`, if `Masked` |
| `PriorityAlwaysInherited` | of `PriorityIsInherited`, if `Masked` |
| `NoReceiverIsForgotten` | of the first half of `NoWakeUpLost`, if `Masked` |
| `NoWakeUpIsLost` | of `NoWakeUpLost`, if `Masked` and no queue is reset with two messages or more |
| `BlockedDelaysStayInOrder` | of `DelaysInOrder` and `TopIsHighest`, if `Masked` |
| `BlocksStayApart`, `FreeBlocksStayMerged`, `HeapIsTyped` | `HeapSpec => []` of `BlocksApart`, `FreeBlocksMerge`, `HeapTypeOK` |
| `DelayUntilIsExact`, `DelayedListIsTheRound`, `TimeOutIsExact` | the comparisons of tick counts in `tasks.c` are right for every width of the count |
| `TimerExpiryIsExact`, `TimerListIsTheRound` | and so are those of `timers.c` |
| `TimersInvariant`, `TimersTypes` | `TimersSpec => []` of `TimersInv`, `TimersTypeOK` |
| `TimesInvariant` | `TimersSpec => [](TimersInv /\ TimesInv)`, if `Punctual` |
| `NoTimerCallsBackEarly` | `TimersSpec => NoneCallsBackEarly`, if `Punctual` |
| `TimersAreAlarms` | `TimersSpec => CallsBackInTime`, the refinement of `Alarms`, if `Punctual` |

**The scheduler and the services for tasks.**  `TaskServicesProofs` holds for any number of
tasks and priorities, any ready lists to start with, any width of the tick count, any
delays and periods and any number of pended ticks (`TickCountAssumption`,
`SchedulerAssumption`, `TaskServicesAssumption`).  No property is inductive alone: that a
task is in one list when it is readied depends on where in its call it stood, and that
the highest priority runs on the lists being sound.  `ServicesInv` has three parts:

* `Good(kernel)`: no list holds a task twice and no two lists hold the same task
  (`Sound`), `uxTopReadyPriority` is high enough (`Top`), and the delayed lists are
  sorted, of their round and not overtaken by the tick (`DelaysOK`, whose
  bounds are open while the tick's loop works the list off);
* `Runs(kernel)`: the current task is of the highest ready priority (`Served`), or a
  switch is pending or recorded;
* `ControlOK`: what the place of a task in its call says of the lists.  Every task
  but a deleted one is linked, and the idle task is ready (`LinkedOK`), so that there is
  always a task to select; `xPendingReadyList` holds only tasks whose notification has
  arrived (`PendingOK`); the scheduler is suspended by the current task only and
  exactly in the sections between `vTaskSuspendAll` and `xTaskResumeAll` (`LockedOK`); a
  task that sleeps for a notification can be seen to wait for it (`WaitingOK`); and the
  current task is on a delayed list only just before it gives way (`AsleepOK`).

The proof has three floors.  `ListProofs` says what insertion and removal do to the
members, the order and the index of a list.  `SchedulerProofs` has one lemma for each
function of the record: what it preserves of `Good` and `Served`, which tasks it links and
what it leaves alone (`Framed`).  `TaskServicesProofs` has one lemma for each service and
interrupt.  For the refinement, each step is one of the three kinds of `DelayStep`: tasks
are woken, a tick passes, or the current task goes to sleep for n ticks; `DelaysOK` says
that no tick passes over a sleeping task's wake time, and the theorems about tick counts
that the mapping counts down by one with each.

These theorems are about tasks that call the services of `tasks.c`; event
lists are then empty.  With the calls of `KernelQueue`, which fill them, `BlockingProofs`
proves what stays true; `HighestPriorityRuns` does not, with mutexes (`priority_gap`).

**The queues.**  `KernelQueueProofs` holds for every length, kind of object, set of items and of
tasks and block times (`KernelQueueAssumption`, `QueueBufferAssumption`), and assumes nothing of
the scheduler: the order of items does not depend on who runs.
`FirstInFirstOut` is a refinement: initial states map to initial states, and every step
to a step of `AtomicQueue` or a stutter.  It needs `IInv`: the two ends of the ring are as
far apart as it has items (`EndsMeet`; without it a send could overwrite the first
item), a call's item fits the object, and a receiver in its critical section still
holds the count it loaded (`CountIsFresh`).  The last is where `Masked` is used and
where run `unmasked` breaks.  Its first lemmas are about the ring:
which sequence each of the copies leaves.

**Queues and the scheduler together.**  `BlockingProofs` is about `KernelQueueSpec` whole: tasks
that block, with or without a block time, those that wake them, the tick, the switch,
and interrupts between any two steps.  `BlockingInv` has, next to `IInv`:

* `ControlOK`: the kernel is `Good`, every task is on a list and the idle task on a ready
  one (`AllLinked`); the scheduler is suspended and the interrupts are masked by the
  current task only, and exactly where its label says (`CurrentOK`); the queue is locked
  only between `prvLockQueue` and the two halves of `prvUnlockQueue` (`QueueAt`); and a
  task whose event is on a list, or has been taken from one while the scheduler was
  suspended, has placed itself there in the call it is still in, and is asleep
  (`WaitsAt`).  The last is the heart: it is why a task that places itself on an event
  list is on none, why one that times out is taken off the list it is on, and why a
  task that wakes is never linked twice;
* `OrderOK`: the value of a task's event item is that of its priority, through every
  change of priority, so that what `prvGetDisinheritPriorityAfterTimeout` reads from the
  item of the first task that waits is that task's priority.

One lemma for each function of the record says what it does to the lists (`WakesNow`,
`PlacedIs`, `WakesInherit`, ...; those for the resumption and the tick are the ones of
`SchedulerProofs`, generalised to event lists), then one for each action that
`ControlOK` is kept, and one for each that changes a priority that `OrderOK` is.

`PriorityAlwaysInherited` needs `MutexOK` on top, for the object that is a mutex:

* it is given or has a holder (`GivenOK`), which alone gives it and does not ask for
  it (`RoleAt`), and a task other than the holder runs at its own priority (`OwnOK`);
* with a holder (`LentOK`): no task that waits is above it, one that lent it a
  priority remembers the loan, and a priority that is not the holder's own is that of a
  lender whose call is not over, and which has not spent its block time.  A task may come
  to give up with no block time and its loan still recorded, which `queue.c:1468-1474`
  takes for impossible (in an assertion that is compiled out): middle lends low its
  priority and times out; low gives the mutex just then, so that middle goes round once
  more; high takes the mutex first.  The loan is then void, and no priority is wrong: where
  the holder's priority is not its own, another's loan stands;
* without a holder (`FreeOK`): a task that is ready, and not below any that waits, is about
  to take the mutex, and no task below those that wait runs unless a switch is
  pending.  This is the difficult one: a task that takes the free mutex inherits nothing,
  so it must not be below a task that already waits.  It holds because a give wakes the
  first of those that wait, the highest (`InOrder`, which needs `OrderOK`), and because a
  task woken while the scheduler is suspended is switched to at the resumption.

Most steps leave all of this alone; `Steady` says when (no priority changes, nobody
joins those that wait, and nobody who is ready stops to be), and a lemma each deals
with the steps that do not: a take, a give, the placing on the event list, a timeout,
the resumption and the switch.

**No wake-up is lost.**  `NoWakeUpLost` says that somebody is on the way, which is not
inductive: one on the way may find that another has been quicker, and then nobody is.  What is
inductive is a count (`Counted`): while tasks wait on an event list, those on their way to look
at the queue again (`Coming`) are no fewer than the messages, or the room, they could find,
less the wake-ups that interrupts have recorded in the lock of the queue and left to
`prvUnlockQueue` (`Owed`).  A task that takes a message leaves those on the way and lessens
what is there, by one each; one that brings a message wakes a task, or the interrupt records
it; one that finds nothing is the proof that nothing was owed; a task that times out and
finds the queue not empty goes round once more, and is still on its way; and a look at a
message, which takes nothing, wakes another task in its place.  `CountedStep` is that balance
once for all, and each action one application of it.  The reset is the exception: it empties
the queue, which owes room to as many senders as there were messages, and wakes one
(`queue.c:269`).  With two messages, two senders that wait and a third task that resets the
queue, the first sender may come and go and the second sleep on with room in the queue;
TLC finds that behaviour with three tasks.  Hence the hypothesis `ResetsOfAtMostOne` of
`NoWakeUpIsLost`, which `NoReceiverIsForgotten` does without.

**The timers.**  The part of `TaskServicesProofs` about `SoftwareTimers` holds for every number of
timers, length of the command queue, width of the tick count and any number of
commands under way (`SoftwareTimersAssumption`, `TickCountAssumption`).  `TimersInv` is about data:
the two lists are sorted and share no timer, what the timer task has in hand is in
neither, and where it executes a command it has one.  `TimesInv` is about times, and is what
`timers.c` never says: which of two tick counts is the later cannot be seen from them.  It has
four parts.  Commands that start a timer, in the queue and in hand, are no older than the
time the timer task is late (`CommandsFresh`, `InHandFresh`), so that comparisons with them
are right.  A timer task that waits will wake for the head of its list, or for the wrap
(`WaitsOK`).  And each list is of the round it is taken for (`RoundsOK`): nothing in the current
list is further behind the time than the timer task is late, and nothing in either so far ahead
that the count could come round to the last sample without a sample in between.

The last needs `Punctual`: a period and the greatest lateness together are less than a round
(`p + MaxLate <= MaxDelay`).  It is a condition on the use of timers, not a convenience.
The timer task sees a wrap only as a sample below the last one (`timers.c:631`).  With a
period of 3, a lateness of 1 and a round of 4 the count can pass the last sample unseen; the
lists are not switched, and a timer calls back a whole round late: TLC finds `CallsBackInTime`
violated there.  For the firmware, with a period of a third of a second (`main.h:42`) and 32 bits
of ticks of a millisecond, it means that the timer task is not kept from running for seven weeks.

`NoTimerCallsBackEarly` then reads off that a timer found expired is due by as much as its
expiry time has passed (`ExpiredIsDue`, `LeftWasDue`, `NowIsTimed`).  `TimersAreAlarms` maps every
action to one of `Alarms`, or to a stutter.  A tick makes every timer due one tick sooner,
whether it is in a list (`TickInRound`), in the queue or in hand (`BusyTick`); switching the lists
changes no due time, as the second list is then of the round of the tick count; a command that
is received takes its timer out of its list, which is a stop unless a restart of it is
still to come; and a callback is `Ended` or `Reloads`, whichever of the three ways it came.
`AsksNoRestart` says that only the timer task itself sends restarts, which the mapping needs to
tell them from the commands of tasks.

**The heap.**  `HeapInv` adds that blocks end inside the heap.  Its heart is `InsertedBlock`: a block
put among free blocks that it does not overlap, joined with its neighbours,
leaves all apart and no two touching.  The split keeps the alignment because
every wanted size is a multiple of it (`WantedIsAligned`), and leaves room behind the
header of the rest because `heapMINIMUM_BLOCK_SIZE` is two headers.
`LeakInv` adds, for `NothingLeaks`, that the blocks tile the heap (`Tiled`: the first
starts where the heap starts, and behind each is another or the end) and that
`remaining` is the sum of the free sizes (`Counted`).  The sum folds over a set; that it
is the one function that satisfies the fold's equation, so that a block put in or taken
out adds or subtracts its size (`SumUnfolds`, `SumWithout`), is an induction over the
finite subsets of a set, done by a smallest counterexample (`WFMin`) because a theorem
that takes an operator cannot be instantiated.

**The tick count.**  The theorems on tick counts in `TaskServicesProofs` are what
`SleepsOnTime` and `CallsBackInTime` rest on: a comparison of times modulo the width
tells what has passed, as long as that is less than a round.

### 4.4 Only model-checked

Everything under fairness (`HcsrCommandsHandled`, `AttachedCyclesRun`,
`SampledLogLinesWritten`, `UartFailureReported`, `LoggerComesToWork`), which the prover
cannot reach.  Every invariant, action property and refinement that a passing run checks of
the rest is stated by a theorem; those with a hypothesis (`Masked`, `ResetsOfAtMostOne`,
`Punctual`, and the conditions on the BeagleBone above) hold without it only on the instances
of the runs, where it is met or cannot bite.

## 5. Not modelled

* The bytes: framing of packets (a byte lost on the wire shifts all later
  packets), truncation in `UARTSend`, the text of messages.  The two programs are
  therefore not composed.
* The compensation formulas of the BME280 and its register set-up, the I2C driver.
* In the kernel: event groups, stream buffers and co-routines, which the program does not
  use; recursive mutexes, queue sets, the registry, the deletion of queues; pended
  functions of the timer task; queries and statistics; tickless idle, the abort of a
  delay and the MPU, which the configuration compiles out; registers and stacks.
* Two behaviours of the timer task are modelled and allowed by `Alarms`: on a full command
  queue its own restart of a timer is lost without a report and the timer stops
  (`timers.c:877`; in the run `MaxAsked` keeps room, in the theorem nothing does), and a restart
  behind a stop makes the stop void (`timers.c:779`).  Commands without end also keep it from
  its timers (`prvProcessReceivedCommands` loops until the queue is empty); `MaxLate` bounds
  that.  The firmware sends one command to one timer.
* Start-up before the scheduler runs (the receive interrupt is enabled before
  the queues exist, `main.c:46`).
* An echo that never comes (`Task_HCSR04` then waits for ever, `hcsr04.c:172`).
* On the BeagleBone: start-up before the threads exist, handlers of the timer that
  overlap, partial reads of the UART, the command table and the thresholds, the
  variant for Ethernet (compiled out), and a semaphore destroyed under the
  notifier of the user interface (undefined).
