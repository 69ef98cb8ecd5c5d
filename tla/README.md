# Embedded PTP time server: TLA+ specifications, model checks and proofs

The program is bare-metal C for one Cortex-M33: a small preemptive kernel
(`src/src/os`), drivers (`src/src/hw`) and three applications (`src/src/apps`)
that together serve NTP time disciplined by a GPS receiver. Everything that is
hard about it is concurrency on one core: threads that are preempted at any
instruction, interrupt handlers of several priorities, and a few critical
sections (PRIMASK) between them.

Paths below are relative to the repository (`src/os/schedule.c` is
`src/src/os/schedule.c` in `PROJECT.json`).

## 1. Inventory

| Component | State | Operations | Talks to | Correct when |
|---|---|---|---|---|
| Scheduler `os/schedule.c` | TCB links and states, ready ring and count per level, sleep list, `RunPt`, `NextRunPt` | `add_thread`, `init_scheduler`, `schedule`, `sched_block`, `sched_unblock`, `sleep`, `unsleep`, SysTick, PendSV | called by semaphores, timer handler; PendSV by hardware | lists and counts agree with the states; one RUNNING thread; the most urgent ready thread is next; no peer starves |
| Semaphores `os/semaphore.c` | value, blocked list | `c_wait`, `c_signal`, `b_wait`, `b_signal`, `reset_semaphore` | scheduler; used by everything | mutual exclusion; no wakeup is lost; waiters by urgency, then arrival |
| Sleep timer `hw/timer.c` | TIM2 counter, CCR1, flag, enable | `arm_timer`, `get_raw_time_ms`, `TIM2_IRQHandler` | `sleep`/`unsleep` | alarm set for the first thread due; nobody early (a stale compare flag breaks this), nobody left asleep |
| FIFOs `os/fifo.c` | ring buffer, two counting semaphores, a mutex (not the byte FIFO) | `fifo_put/get`, `fifo8_put/get` and their non-blocking forms, `fifo8_clear` | UART, network, sockets | what is got was put, in order; the semaphores sum to the free and used slots |
| UART `hw/uart.c`, `os/syscall_stub.c` | two byte FIFOs per port, data and control registers | `uart_out_char`, `uart_in_string*`, handler, `uart_disable/enable`, `_write` | interpreter, GPS task, `printf` | bytes leave in order; a queued byte is eventually sent; handlers never block |
| Packet buffers `os/network.c` | free list, two counts, mutex | `pkt_alloc_rx/tx`, `pkt_free_rx/tx` | Ethernet driver, protocols | no block in two hands; counts exact; an allocation below its cap succeeds (it does not) |
| Ethernet driver `hw/ethernet.c` | RX and TX descriptor rings, indices | `ETH_IRQHandler`, `ETH_receive_frame`, `init_tx_descriptor` | DMA, receive/send tasks | every frame signalled; ring never without buffers; completions match packets |
| Protocols `os/network.c` | port map, `timestamp` | `process_*`, `send_frame`, three tasks | sockets, pool | each frame's buffer is freed once; timestamps belong to their frame |
| Heap `os/heap.c` | tree of nodes, lock | `malloc`, `free`, `find_ptr`, `heap_stats` | `add_thread`, sockets, FIFOs | blocks disjoint, of the size asked, freed blocks merge |
| GPS sync `apps/gps.c` | PPS snapshot, lock counter, integral | `gps_timesync`, `TIM3_IRQHandler` | PTP clock, UART 2 | a sentence is paired with its own pulse once all goes well again; the synchronisation goes on |
| Time server `apps/timeserver.c` | response template | `timeserver`, `get_time` | socket FIFO, pool | seconds and fraction of one instant |
| Interpreter, clocks, GPIO, button, debug, watchdog, startup | little or none | straight-line set-up, printing | | not worth a model; boot order is part of `Kernel` |

The hazards this code is exposed to, each at its line, are listed in
`PROJECT.json` with the properties that cover it, or the reason why none does.

## 2. Modules

| Module | Models |
|---|---|
| `ThreadLists` | the data structures of `schedule.c` and every function on them, as operators from the globals to the globals |
| `Kernel` | threads, SysTick, PendSV, signalling handlers, and the four semaphore operations as a state machine over `ThreadLists` |
| `RunQueues` | the abstract specification: queues of threads, no links, no counts, no program counters |
| `KernelRefinement` | the refinement mapping from the lists of `Kernel` to the queues of `RunQueues` |
| `MCKernel` | instances of `Kernel` for TLC |
| `SleepTimer` | `sleep`, `unsleep` and the TIM2 compare channel over `ThreadLists` |
| `MCSleepTimer` | instances of `SleepTimer` for TLC |
| `Ethernet` | packet buffers, descriptor rings, the Ethernet handler and the tasks of `network.c` and `timeserver.c` as one state machine, with the DMA |
| `MCEthernet` | instances of `Ethernet` for TLC |
| `Powers` | the powers of two, as a recursive function |
| `HeapBlocks` | the abstract specification of the heap: a set of disjoint aligned blocks |
| `Heap` | the walks of `malloc`, `free`, `find_ptr` and `heap_stats` over the tree, one turn of a loop a step |
| `BoundedQueue` | the abstract specification of the FIFOs: a queue of at most so many entries |
| `Fifo` | `fifo_put` and `fifo_get`, any number of tasks, six steps to the call |
| `Uart` | transmission on a port: writers, byte FIFO, handler, hardware FIFO |
| `GpsSync` | the pulse's handler, the receive side of USART 2, `fifo8_clear` and `gps_timesync` |
| `PtpClock` | `get_time` and the clock it reads, as operators |
| `FifoProofs` | the theorems about `Fifo` |
| `EthernetProofs` | the theorems about `Ethernet`: packet buffers, both rings, where each block is |
| `UartProofs`, `SleepProofs` | the theorems about `Uart` and `SleepTimer` |
| `GpsProofs` | the theorems about `GpsSync`, and that about `get_time` |
| `HeapProofs` | the theorems about `Heap` |
| `ListProofs` | what each operator of `ThreadLists` does to the lists, proved |
| `KernelProofs` | the theorems about `Kernel` |

### How the state and the steps correspond to the code

*Atomicity.* A step is one critical section, or one handler. Every function of
`schedule.c` masks interrupts from its first to its last access to shared state
(except `sleep`, below), so that each is one operator. A thread takes a step
only if it is `RunPt` and PendSV is not pending (`Executing`): PendSV has the
lowest priority, but threads have none, so once the mask is lifted PendSV comes
before the thread's next instruction. Handlers, and SysTick, run whether or not
PendSV is pending.

*Waits.* `c_wait` and `b_wait` test in one critical section and call
`sched_block` after leaving it. The model has a step for the test (`CWait`,
`BWait`), the state `"window"` between, and a step `Block`; a thread that is
resumed in state `"blocked"` tests again, as the `while` loops do. The retry of
`c_wait` unmasks with `enable_interrupts()`; its callers in thread mode have
interrupts enabled anyway.

*Wakeups.* `c_signal` and `b_signal` end in `NVIC_SetPendingIRQ(SysTick_IRQn)`.
`SysTick_IRQn` is -1 and that function ignores negative numbers
(`inc/core_armv8mml.h:2385-2391`), so `WakeFirst` requests nothing.

*The tick race.* SysTick (priority 14) outranks PendSV (15). A tick that became
pending while a thread was inside `sched_block` is served between `schedule()`
and the switch it asked for. `Spec` lets that happen; `SlottedSpec` is the same
machine without it. Properties that survive it are checked and proved under
`Spec`, the others under `SlottedSpec`, and the run `tick_race` shows what it
breaks. Ticks are 1 ms apart (`init_scheduler(1)`), so that only one can fall
between a request and its switch (`ticked`).

*Boot.* `reset_handler` masks interrupts, `network_init` and `main` add the
threads, and `init_scheduler` unmasks and starts the first. `Booting` is
`RunPt = NULL`; threads are added in every order, of which the program's is one.

*Sleep.* `sleep` reads the time, then edits the lists and arms the timer in the
same critical section, and calls `schedule()` after leaving it: `CallSleep`,
`GoToSleep` (the counter may advance up to twice between them) and `Yield` (a
tick, the alarm or both may come first). TIM2 counts microseconds modulo 2^32;
the model counts modulo `W` with `K` counts to the millisecond. The compare flag
rises when the counter reaches `CCR1` and only then, whether or not the
interrupt is enabled: with no thread asleep it rises once a lap, at the time of
the last alarm. That is the hardware's behaviour the code depends on; it is the
one external part. The tick race is there as in `Kernel`: a tick may also fall
between the last call of `sleep` and its PendSV. Three history variables, which
no guard reads, say how long a thread still has to sleep (`left`), whether the
flag was up when `sleep` armed the alarm (`stale`), and whether a tick has ever
fallen before a requested switch (`raced`).

*Frames.* In `Ethernet` a step of a task runs from one call that may block, or
one critical section of `pkt_buff_mutex`, to the next; each FIFO operation is
atomic. Semaphores simply block: how they do it, and how that fails, is
`Kernel`'s subject, and the two are not composed. The handler has two steps,
its read of `DMACSR` and its write of ones to it; the DMA acts at any time, also
between them, tasks do not. The flag `ETH_receive_frame` calls
`DESC_WB_LEN_ERROR` is bit 15 of the upper half of RDES3, which is the OWN bit;
the model tests that. So frames with an error, which `MTLRQOMR.FEP` forwards,
are processed as good ones. The use of an empty free list reads a link at
address 0; what follows is undefined, and `pool.dry` ends the behaviour.
Assumed of the DMA: it uses a descriptor if and only if it owns it (the tail
pointers only wake it), raises RI once for a frame, and stores a time stamp only
if it owns the following descriptor too. Which frame is ignored, answered or
delivered is a free choice, as is a failed allocation in `process_udp`.

*Heap.* One step is one turn of a `while` loop: what node the walk is at, and
which child it comes from (`skip`). `heap_lock` is held from the first turn to
the last, so that one call is in progress at a time. `HeapBlocks` states what
the caller sees, with the tree's leaves for the blocks: a request takes any
aligned free block of the rounded size, and is refused only if there is none.
`calloc` and the wrappers are calls of these.

*FIFOs.* In `Fifo` each of the two waits, the copy, the index and the two
signals is a step; a wait that succeeds is taken in one (its inside is
`Kernel`'s subject). `BoundedQueue` has a value enter the queue when `tail`
passes it, and leave it when a consumer has copied it: with the mutex these are
the points at which the order is decided.

*UART, sending.* A task is interrupted between any two accesses to what it
shares with the handler; the handler is not interrupted by tasks, but the
hardware goes on under it. `uart_out_char` decides in two reads (`TestSize`,
`TestReady`) whether it may write the data register itself. The
read-modify-write of `CR1` is one step (`Enable`): the handler may come between
the read and the write, but it only clears the bit that is being set, and the
task and the handler are the only ones to write that register on a port whose
`uart_disable` nobody calls (on USART 2, which the GPS task reads from, nothing
is sent after start).

*GPS.* An entry of `rx_fifo` is a sentence, not a byte. One for which there is
no room is lost. One that is cut short, because the FIFO filled up within it,
may be any sentence to the parser, with any second that `Garbled` allows: there
is no checksum. Its line may stay open, and then the rest of what comes next
joins it (`ReceiveCut`, `rx.open`). One whose fields are empty, as both are
without a fix, has too few for the parser, since `strtok` takes adjoining commas
for one (`Unreliable`, `Parsed`). GPRMC carries no second that the parser reads.
An interrupt of TIM3 without a snapshot leaves `pps_ts_q32` alone and does
everything else; it may come with a pulse, or without one, from the timer's own
overflow (`TIM3_IRQHandler`, `Overflow`). The handlers of the pulse and of the
UART have higher priority than every task, so each is one step (that of the
pulse may interrupt the other, but they share no variable that either writes and
the other tests: the UART that is receiving is already enabled). The task's
`fifo8_get` is two steps, the wait, and the copy with the index, the signal and
the parser: the handlers read neither `head` nor what the parser writes, so that
within the second they see what they see before or after it. `uart_disable` is
four steps, the enable bit, two resets, and, for the same reason, both indices.
`second` numbers the pulses; `pps_ts_q32` is the number of the pulse the handler
last noted, so that the phase error is zero seconds exactly if the two agree.
Which way the judgement goes (no fix, coarse, small, large) is a free choice,
for the clock's own error is any. Two history variables, which no guard reads,
say whether all has gone well since the task was last found idle (`clean`: the
pulses had snapshots and fixes and came in time, nothing was cut) and whether an
interrupt fell into the last clear (`undisturbed`).

*The clock's registers.* `PtpClock` has no state: `get_time` is a function of
its four reads, and `From` and `Since` say which reads a clock that advances
by less than a second can give.

*Abstracted.* Stack frames and register contents; `id`, the stack fields; the
idle thread's TCB (only its identity); allocation in `add_thread`.

### Assumptions about callers

A thread does not wait for a mutex it holds, and only a holder signals it (true
of `heap_lock`, `pkt_buff_mutex` and the FIFO mutexes). Events
(`nmea_burst_sync`) are signalled by handlers only. Handlers do not wait: the
only ones that call `c_wait` have just seen a value above zero.

## 3. Runs

| Run | Specification | Instance | Shows |
|---|---|---|---|
| `kernel` | `FairSlottedSpec` | 4 threads on 2 levels, 1 counting semaphore signalled by threads and a handler | list and count invariants, urgency, refinement of `RunQueues`, `RoundRobin` |
| `kernel_ticks` | `Spec` | 3 threads, counting semaphore, mutex, event | `MutualExclusion`, `CountHasRoot`, `BlockedListsExact` with the tick race |
| `sleep` | `Spec` | 3 threads, sleeps of 1 and 2 ms, a counter of `W = 5` that goes round, `K = 2` | sleep list, rings until a tick races, alarm, early wakeups only by a stale flag |
| `ethernet` | `FairSpec` | 4 buffers, 2 receive and 2 transmit descriptors, 3 receive and 2 transmit buffers, socket of 1 | buffers, counts, rings and queues agree; the receive task always gets back to waiting |
| `fifo` | `Spec` | 2 producers, 2 consumers, 2 entries, 2 values | places and exclusion; refinement of `BoundedQueue` |
| `gps` | `FairSpec` | pulses modulo 2, 2 sentences in the FIFO, bursts without fix or date, pulses without snapshot, cut lines, lock after 2 | FIFO counts, pairing, the synchronisation goes on |
| `uart` | `FairSpec` | 1 writer, FIFO of 3, hardware FIFO of 2, 2 characters | refinement of `BoundedQueue`; nothing is left behind |
| `heap` | `FairSpec` | 15 nodes, 8 smallest blocks, requests of 1, 3 and 8 of 16, and of 17 | exact tree, no two blocks overlap, refinement of `HeapBlocks`, every call returns |
| `tick_race` | `Spec` | 3 threads, 1 counting semaphore | `CountsExact` violated |
| `lost_wakeup` | `Spec` | 3 threads, 1 counting semaphore | `NoLostWakeup` violated |
| `rx_coalesced` | `Spec` | 5 buffers, 2 receive and 2 transmit descriptors | `NoFrameLeft` violated |
| `pool_dry` | `Spec` | 5 buffers, caps of 4 and 3, 2 receive and 2 transmit descriptors | `PoolNeverDry` violated |

*Bounds.* Three threads of one level are the fewest for which a ring has a
middle, a removal can splice wrongly, and an insertion has a place that is
neither end; the fourth, of a more urgent level, makes `TopLevel`, the sorted
insertion and preemption matter. `MaxValue = 1` lets a counting semaphore be
zero, one, and signalled while threads wait; larger values only repeat this.
In `sleep` the durations differ by one and calls start at any count, so that two
threads can become due in one millisecond, in adjacent ones, or in the order
opposite to that of their calls. `W = 5` is not a multiple of `K`, as 2^32 is
not one of 1000, and longer than a sleep of 2 ms, as a lap is longer than any of
the program's; the counter goes round for ever, so that threads sleep across the
wrap and laps pass with nobody asleep. `MaxLate` is where lateness is no longer
told apart. The two threads of one level are alike in `sleep` (`PeerSymmetry`);
in `kernel` the liveness property makes symmetry unsound. In `Ethernet` the
buffers are alike (`BlockSymmetry`, in the violated runs only); the constants
keep the code's proportions: the pool is smaller
than what the rings, the frame in hand and the transmit cap may take, the
transmit cap is larger than the transmit ring, the receive cap larger than the
receive ring. With two descriptors each ring is full, empty and wrapped, and a
time stamp falls on either side of the end; the theorems are for all sizes.
`CHECK_DEADLOCK FALSE` in these runs: once interrupts are lost the ring can fill
up and the system does stop, and it ends when the empty list is used.

Two producers, two consumers and two entries are the least with which every
conflict of a FIFO occurs: producer with producer for a place, consumer with
consumer for an entry, and the ring full, empty and wrapped. In `uart` the FIFO
of three wraps at a different distance from the hardware's two. In `gps` pulses
modulo two tell a sentence's own pulse from the one before; that one of two
seconds earlier passes for its own is what the theorem, which is for every
modulus, makes up for. Two sentences in the FIFO let it overflow within a burst
of three. A tree of four levels is the smallest where a walk passes an inner
node on the way up whose other child is not a leaf. The request of 17 is the one
that is refused outright, that of 8 is half the heap; whole heap requests are
kept out, see `heap_whole` below.

*Fairness.* `FairSlottedSpec` assumes that boot completes, that PendSV is taken
once pending, and, strongly, that ticks are served: SysTick is free running and
a tick stays pending until served, but threads that keep requesting switches can
disable it for a moment again and again. Nothing is assumed of the threads; each
may loop in user code for ever, which is why `RoundRobin` depends on the tick.

`FairSpec` of `Ethernet` assumes that the handler returns, and, strongly since
the handler interrupts them, that the receive, send and server tasks run. The
network tasks share the most urgent level, where `RoundRobin` holds; the server
gets the CPU because the receive task is waiting for it in the case that counts.
Nothing is assumed of the DMA or the completion task: the transmitter may stop.
That a task waiting for an available semaphore runs again is more than the kernel
guarantees, as `lost_wakeup` and `tick_race` show: `ReceiverReturns` says that
the network code adds no further way to stall.

`FairSpec` of `Heap`: a call that has begun is scheduled and goes on, weakly,
since it is the only step enabled. Nobody has to make a call. `FairSpec` of
`Uart`: the hardware shifts out what it has and raises an interrupt that stays
enabled, and the handler goes on; strongly, since the handler interrupts it, a
writer that has begun a call finishes it. Nobody has to write. `FairSpec` of
`GpsSync`: the receiver sends what it has begun to send, the task runs, and
again and again a pulse that finds the task in time is followed by a whole
burst, and from some time on no line is cut short. Without these the antenna
may be out for ever, the task late for ever, or every line of a kind garbled.
The FIFO's 256 bytes have room for the two sentences, so that a task that keeps
up loses no byte of them.

### What the violated properties mean

* `tick_race`: each occurrence loses a thread from the count, and the thread
  chosen first stays RUNNING without the CPU until a later walk round its ring
  reaches it; if the count of its level drops to zero too early,
  `dequeue_thread` discards the rest of the ring.
* `pool_dry`: with 16 and 16 over 20 buffers, 8 in the receive ring, a frame in
  hand and 16 to transmit are 25 (`os/network.h:145-147`). A transmitter that
  lags, or has stopped for the reason below, gets there, and the next link is
  read from address 0.
* `lost_wakeup`: a receive interrupt between the test and the block delays the
  frame until the next one arrives; for a mutex, until the next `b_signal`.
* `rx_coalesced`: frames are handled one arrival late from then on; after as
  many losses as descriptors, never again. Lost transmit completions leave
  `tx_pending` full in the same way.

### Further counterexamples

These configurations are not among the project's runs, but each gives TLC's
counterexample to one property the code does not have
(`tlc -config <file> <module>`):

* `urgent_wake.cfg` (`MCKernel`), `UrgentWakeSwitches`: a woken thread that is
  more urgent waits for the tick, up to 1 ms. `os/semaphore.c:34` says
  "schedule it immediately", through a call that ignores SysTick;
  `docs/timeserver.md` notes a delay of "as much as 1ms" on the send path.
* `oversleep.cfg` (`MCSleepTimer`), `NoOversleep`: a thread due in the same
  millisecond as the one before it in the list sleeps until TIM2 wraps (about
  71 minutes), because `unsleep` arms the alarm for a count already reached.
* `early_wake.cfg` (`MCSleepTimer`), `NoEarlyWake`: with nobody asleep the
  counter passes the last alarm's time and raises CC1IF, which `arm_timer`
  (`hw/timer.c:27-32`) does not clear; the next thread to sleep is woken at once.
  `os/schedule.c:221` says "sleeps thread for <sleep_time> ms".
* `heap_whole.cfg` (`Heap`), `BlocksDisjoint`: a request for the whole heap
  while part of it is in use climbs above the root (`os/heap.c:40`) and is
  granted a block that overlaps one in use. No caller asks for that much.
* `second_off.cfg` (`GpsSync`), `CountsOnlySmall`: a pass that pairs a sentence
  with the pulse of another second, as after a pulse without a snapshot
  (`apps/gps.c:236`) or a burst whose GPRMC the parser drops for want of a fix
  (`apps/gps.c:61`), may have an error of whole seconds and a small fraction.
  `abs` (`apps/gps.c:215`), which takes an `int`, drops the seconds: the error
  counts towards the lock.
* `uart_shared.cfg` (`Uart`), `ImplementsQueue` with two writers: a character
  is lost, overtaken, or a slot never written is sent. `os/fifo.c:55` declares
  the byte FIFO unsafe for this; on UART 3 `printf` in the GPS task and the
  interpreter do it.

## 4. Proofs

### The kernel

TLAPS proves, for every number of threads, levels and semaphores:

* `TypeCorrect`, `KernelInvariant`, `CountsCorrect`, `OneRunningThread`,
  `RingsCorrect`, `MostUrgentFirst` and `KernelImplementsRunQueues`, the
  refinement of `RunQueues`, under `SlottedSpec`;
* `MutexCorrect`, `TickInvariant`, `TypesWithTicks`, `BlockedListsCorrect` and
  `CountsHaveRoots` under `Spec`, with the tick race and lost wakeups.

The inductive invariant is `TypeOK /\ KernelInv`. `KernelInv` is needed because
the parts hold each other up: `DequeueThread` trusts the count to tell whether
the caller is alone in its ring; the count is right because the caller is the
only RUNNING thread (`Requeue` and `TakeRoot` change it one at a time); and it
is the only one because `TakeRoot` finds the root it takes in an intact ring.
`ListsOK` states intact without reachability: links are inverse to each other
and stay in the level, and no proper non-empty part of a level's threads is
closed under `next_tcb` (`RingWhole`), which makes the ring one cycle. The blocked
lists are a forest: heads and links lead to blocked threads, no two meet, every
set of blocked threads has a link that leaves it, priorities do not decrease.
`ListProofs` has one lemma per list operator; `KernelProofs` one per action and
then the theorems. `RingsExact`, in terms of a walk (`Chain`), follows from
`ListsOK` because `Chain` is the least set closed under `next_tcb`.

The refinement needs the order in which a walk meets the threads, which
`ListsOK` does not give. `WalksWell` says that some sequences are the rings and
lists: `RingOf` and `ListOf` say of one that it starts at the root, that each
thread in it links to the next and the last one to the root or to NULL, and for
a ring that the RUNNING thread, if it is of that level, is the last. Such a
sequence is what `Walk` computes (`WalkIs`), so that the mapping can be read off
it. Each function of the scheduler then has a lemma that names the sequence it
leaves: `EnqueueWalks` puts a thread first, `LeaveWalks` drops the last,
`PickedWalks` turns the ring by one, `InsertWalks` puts a waiter behind its
peers, `UnblockWalks` drops the first. That the RUNNING thread is last is why a
slice that ends needs no relinking: a turn of the root has put it behind its
peers already, and what waits is the ring without its last place. There is one
lemma per action (`AddThreadFollowed` to `WakeFollowed`); waits up to the block
are stutters. The theorem is under `SlottedSpec`, as the run is: with
the tick race a second thread becomes RUNNING and the rings no longer hold the
queues.

With the tick race `KernelInv` is false: `schedule()` is called on top of a switch
it has just requested, a second thread becomes RUNNING, counts fall behind, and a
thread that finds a count of zero drops its ring with ready threads in it. What
is left is `TickInv`: some set `L` of threads (`LiveRings`) that are ready or
running is linked as if it were all of them, and no count exceeds what it has of
`L`; the thread on the CPU, unless it has just blocked, and the next one are in `L`
(`RunsIn`); and the blocked lists are as before, each thread on the list of the
semaphore it waits for (`WaitsOn`). That counts only ever fall behind, never ahead, is why no NULL root is
loaded (`CountHasRoot`); that no step follows a link out of `L`, but for the head
of a blocked list, is why the blocked lists stay exact. The lemmas on `LiveRings`
show a scheduler in which `L` is all there is (`Shown`) and use those on `RingsOK`.
That the walk from a head reaches every waiter (`BlockedChain`) is a counting
argument: the waiters it missed would be linked in a circle.

The mutex proof does not use the lists at all: `MutexInv` is kept because only a
successful test adds a holder and every test reads the value.

### The FIFO

`FifoProofs`, for every size, every set of values, and any number of
producers and consumers: `FifoInvariant`, `Types`, `PlacesAreConserved`,
`CopiesExclude`, and `FifoIsAQueue`, the refinement of `BoundedQueue`. The
invariant adds to the two properties where `tail` is: as far ahead of `head` as
there are entries, counted from the calls in progress. Without it nothing says
that a producer writes outside of the entries, and without the mutex it would
not be inductive, as two tasks between copy and index would count the same
place. The counts change by one when one task moves (`Moved`, `CountsMoved`), which is all that is needed of cardinality. The
refinement has one lemma per action; a step of `fifo_put` is `Offer`, `Enter`
or a stutter, one of `fifo_get` `Take`, `Use` or a stutter.

### The Ethernet driver and the packet buffers

`EthernetProofs`, for every number of buffers and descriptors and all caps:
`PoolInvariant`, `SendingNeverBlocks`, `EthernetInvariant`,
`EthernetTypes`, `FramesAreComplete`, `PacketsInOrder`, `EveryBlockKept` and
`CountsExact`. None needs a condition on the caps: until the list has been used
empty is part of what those about blocks say, and that the program's caps let it
come to that is the run `pool_dry`.

The invariant has four parts, each of which needs those before it:

* `PoolInv` counts. The transmit count bounds the packets in the tasks' hands,
  in `tx_fifo` and in `tx_pending`, so a packet about to be put has a place in a
  `tx_fifo` of `TX_PKT_MAX`; the receive count covers the ring and the frame in
  hand; and until the list has been used empty, the two counts and the list's
  length add up to the pool. It needs of each task that what it holds is told by
  where it is (`Hands`).
* `RxInv` is about the receive ring. The filled descriptors are a run from the
  current one up to the DMA's, in which each stamped frame is followed by its
  context; and there are at least as many frames as the receive task has been,
  or is to be, told of (`RxSignals`). `ReadsCompleteFrames` needs the second:
  one semaphore count more than frames, and the task would read a descriptor
  the DMA owns. Interrupts that merge only make it smaller, which is why the
  theorem holds although `NoFrameLeft` does not.
* `TxInv` is about the transmit ring. The DMA owns a run of `m` descriptors,
  which hold the last `m` of the packets it was given, and what the completion
  task is told of and the DMA still has are together no more than those. So the
  head of `tx_pending` is sent before it is freed; and since `tx_pending` has a
  place for no more packets than the ring has descriptors, the send task finds
  the one it fills free.
* `NoneLost`: until the list has been used empty, every block is somewhere. That
  the places together have room for exactly as many blocks as there are (from
  `PoolInv`) turns "somewhere" into "in one place only" (`BlocksConserved`): a
  sequence of as many entries as its range has members repeats none.

### The UART

`UartProofs`, for every size of both FIFOs, every set of characters and one
writer (the statements' hypothesis; with two it is false, see `uart_shared`):
`Types`, and `UartIsAQueue`, the refinement of `BoundedQueue`. The invariant
`UartInv` says where the head and tail are, that every entry between them was
written, and `NothingAhead`: a writer that has found `tx_fifo` empty and goes to
the hardware itself still finds it empty, and the room it was shown. The last is
why a character does not overtake those in the FIFO, and it depends on the
handler only ever taking entries away.

### The synchronisation with GPS

`GpsProofs`, for every number of seconds, every size of `rx_fifo`, and whatever
the receiver leaves out, the pulses lack and cut lines say: `FifoInvariant`,
`Types`, `PlacesAreKept` and `Paired`. `FifoInv` bounds the two counts through
the two resets of `fifo8_clear`, between which places are counted twice.
`PairInv` adds what holds while all goes well (`AllGoesWell`): the order of a
burst, that a GPZDA in the FIFO or on its way is preceded by the GPRMC of the
same second (`InOrder`), which found the FIFO empty, so that it cannot be the
one dropped (`RmcFitsIn`), and that nothing comes in once the FIFO has been
cleared (`Cleared`). A pulse with a snapshot and a fix that finds the task idle
starts this afresh, however wrong things were before. A later burst may lack its
GPZDA: the task keeps the GPRMC it has and reads on into the next second, whose
pulse the handler has noted by then.

### The sleep timer

`SleepProofs`, for any threads, durations and widths of the counter, with a
counter that wraps and ticks at any point, those between the last call of
`sleep` and its PendSV included: `SleepInvariant`, `Types`, `SleepListKept` and
`AlarmStaysSet`. `SleepInv` has the sleep list as one sorted list from its root
that holds all of the sleeping threads (`SortedList`), the compare register at
the root's time (`AlarmSet`), and of the rings only what is left of them when
ticks race, as in `TickInv` of the kernel: some set `L` of ready threads is
linked as if it were all. That is enough to tell the rings and the sleep list
apart, although they share `next_tcb`.

`RingsKeptUntilRace` has the invariant `RingInv`: until `raced`, the rings are as
in the kernel, and one thread runs, the state between the two parts of `sleep`
included, when `RunPt` is already SLEEPING (`OneRuns`).

`OnlyStaleFlagsWakeEarly` has the hypothesis `ShortSleeps`, that no sleep is
longer than a lap of the counter (the program's longest is far shorter than 71
minutes; the alarm compares the counter, not the time). It needs `TimeInv`: a
flag that is up means that the root is due, whoever was the root when it rose,
unless it was up when the alarm was armed. One that goes to sleep with a time
already past, or becomes root in front of another, re-arms the alarm, and the
flag must not be up on behalf of the former.

### The heap

`HeapProofs`, for every size of the heap, every smallest block, and any set of
requests none of which rounds up to the whole heap (`ModestRequests`, the
statements' hypothesis; a request may be for more than there is, and is
refused): `HeapInvariant`, `HeapTypeCorrect`, `TreeAlwaysExact`,
`BlocksAlwaysDisjoint`, and `HeapImplementsBlocks`, the refinement of
`HeapBlocks`. Without the hypothesis the walk of malloc climbs above the root,
see `heap_whole`.

The proofs rest on two invariants:

* `HeapInv` is about the tree and the walk in it. Below what is no branch
  nothing is in use (`TreeShape`), and of branches without need there is at most
  one, above the node that malloc is about to take or free has just given back
  (`OneStale`): this is what `TreeExact` becomes inside a call. A walk is at the
  size of its node (`AtSize`); malloc has not been below a free node, so that it
  turns back only at a node with something in use below it; and `skip` is a child of
  the node it is at, or comes before its children (`SkipBehind`), since a `skip`
  left over from elsewhere must not pass for a child already visited. That what
  `heap_stats` counts is at most what it has passed bounds `used`.
* `PassedInv` is about addresses. Each node stands for a part of the heap
  (`Base`, `End`), each leaf holds the address of its part (`LeafAddr`), and two
  parts meet only if one is below the other, so that blocks do not overlap. A
  walk passes the parts in the order of their addresses; `Reached` is how far it
  has got. Up to there malloc has found no free block of its size, `find_ptr`
  not the block it looks for, and `heap_stats` has counted every block. At the
  root the walk has passed all of the heap, which is when it may refuse, give
  up or report.

The refinement has one lemma per action: a turn that only walks
changes no leaf and is a stutter; the one that takes a node, clears one or ends
the call is the abstract heap's step. Inductions over levels
and over sizes of sets are done by `NatSetInduction`, a lemma about a set in place of the
library's theorem about a predicate; powers of two are a recursive function for
the same reason.

### The clock

`GetTimeExact` (in `GpsProofs`): if the four reads of `get_time` fall in one second's time, and
the clock is not set meanwhile, the result is the time at the first read,
wherever among them the seconds roll over, the wrap of the seconds included.
It is a statement about an operator, for registers of any width; there is
nothing to run.

### Assumptions, and what is only model-checked

Assumptions are those named `...Assumption` in `ThreadLists`, `Kernel`,
`SleepTimer`, `Fifo`, `Ethernet`, `Uart`, `GpsSync` and `Heap`, which TLC evaluates in
every run of those modules, and the conditions in the statements of
`GetTimeExact`, `Types` and `UartIsAQueue` of `UartProofs` (one writer),
`OnlyStaleFlagsWakeEarly` (`ShortSleeps`) and those of `HeapProofs`
(`ModestRequests`, which the program's requests meet). The runs `uart`, `sleep`
and `heap` meet theirs.

Only model-checked is liveness under fairness (`RoundRobin`, `ReceiverReturns`,
`CallsReturn`, `SyncsAgain`, `KeepsSending`), which the prover does not do.

## 5. The plan

What is left is a bound on lateness: by how much a thread may oversleep when
the alarm was armed in time, which needs the time spent with interrupts masked
or in handlers as a parameter. The two counterexamples of `sleep` (`oversleep`,
`early_wake`) say where no bound below a lap exists.

## 6. Not modelled

* Register set-up (clocks, GPIO, PHY, MAC, PPS output, timers), header layout,
  checksums, the parsing of NMEA fields, text output, line editing: straight-line
  data handling with no state that another actor sees. One slip met on the way:
  `uart_search_for_char_nonblocking` compares with `uart_idx` instead of the
  character searched for (`hw/uart.c:164`); its one caller searches for 3 on
  UART 3.
* The PI controller of `gps_timesync`: its properties are those of a closed loop
  of real numbers.
* Fault handlers, which never return, and the vector table.
* The reply's fields in the time server: they are copies, and the hazards of the
  two that are shared (`last_sync_ts`, `timing_lock`) are listed.
* `add_thread`'s and the FIFOs' failure returns.
* The vendored headers under `src/inc` (CMSIS and the device's register
  definitions): about 31,000 of the 33,600 lines that the implementation counts,
  without any behaviour of the program. A map of this code therefore covers a
  small share of the total, and most of what is the program's own.
