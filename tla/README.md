# Weird RTOS: a TLA+ model of the kernel and of the network stack

Weird RTOS (`rtos/`) is a small preemptive operating system for micro
controllers: a priority scheduler with a tick driven sleep list, *conditions* on
which tasks wait, semaphores, and on top of them file descriptors, a network
stack and drivers. This directory holds TLA+ modules for its core, its
network stack, its pipes and its TFTP server, the TLC configurations that check
them, and TLAPS proofs: of the scheduler, of sleeping, of semaphores, of buffer lists,
of pipes, of the network task, and of IPv4 fragments, ARP, DHCP and TFTP.

Reading order: `Sll`, `Kernel`, `KernelProofs`, `Condition`, `Semaphore`,
`SemaphoreControl`, `SemaphoreProofs`, `WaitProofs`; `ByteStream` and `Tcp`,
`ByteLists` and `FsBuffer`, `NetTask`, `Ipv4Frag`, `Arp`, `Dhcp`, `Pipe` and `Tftp`
stand by themselves, with `FsProofs` (buffer lists, pipes), `NetProofs` (ARP, the network task, fragments) and
`UdpProofs` (DHCP and TFTP) beside them; `MCNet` puts the last seven together for TLC.

## The system

| component | state | operations | interacts with |
|---|---|---|---|
| linked lists `utils/sll.c` | head, tail, next pointers in the members | push, pop, append, insert (sorted), search, remove | every list of the system |
| scheduler `kernel/scheduler.c`, `kernel/kernel.c` | ready list, `current_task`; per task `state`, `priority`, `lock_count`, `TASK_SCHED_DRIFT`, `resume_from` | task_add, lock, unlock, get_next_task, task_yield | port, sleep, conditions |
| sleep `kernel/sleep.c` | `current_tick`, sleep list, per task `tick_sleep` | sleep_ticks, add/remove, system tick, wake-up walk | tick handler, scheduler, conditions |
| tasks `kernel/tasks.c` | control block, entry function | create, return of the entry function | scheduler |
| port `port/kernel/*` | interrupt level, PendSV, stacks | first task, control_to_system, tick handler, PendSV handler | scheduler, sleep |
| conditions `kernel/condition.c` | wait list and flags of a condition, SUSPEND records on the stacks of the waiting tasks | suspend_condition, resume_condition, ping | scheduler, sleep |
| semaphores `kernel/semaphore.c` | count, owner, condition | create, obtain, release, destroy | conditions |
| idle `kernel/idle.c` | work array with a lock | add, remove, run | scheduler |
| memory `mem/` | regions with free lists, fixed block lists | allocate, free | everything above |
| file descriptors `fs/` | descriptor list, buffer chains, watchers | open, read, write, data/space callbacks | conditions |
| network `net/` | work queue, condition array of the network task, ARP and route tables, reassembly lists, TCP ports | receive, transmit, timers | conditions, fs, drivers |
| drivers `io/`, `port/target/` | device registers, ring buffers | interrupt handlers that resume a condition | conditions, fs, net |
| servers `api/` | TFTP transfer, display commands | request handlers | net, console |

What is hard about it: tasks interleave at every instruction outside a locked
section; the tick and PendSV exceptions come between any two instructions with
interrupts enabled; a wait has two enders (a resume and its timeout) that race;
a resumed task runs much later than it was resumed, and by then what it waited
for may be gone; records of a wait live on the stack of the waiting task; tick
arithmetic wraps; the network loses, repeats and reorders, and its parts answer
with timers and retries; TCP calls release the port's lock half way; the network
task falls asleep with an array of conditions that other tasks change; buffers
run out in the middle of an operation. `PROJECT.json` lists these hazards at their lines with the
properties that cover each.

What makes each part correct: a task is on the ready list exactly while it is
ready, on the sleep list exactly while a deadline stands for it and on a wait
list exactly while it waits; the ready list is ordered by priority, first in
first out among equals, and the sleep list by deadline across the wrap; no
sleep is early, none is forgotten; the highest ready priority runs; a release
wakes a waiter while there is one; a unit of a semaphore is neither lost nor
given twice; no assertion of the code fires. A buffer list holds the bytes that
were put in, however it is cut; no buffer is lost and no task waits for buffers
that are there. A datagram is put together from its own fragments or expires; a
packet that waits for an address is asked for until it is sent or dropped; an address
is in use only while its lease stands; the network task misses no buffer, work or port
and no timer of a TCP port;
a pipe returns its messages whole and in order; a file is moved block by block.

## Modules

**Sll**: `sll.c` as operations on the sequence of reachable nodes. The sort
callback is passed as the set of members for which it returns TRUE.

**Kernel**: scheduler, sleep, tasks and the Cortex-M3 port. Every C global or
control block field has a variable of the same name. There is one CPU: `mode`
is `boot`, `task` (the code of `current_task`), `pendsv` or `assert`; `pc[t]` is
the stack of program points of task t, innermost first, `"user"` being
application code. Code that runs with interrupts enabled and touches what the
tick handler reads is split at each such access: `scheduler_unlock` is the
decrement and then the test of the drift flag; `sleep_ticks` is lock, deadline,
insertion and switch; `CONTROL_TO_SYSTEM` is the enabling of interrupts, PendSV
and the way back. PendSV is split into saving the task, one turn per resumed
sleeper, and the switch. ASSERT disables interrupts and spins. `left` is a
history variable: the ticks that still have to pass before a timed wait is due.

| action | code |
|---|---|
| `BootAdd`, `run_first_task` | `main` adding tasks, `kernel_run` |
| `isr_sysclock_handle` | tick handler with `process_system_tick` |
| `SaveCurrent`, `sleep_process_system_tick`, `LoadNext` | PendSV handler, `scheduler_get_next_task` |
| `scheduler_lock`, `UserUnlock`, `scheduler_unlock`, `UnlockYield` | `scheduler_lock`, `scheduler_unlock` |
| `task_yield`, `PEND_SV`, `RestoreLevel` | `task_yield`, `control_to_system` |
| `sleep_ticks`, `SleepAdd`, `SleepInsert`, `SleepSuspend` | `sleep_ticks`, `sleep_add_to_list` |
| `task_entry_return`, `scheduler_task_add` | the same |

**Condition** extends Kernel with the two loops of `condition.c`, for an array of
conditions. `suspend_condition` is: compute the timeout, test, join the wait
lists, lock, join the sleep list, switch away, leave the sleep list, unlock,
leave the wait lists and decide. `resume_condition` is: lock, one suspend per
turn, unlock, yield, put back.

**Semaphore** extends Condition with obtain, release and destroy; a condition is
a semaphore's. `held` is a history variable for who has obtained a unit.

**Tcp**: `net_tcp.c`. `port[p]` is the `TCP_PORT` of each end of a connection;
an application task and the network task of its host work on it. The port's lock
makes an operation atomic up to the point where `tcp_send_segment` or a wait
releases it: there the action ends and leaves a record of where it goes on, in
`app[p]` for the application and `net[p]` for the network task. What the code
read before the release is in that record, what it reads afterwards is read in
the next action. That is how an acknowledgment can be processed between the
transmission of a segment and the update of SND.NXT.

| action | code |
|---|---|
| `tcp_connect`, `ConnectSent`, `ConnectReturn` | `tcp_connect`: up to the SYN, the state after it, the end of the wait |
| `tcp_listen`, `tcp_accept`, `AcceptReturn` | the same, `tcp_accept` with one port for server and connection as in `examples/tcp_server_demo.c` |
| `tcp_write_data`, `WriteSent`, `tcp_read_data` | the same, called from `fs_write` and `fs_read` when there is space or data |
| `tcp_close`, `CloseSpace`, `CloseSent`, `CloseWake` | `tcp_close` and its two waits |
| `tcp_send_segment` | its second half, after the lock was released: retransmission structure and transmission |
| `net_process_tcp`, `NetData`, `NetFin`, `NetMove` | `net_process_tcp` and what follows a fast retransmission, the acknowledgment of data and a FIN or state change |
| `tcp_timeout_callback` | the same |
| `Lose` | the network |

`wire` is the set of segments under way; any of them may come next or never. A
segment that finds `MaxFlight` others is lost. Abstractions: a timer that runs may expire at any moment, so the lengths of
timeouts do not matter; the driver has returned a transmitted buffer before the
next retransmission; a segment is sent again as it was, with its old
acknowledgment and window, as in the code; window scale, MSS options, checksums
and port lookup are left out; initial sequence numbers are constants; out of
buffers is the bound `MaxQueue`. `written` and `got` are history variables:
byte i of a stream is the number i.

**ByteStream**: what a connection promises, a stream in each direction. `Tcp`
implements it with `written` for what was sent and what was read plus
`rx_buffer` for what was delivered.

**FsBuffer**: `fs_buffer.c`. A buffer is the room before its data and the data, a
list is its chain, `tail` and `total_length`. Every call runs under the lock of the
descriptor and is one action; a call that has to wait for buffers
(`fs_buffer_suspend`) stays in `waiting` and goes on in the action `Resumed`. The
operations are written as the code has them: piece by piece over the buffers of a
list (`PushPiece`, `PullPiece`, `PeekPiece`, `UpdatePiece`, folded over the chain),
with the reversal that FS_BUFFER_PACKED asks for. `tail` is a variable of its own,
because `fs_buffer_list_divide` leaves it wrong; operations that would then use it
are not enabled (`TailSound`).

| action | code |
|---|---|
| `Push`, `Resumed` | `fs_buffer_list_push(_offset)` with its wait |
| `Pull`, `Update`, `Divide` | `fs_buffer_list_pull_offset`, push with FS_BUFFER_UPDATE, `fs_buffer_list_divide` |
| `fs_buffer_list_move`, `fs_buffer_list_move_data`, `fs_buffer_list_copy_data`, `fs_buffer_list_append` | the same |
| `fs_buffer_get_list`, `fs_buffer_add_list`, `fs_buffer_add_rx`, `fs_buffer_get_rx` | `fs_buffer_get` and `fs_buffer_add` of lists, free and received |

**ByteLists**: what the users of buffer lists see: a sequence of bytes per list
that grows, shrinks, is split and joined. `FsBuffer` implements it
(`KeepsBytes`) with the concatenated data of the buffers of a list.

**NetTask**: `net_condition.c`, `net_work.c`, `net_buffer.c`, and registration,
timer and removal of a TCP port. The network task reads the number of its
conditions, computes its timeout, checks the conditions with their locks held and
sleeps; buffers, works, updates and ticks come in between. The owners of ports
register (array entry, count, update), set timers under the port's lock, and
unregister: off the list of ports, lock, `net_work_add`, wait for the answer. The
processing of a segment and of a timer is reduced to what it does to the timer of
its port (`NetPort`); `Tcp` has the rest.

**Ipv4Frag**: fragmentation (`ipv4_header_add`) and reassembly (`ipv4_frag_add`,
`ipv4_frag_merge`, `ipv4_fragment_expired`) of `net_ipv4.c`, with a network that
loses and reorders fragments and, in one run, delivers them twice; `UseList` and
`ReturnList` are other traffic that takes buffer lists of the device.

**Arp**: entries, retries, waiting packets, replies and link changes of
`net_arp.c`; a reply may come at any time after its request, or never. Packets are sent
by any task, replies and the timer of the cache are processed by the network task, so
`arp_wait` is where the latter is: awake, asleep with the wait it computed for that timer
(`ArpSleep`), or due to run `arp_event`. A packet that goes out passes through
`fd_data_available`, which wakes it (`Told`) or finds nobody to resume; one that is put
into an entry wakes nobody (`Untold`), and the history variable `unheard` keeps the
entries that were changed in this way. Everything else the network task waits for is
`ArpWoken`, at any time. The computation of the wait and the sleep are one step because
the network task holds the lock of the device, which `arp_resolve` runs under, from the one
to the other; ticks in between, and a wake that finds its condition gone, are in `NetTask`
and `Condition`.

**Dhcp**: the client of `net_dhcp_client.c` with `dhcp_event` as its timer and two
servers whose replies are lost, late and repeated; addresses and routes are those
of `net_ipv4.c` and `net_route.c`.

**Pipe**: `pipe.c` at the level of the circular buffer. A header has a cell for its
flags and one for the size, and never wraps; data does.

**Tftp**: one action per call of `tftp_server_process`, by the kind of datagram,
and its timeout; clients that follow the protocol, stop at any time and send their
last datagram again. A full disk or a failing file system shows as a refusal or as
a block that is taken for the last.

**MCKernel**, **MCSemaphore**, **MCTcp**, **MCIpv4Frag**, **MCNetTask** give TLC the
functions the `.cfg` files name; **MCNet** composes seven parts. The theorems are in the
modules whose names end in *Proofs* (see below). Operators whose comment begins
with *Mutant* are wrong variants of the definition that follows them; nothing uses
them except mutation testing.

## Runs

The runs of the kernel and of semaphores use two or three application tasks and the idle task. Two
priorities and a pair of equals are what the comparisons tell apart; a tick
range of 5 to 9 is the smallest in which a deadline wraps several times within
a run and TickAssumption holds for the delays used; `MaxUserLock` 1 reaches
nested locks (application plus kernel); `MaxLate` bounds how long a locked
scheduler delays a due task, 1 being enough to have two tasks due at different
ticks. `MaxLate` is the only bound in a guard of the tick; it keeps the signed
comparison meaningful, as in the code.

| run | instance | shows |
|---|---|---|
| `kernel` | 3 tasks, two of one priority, delays 0..2, locks, yields, one that finishes and is added again | sleep list exact, both lists sorted, no early or forgotten sleep, first in first out among equals, the inductive invariant of the proofs (types and the exact ready list are part of it) |
| `semaphore` | 3 tasks, binary, no timeouts | no lost wake-up |
| `semaphore_timed` | 2 tasks, waits of 0, 1 and for ever | exact count, every suspended waiter on its list, no stale suspend, no running task on the sleep list, ready list exact, no assertion, highest priority runs |
| `semaphore_live` | 2 tasks, destroy, no timeouts, fair | no unit taken from a destroyed semaphore, interrupt level restored; the task of the highest priority obtains what it waits for and runs again after a sleep |
| `tcp_transfer` | client sends 3 bytes in segments of 1, window 2, 2 segments in flight, 2 out of order buffers, no close | implements ByteStream, across the wrap and with an out of order list in the wrong order; no acknowledgment of a byte that did not arrive; a byte that did not arrive will be sent again |
| `tcp_close` | 1 byte, 2 retransmission structures, both sides close at any time | delivered bytes a prefix of those sent; nothing left to do for a port whose close has returned |
| `network` | the seven parts of `MCNet` | see below |
| `kernel_tick_assert` | as `kernel`, a task finishes | *violation*: the tick handler's assertion |
| `semaphore_lost` | 3 tasks, waits of 0, 1 and for ever | *violation*: a lost wake-up |
| `tcp_close_acked` | 1 byte, the client closes | *violation*: a FIN before the data is acknowledged |
| `ipv4_duplicate` | 1 datagram of 6 fragments, each delivered up to twice | *violation*: a datagram with a fragment in the place of another |
| `net_unregister` | 2 ports, `NetTask` alone | *violation*: an owner and the network task wait for each other |

`network` runs one of seven parts in each behaviour. They share no state in the
model (what a part takes from another, such as a free buffer list or a tick, is an
action of its own), so the behaviours of their product would show nothing more.

| part | bounds | properties |
|---|---|---|
| buffers | 3 buffers of 2 bytes, 2 lists, at most 3 bytes in fields of up to 3, a task that waits, threshold 1 | `BufferTypeOK`, `NothingLost`, `LengthExact`, `FlagsExact`, `NoStarvedWaiter`, `ReadsExact`, `KeepsBytes` |
| reassembly | datagrams of 4, 2 and 1 fragments, 2 slots, 6 lists | `ReassembledExact`, `FragmentsExpire` |
| arp | 3 hosts, 2 entries, 2 tries, 2 waiting packets, a network task that sleeps | `PendingWatched` |
| dhcp | 2 servers, a lease of 8 ticks, 2 tries, 2 messages under way | `RoutesLeased`, `LeaseWatched` |
| task | 2 ports, one received buffer, timers of 1 tick | `NetTaskListens` |
| pipe | sizes 14 and 16, messages of 0 and 3 bytes behind headers of 4, alignment 2 | `PipeExact` |
| tftp | a reader and a writer, files of 3 blocks, 2 datagrams under way | `TransferExact` |

A field of 3 bytes spans two buffers of 2, so every reversal has a cut; three
buffers let one list need what another holds. Fewer slots than datagrams and fewer
entries than hosts make the tables overflow. The pipe sizes let data wrap at any
place and a header end at the end of the buffer. Block numbers do not wrap in the
TFTP run: a transfer past block 65535 stalls (below). Buffers and lists are
symmetric: the pool starts with all of them in some order, and names do not matter
to any operation. `task` leaves out one of two initial orders of the ports, which
differ in names only.

`low` and `low2` have the same priority and delays in the run with SYMMETRY,
which checks invariants only, so permuting them is sound.

Bounds of the TCP runs. Two segments in flight are enough for a reordering, a
loss and a crossing of data and acknowledgment; three bytes against a window of
two make the writer wait for space; `MaxQueue` 1 allows one out of order buffer and
one waiting connection request. In `tcp_transfer` it is 2, and the client's sequence
numbers wrap between its second and third byte: the window that a port advertises grows
with what it keeps out of order, so both bytes can be on the list while the first is
missing. `tcp_oo_buffer_process` then puts the third before the second; when the first
comes both are thrown away, and sent again. In the other runs the numbers wrap before
the FIN. With two retransmission structures the SYN, which
stays on the list until the first acknowledgment of data, leaves room for one
segment, so that calls also fail for want of a structure. Retransmission is
unbounded. These runs do not check deadlock: a connection may come to rest, and
an application need not call anything. RtxPending is stated for ports that do
not close, because a FIN ahead of lost data breaks it (see below).

Fairness. `WF` of each task's kernel code and of PendSV: the CPU goes on
executing. `SF` of the tick: the interrupt stays pending until it is taken, so
short sections with interrupts disabled cannot starve it. An application unlocks
what it locks, and (semaphores) releases what it holds. No task is assumed to be
scheduled: that is what the liveness run shows, and only for a task that no
other can preempt, because the scheduler promises nothing to lower priorities.

### What the code does not keep

Five runs expect a violation; each states what a document or an assertion of the
repository says. The counterexamples in short:

* `kernel_tick_assert`: a tick after a task finished and before PendSV halts the
  system in the tick handler's own assertion (`cortex_m3.c:143`).
* `semaphore_lost`: a release picks a waiter that has just timed out; the waiter
  returns an error, the unit stays free and the other waiter sleeps on
  (`condition.c:619`).
* `tcp_close_acked`: `tcp_close` waits for space in the window, not for
  acknowledgments (`net_tcp.c:3108`). If the data before the FIN is lost and the
  FIN arrives, `tcp_process_finbit` acknowledges both, and the closing port
  forgets the data.
* `ipv4_duplicate`: after a merge the expected offset is computed from the older
  buffer (`net_ipv4.c:1023`), so a repeated fragment passes for its successor: of a
  datagram 0..5 the receiver gets 0,1,2,3,3,5.
* `net_unregister`: `tcp_unregister` keeps the lock of the port while it waits for
  the network task to remove the condition of its timer; a network task that is on
  its way to that timer waits for the lock (`net_tcp.c:172` and `735`). Both wait for
  ever.

Two more configurations show what theorems and passing runs leave out. They belong to
no run, and TLC ends each in seconds with a violation:

* `tlc -config MCSemaphoreDestroy.cfg MCSemaphore` (`DestroyResumesAll`, four tasks of
  one priority). `semaphore.c:83` says of `semaphore_destroy` that tasks which wait "will
  be resumed with an error code". `w` and `x` wait; `r` releases, which makes `w` ready;
  before `w` runs, `t` obtains the unit and destroys the semaphore. `resume_condition`
  resumes `x` with an error and yields; `w` runs, finds no unit, appends itself and
  suspends again; `t` goes on and clears the semaphore (line 102). `w` waits for ever and
  is on no list. So `WaitersListed` is claimed for semaphores that are not destroyed
  (`semaphore_timed`, `WaitersOnList`).
* `tlc -config MCArpAsleep.cfg Arp` (`EventOnTime`). `net_arp.c:359` saves "the timeout at
  which we will need to process next ARP event". A task sends a first packet to a host
  while the network task sleeps: `arp_resolve` sets the timer of the cache (583) and
  consumes the packet (591), so `ethernet_buffer_transmit` skips `fd_data_available`
  (`ethernet.c:550-563`), and nobody calls `net_condition_updated`. The network task
  sleeps on with the wait it computed before, or with none: the request goes out when
  something else wakes it, if anything does. So `PendingWatched` leaves out the entries
  that another task has changed since the network task fell asleep.

Other behaviours met while modelling, which the model has because the code has
them and which no run states:

* a finished task that is added again runs with interrupts disabled, because
  `task_entry_return` never restores the level it saved (`tasks.c:97-105`);
* `scheduler_task_add` of a task of higher priority does not preempt the caller
  (`scheduler.c:74`), hence the hypothesis of `HighestPriorityHolds`;
* a waiter that loses the race for its unit waits its whole timeout again
  (`condition.c:419`);
* a waiter that timed out before a `semaphore_destroy` asserts in
  `suspend_condition_remove_all` (`condition.c:156`); destroys are therefore checked
  with waits without timeout;
* `suspend_condition_remove` never updates `old_priority` (`condition.c:196`);
* the FIN that answers a FIN is never sent again (`net_tcp.c:1264`), so its loss
  leaves LAST_ACK and FIN_WAIT_2 waiting for ever, and it sets SND.NXT to
  SND.UNA + 1 even with data in flight;
* `tcp_close` goes to FIN_WAIT_1 from whatever state the port has reached while
  it waited and sent (`net_tcp.c:3122`);
* a SYN that arrives while `tcp_accept` waits for the handshake ends that wait
  with NET_REFUSED (`net_tcp.c:3031`), and the wait is on the server's port also
  when the connection has a port of its own;
* an acknowledgment that arrives before the writer has moved SND.NXT is dropped
  as invalid and costs a retransmission (`net_tcp.c:2475`).

Network task and descriptors:

* `net_condition_add` changes the array without a lock while the network task may
  be in `net_condition_do_remove`: with one port registered while another is
  unregistered TLC finds `NetTaskListens` violated; the `Duties` of the run keep the
  two apart;
* the status of a work that is done before its caller waits is lost, and a work
  with a finite wait that times out stays queued although it is on the stack of a
  caller that has returned (`net_work.c:136`);
* `fs_condition_get` never sets `timeout_enabled` (`fs.c:317`).

Pipes: `pipe_read` never calls `fd_space_available`, so a writer that the full pipe
has stopped is not resumed when it is drained and every later `fs_write` blocks; a
message for an empty pipe is not compared with its size; a pipe that one message
fills keeps FS_SPACE_AVAILABLE; a size that is no multiple of the alignment breaks
the bookkeeping. `PipeAssumption` excludes such sizes and such messages.

Buffers: `fs_buffer_list_divide` leaves `tail` at the buffer that moved
(`fs_buffer.c:1532`) and asserts when no buffer is free; FS_BUFFER_TH without
FS_BUFFER_SUSPEND is ignored; a pull from the tail across buffers returns the
pieces in the wrong order; writers that wait hold what they have taken, so two of
them can wait for each other.

IPv4, ARP and DHCP:

* fragments that come in the order 1, 3, 2 are held until they expire; the drop branch
  clears every slot in use but sets the drop timeout of the arriving fragment's slot
  only (`net_ipv4.c:887`), the others drop fragments until their old timeout;
* a reply that comes after its entry was given up makes the entry usable
  (`net_arp.c:155`), and the next host that takes it over is answered with that
  hardware address (305, 553); an entry that is being resolved can be taken over,
  and packets are leaked when the link is down at the reply (168);
* the retry of a DHCP request is not capped at the end of the lease
  (`net_dhcp_client.c:241`, comment in 83); any reply overwrites `gateway_ip`
  (456), so an acknowledgment that names another gateway than the one before, or none,
  makes a wrong default route (579) or leaves the old one when the lease ends (114);
  `RoutesLeased` rests on every server naming one gateway in all its replies; the
  type and lease time of a message without those options are not initialised.

TFTP: a repeated request of a client ends its session, and a late repeated write
request truncates a finished file; a read error is taken for the end of the file and
a short write for success; when the last acknowledgment is lost the repeated block
is answered with an error, as is an acknowledgment for an earlier block (a TODO in
line 323); blocks past 65535 are out of bounds.

Read, not modelled: splitting a free block in `mem_dynamic.c` (about line 427) sets
its physical neighbour to itself and writes past the header; PPP accepts a frame
with a wrong checksum (`ppp_hdlc.c:97`), and an IPCP acknowledgment before the
corrected request sets the route to address 0 (`ppp_ipcp.c:220`);
`net_process_udp` finds the port under the global lock and uses it after
releasing that lock (`net_udp.c:309`), so an unregistration in between leaves a stale
port;
`net_socket_address_match` overwrites the result for the address by that for the
port; the condition of the second I2C bus is unlocked by enabling the interrupts of
the first (`i2c_stm32f103.c:193`); `suspend_condition` reads `*num` where `num` is NULL
(`condition.c:538`).

## Proofs

A theorem holds for every set of tasks, priorities, delays, tick range, lock depth,
semaphores, hosts, servers and so on that the ASSUMEs allow. Each component has an
inductive invariant; its proof has one lemma per action, and the theorems about the
properties the runs check follow from it.

| module | theorems | hypothesis |
|---|---|---|
| `KernelProofs` | `KernelInvariantHolds`, `TypeCorrect`, `ReadyListCorrect`, `ReadyListInOrder`, `EqualsAreFifo` | |
| | `NoAssertHolds`, `InterruptsEnabled` | no entry function returns (`MayFinish = {}`) |
| | `HighestPriorityHolds` | no task is added at run time (`MayAdd = {}`) |
| | `SleepInvariantHolds`, `SleepListCorrect`, `SleepListInOrder`, `SleepNeverEarly`, `SleepNeverForgotten` | |
| `SemaphoreProofs` | `SemInvariantHolds`, `SemTypesHold`, `NoUnitLost`, `SemReadyList` | |
| | `WaitInvariantHolds`, `SuspendsLive`, `WaitersOnList` | no semaphore is destroyed (`MayDestroy = {}`) |
| `WaitProofs` | `SleepersAlwaysExact`, `SleepersLeave` | |
| | `SemHighestPriority` | no task is added at run time (`MayAdd = {}`) |
| | `SemInterruptsEnabled` | no entry function returns (`MayFinish = {}`) |
| | `SemNoAssert` | no entry function returns and no semaphore is destroyed |
| | `UnitsSpokenFor`, `NoWakeupLost` | no semaphore is destroyed and no wait has a timeout (`Waits \subseteq {0, MAX_WAIT}`) |
| `FsProofs` | `FsAlways`, `BufferTypesHold`, `NothingIsLost`, `LengthsHold`, `FlagsAlwaysExact`, `WaitersNeverStarve`, `PipeAlwaysExact` | |
| `NetProofs` | `NetTaskHears` | no port is registered while another is unregistered (`OneAtATime`) |
| | `PendingAlwaysWatched`, `FragmentsAlwaysExpire` | |
| | `ReassembledOnce` | no fragment comes twice (`MaxCopies <= 1`) |
| `UdpProofs` | `RoutesOfLease`, `LeaseEndNoticed`, `TransfersAreExact` | |

The hypotheses are needed, as the runs above and the next paragraphs show: a task that
finishes meets the assertion of the tick handler and later runs with interrupts disabled,
a task added at run time does not preempt, a wait that times out can swallow a release
(`semaphore_lost`), a destroy leaves waiters behind (`DestroyResumesAll`), an array that two tasks
change at a time loses a port (`net_condition.c:114`), and a repeated fragment passes for
another (`ipv4_duplicate`). The theorems of `Kernel` and of
`Semaphore` with the same property are about different systems: in the second one every
kernel call, every wait and every release interleave with the tick.

**Kernel.** ReadyListExact is not inductive: a switch would enqueue
the current task a second time if it were already ready. *CurrentOK* adds that
the task on the CPU is in state running, suspending or finished, and that it has
left the running state only on its way to PendSV. To know the latter one needs
where it is in its code, hence *StackOK*, the shapes a stack of program points
can have. *LocksOK* ties the lock count to the program point: the kernel owes the
application exactly one unlock inside `sleep_ticks`, so a lock never goes below
zero or above the application's nesting plus one. For NoAssert the idle task is
shown to be always running or ready (*IdleAvailable*): then the ready list is not
empty when PendSV picks, and a tick never meets a task that is not running with
the scheduler unlocked, because a suspending task holds the lock of `sleep_ticks`.
For HighestPriorityRuns, *CurrentIsHighest* is preserved because a task leaves
PendSV as the head of a sorted list and only PendSV makes tasks ready. First in first
out among equals is an action property: from the invariant, each action changes the
ready list by one sorted insertion or by the removal of its head.

**Sleep.** *SleepInvariant* says that the deadline of every sleeper is, modulo the tick
range, the current tick plus the ticks it has left, and that the latter is within
`-MaxLate` and the longest delay. By `TickAssumption` the signed difference of two
deadlines is then the difference of the ticks left, so insertion by INT32CMP keeps the
list in the order of the time left however often the counter wraps, and the walk of
PendSV, which stops at the first task that is not due, reaches every due one. It needs
KernelInvariant for the shapes of the stacks.

**Semaphores.** `SemaphoreControl` proves what every step leaves of the control of the
tasks: a stack of program points is a chain of calls (*CallStack*, at most four deep), the
lock count of a task is what its calls owe plus what its application locked (*SemLocks*),
and a task that has locked the scheduler loses the CPU only at the place where it gives
it up itself (*LockKeepsCPU*). `SemaphoreProofs` adds the phases of a wait (*Queued*,
*Waiting*, *Resumed*, *TimedOut*): a waiting task keeps the record of who ended its wait
until it has looked at it (*WaitsKept*), and one that was resumed finds its suspend
marked (*ResumedMayTake*), so that the decision in `suspend_condition` is the one the resumer
meant. With the arguments of the calls (*CallArguments*) this makes CountExact inductive:
a unit leaves the count exactly when a task gets it. All this is
*SemInvariant*, with destroys, any waits and any nesting of the application's locks.
*WaitInvariant* adds the suspend lists: a task is on a list, or kept aside by a resumer,
once and only while it waits or has timed out. It is inductive only because a resumer
keeps the CPU until it has put back what it kept aside (*ResumerKeepsCPU*), which is so when
`semaphore_release` calls with the scheduler locked; `semaphore_destroy` calls without the
lock, a resumer may be switched away in the middle, hence `MayDestroy = {}`. With destroys
it is not only out of the proof's reach but wrong, as `DestroyResumesAll` shows.

`WaitProofs` goes on from there. *SleepersExact*: a task is on the sleep list exactly while
it is inside `sleep_ticks` or a timed wait that the sleep has not ended; the proof has to
know what a resume changes in between, since `resume_condition` leaves the waiter on the
sleep list until it runs and removes itself. *SemInterrupts*: interrupts are disabled, and
the level saved by a task is disabled, only inside `semaphore_destroy`. For no lost
wake-up, *WakeupInvariant* counts: while a task waits for a semaphore, the free units are at
most as many as the tasks resumed for it that have not looked yet, plus what a resumer under
way may still resume (*SpokenFor*); it is preserved because a task on its way into the wait
found no unit and keeps the CPU until it is on the list (*NoneFound*), and because the suspend
that `resume_condition` pops belongs to a task that still waits, which is where a timeout
would break it (*OnlyReleases*). For the highest priority, *HigherWillRun* says that when a
ready task has a higher priority than the one on the CPU, this one owes a yield: it is in a
resume that made a task ready, its drift flag is set and it holds a lock, or the switch is
pending. For the assertions, *AssertInvariant*: a task about to decrement a count finds a unit,
because nobody else runs between its test and the decrement (*UnitThere*); the suspend of a
task that timed out is still on its list or with a resumer, and no resumer is under way when
the task leaves the list (*TimedOutListed*); the idle task is running or ready and holds
nothing (*IdleReady*); and a task that is suspending owes an unlock, so the tick never finds
the scheduler unlocked under a task that does not run.

**Buffer lists.** *FsInvariant* has to say why a push never runs out of buffers. *Once*: the
free buffers and the chains are disjoint, free of duplicates and together all buffers, a
free buffer is empty and without head room, and the lengths of a chain add up to
`total_length` (*Sound*). *ListsOnce*: a list is free, received, held by a program or kept
by exactly one task that waits to push on it; nobody else can touch the last kind, so what
the task found when it began to wait is still true when it goes on (*Suffices*): the space
at the end of the list and the buffers it asked for hold its data. The loops are folds
over a chain or over the data that is left. A fold runs through stages, one per turn, which
the proofs get from the definition of FoldLeft; the lemmas say what a turn keeps and an
induction over the stages (the least stage at which it fails) carries it to the end. The
central one is *PieceStays*: a turn of a push with enough buffers left leaves enough for the
rest (*Enough*), which makes CEIL_DIV in `fs_buffer_list_push_offset` right. For a pull
*PullStage* says that the buffers emptied so far are a prefix of the chain and that the
lengths of the rest add up to what remains. Lengths are sums over sequences (*Adds* in
`SllProofs`), which a cut, a join, a reversal and a change of one member preserve. The
flags and the resumed waiters then follow step by step (*NotStarved*), because every
`fs_buffer_add` compares with the count it leaves behind.

**Pipes.** PipeExact relates positions in a ring to a queue of messages. *PipeInvariant*
gives every message that was not read a place, and the next one too: places start at
`pipe_message` and count on behind the end of the buffer, at most once round (*Laid*), so
that each place has a cell of its own (*Cell*, *OneCell*), a message ends before the next
begins, and the cell of the next is where `RollOver` goes from the end of the one before.
The test of `pipe_write` for space is, on places, that the message ends before the ring does
(*WriteRoom*), wherever it and its header wrap (*NextPlace*, *WriteEnd*), so it leaves the bytes
of the others alone (*WriteLays*); and the position behind the first message is the one to
write at only when it was the last (*NextToRead*), which makes the reset of `pipe_read` right.

**Network task.** NetTaskListens holds because of where the network task is in its wait.
*ArrayExact*: the condition array holds the two queues and then every registered port, once;
removal moves the entries behind down by one, which is right only if nobody is adding behind
them (*Adding*, *OnDuty*, `OneAtATime`). *Works*: the work of an owner is on the list, in
the hands of the network task or done, so who waits for an answer gets it. *Queues*: what is
queued is flagged, and with *Waits* a flag keeps the task from sleeping or has woken it.
*Timed*: unless an update is still to be sent or seen, the sleep ends no later than any
timer of the array, counted from when the task read the tick (`late`).

**Fragments.** *FragInvariant* has the timer and the sum of all fragment lists
(*ListsIn*, a sum in the sense of *Adds*): a merge frees exactly the lists it joins, a
fragment that is kept moves one list from the device to its datagram, and the drop and the
expiry return what the lists they clear held; `ipv4_fragment_update_timer` is run wherever
a timeout may have become the earliest. ReassembledExact is harder, because
`ipv4_frag_merge` is right only for two fragments: the offset where it expects the next
one stays where it was after a merge. *OnceInvariant* therefore says nothing of the data
of a list of several fragments; it says that the fragments of a list have come, once each
(*CameOnce*, so their offsets differ), and that a list of a single one is a run of octets of
its datagram whose flags fit (*IsRun*, *FlagsFit*). The merge keeps it: a turn without a hole
needs the next offset to be the expected one, so a list of three or more that merges without
a hole would have two fragments at one offset (*MergedTo*), and what `ipv4_frag_add` gives
to the upper layers is a run that starts at 0 and ends at the length.

**ARP.** *CacheInvariant*: an entry with packets waiting is not used up in its requests,
the timer of the cache is never later than an entry that is routed, and the requests of
every entry that is not up are bounded (*RetriesBounded*). *WaitInvariant*: a sleep that
began with the timer reaches every routed entry that has not changed since; the entries in
`unheard` are excepted, because `EventOnTime` shows that they need not be reached, and
`PendingWatched` says no more than that. **DHCP.** The client asks one
server and holds what that server acknowledged (*OneServer*), a reply that is not late
belongs to the current request (*Current*), and the retry timeout stays within its bounds
(*TimeoutBounded*); `BackoffAssumption` is what the defaults of `net_dhcp_client.cmake` (2 s,
64 s) satisfy. **TFTP.** A datagram that carries data carries that of its block
(*RequestOK*, *AnswerOK*), and the position in the file that is read is the block sent last
(*SessionOK*); the block number does not wrap because a file has fewer blocks than it has
values, an assumption of the module (a longer transfer stalls, see above).

Assumptions on the constants are named in the modules and evaluated by TLC in every run:
`TaskAssumption` (the idle task has the lowest priority), `TickAssumption` (deadlines are
less than half the tick range apart), `LockAssumption` (the lock limit leaves two levels to
the kernel), `ConditionAssumption`, `SemaphoreAssumption` (waits as for delays, finitely
many tasks), `BufferAssumption` (buffers of at least one byte, finitely many), `PipeAssumption` (the
header and the buffer are multiples of the alignment, as sizeof(MSG_DATA) and ALLIGN_SIZE are
on a 32-bit target, and a message fits an empty buffer), those of
`Arp`, `Dhcp`, `Tftp` and `Ipv4Frag` (a datagram is not empty, a fragment carries
something), and `NetTaskAssumption` (finitely many
ports, told apart from the queues).

`SllProofs` has the facts about lists: insertion adds one member, keeps a list free of
duplicates and sorted, removal keeps the rest and its order, a reversal its members; and
the sums over sequences.

Only model-checked:

* all liveness, which needs fairness and ENABLED;
* of semaphores: that nobody uses a destroyed one;
* TCP, with its refinement of ByteStream;
* the bytes themselves in buffer lists (`ReadsExact` and the refinement of ByteLists, for
  which every operation would have to be followed byte by byte).

## Not modelled

* Interrupt handlers other than the tick: handlers that resume conditions
  (`return_task`), interrupt protected semaphores.
* Waits for several conditions step by step: `Condition` is written for them, the
  runs have one; `NetTask` has them in larger steps.
* The other ports; statistics (`TASK_STATS`), logging, formatting.
* `scheduler_task_remove`, which only edits the list of `TASK_STATS`.
* TCP: lookup of ports, options and window scale, `tcp_iss`, allocation of buffers,
  accepting into a second port, several tasks on one port, liveness (a fair network
  needs a condition per segment).
* `mem/` (its split corrupts memory, see above), UDP queues, PPP, ICMP, descriptor
  lookup and watchers, the work array of the idle task.
* Drivers and targets: register level code and the vendors' headers
  (`port/target/*/generic`, by far the largest part of the repository's lines, with no
  behaviour to model), `3rdparty/`, displays, sensors, formatting and logging.
  Because of them the mapped lines stay a small share of the whole repository.
* Deep stacks: an application calls the kernel with a lock depth of at most
  `MaxUserLock` and obtains a semaphore it does not hold.

## Plan

1. Proofs: the bytes of `FsBuffer` (`KeepsBytes`);
   ClosedAtRest of `Tcp`.
2. `SllPointers`: head, tail and next level of `sll.c`, refining `Sll`.
3. Handlers that resume conditions, and with them the serial and I2C drivers.
4. PPP negotiation and UDP queues; delivery under a fair network for TCP.
