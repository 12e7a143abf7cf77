# Verification of the esd CAN driver (PCIe/402, Linux)

The repository holds the Linux kernel driver for the esd CAN-PCIe/402 card, its
test program cantest and two small user programs. Here are TLA+ models of the
driver's own logic, checks of them with TLC and theorems about them proved with
TLAPS. Paths below are relative to
`src/esdcan-pcie402-linux-x86_64-4.1.4-r1/src/` unless said otherwise.

Contents: 1 the system, 2 the modules, 3 the runs, 4 fairness, 5 the proofs,
6 what was found, 7 external parts and assumptions, 8 what is not modelled,
9 plan.

## 1. The system

The driver comes in two halves. The *nucleus*, the board layer and the
controller layer (`*.o_shipped`) are binaries; what is in source is the shell
around them: handles and their ioctls, the kernel services the binaries use,
and the attachment of cards. Everything is built for kernels from 2.6.20 on
(`OSIF_USE_PREEMPT_RT_IMPLEMENTATION`), with `BOARD_PCI`, hence
`ESDCAN_PCI_HOTPLUG` (`esdcan.c:102-104`).

| Component | State | Operations | Correct when |
|---|---|---|---|
| Receive half of a handle (`esdcan_common.c`) | `ocb->rx`: `state`, `cm_count`, `result`, shadow buffer; queue `wqRx` | `esdcan_read_common` (canRead), `IOCTL_ESDCAN_RX_OBJ/TAKE` (canTake), `RX_ABORT`; callbacks `esdcan_rx_put`, `esdcan_rx_done` | one reader at a time; every frame put is returned once; the reader is always woken |
| Transmit half (`esdcan_common.c`) | `ocb->tx`: `state`, `cm_count`, `result`; queue `wqTx` | `esdcan_write_common` (canWrite), canSend, `TX_ABORT`; callback `esdcan_tx_done` | a write waits for its own job; the writer is always woken; errors are its own |
| Closing (`esdcan_common.c`, `esdcan.c`) | `close_state`, `wqCloseDelay`, life of the OCB | `ocb_destroy` from `IOCTL_ESDCAN_DESTROY` and `esdcan_release`; callback `esdcan_close_done` | ends with nobody inside and no job left; frees last; always gets through |
| ioctl dispatcher (`esdcan_common.c`) | none of its own; takes `node->lock` | `esdcan_ioctl`, `esdcan_ioctl_internal` | nothing starts on a closed handle or, but for an updater's questions, on a card with the wrong firmware |
| Creation of a handle (`esdcan_common.c`, `esdcan.c`) | `file->private_data`, the OCB | `esdcan_open`, `ocb_create`, `ocb_create2`, `esdcan_release` | no call finds a half-made or freed OCB; none is lost |
| ID filter (`esdcan_common.c`) | the IDs switched on, kept by the nucleus; counts on the stack | `id_filter`, `ID_RANGE_ADD/DEL`, `ID_REGION_ADD/DEL` | a range is added whole or not at all |
| Waiting nucleus ioctl (`esdcan_common.c`) | a `wait` record on the stack | `my_nuc_ioctl`, callback `esdcan_ioctl_done` | the record outlives the request; the caller is woken |
| poll (`esdcan_common.c`) | `wqRxNotify` | `esdcan_poll` | is called on an OCB that exists |
| DPC thread (`osif.c`) | `dpc_root`: chain, `trig`, `destroy`; each DPC's `linked`, `running`, `destroy` | `osif_dpc_create/trigger/destroy`, `dpc_thread`, `osif_dpc_root_create/destroy` | no trigger lost, no DPC used after free, destroy waits for the running function |
| Timers (`osif.c`) | `real_tgt`, the kernel timer, a DPC | `osif_timer_create/set/destroy`, `timer_stub`, `next_lx_timer_target` | a set timer is not lost and fires at its time, not before; a disabled or destroyed timer stays out of the wheel |
| Cards (`esdcan_pci.c`, `esdcan.c`) | `CAN_CARD`, `nodes[]`, count of cards | `can_attach(_common)`, `can_detach(_common)` | `nodes[]` leads to the right node; an attach that fails gives back what it took |
| Module load and unload (`esdcan_pci.c`) | "registered" flag | `esdcan_pci_init`, `esdcan_pci_exit` | the OS layer outlives the cards |
| cantest (`example/cantest.c`) | locals of `main`: mode, IDs, counts, buffers, handle; children of test 54 | parameters, set-up of the handle, 43 tests, `help` | no transfer longer than its buffer; the IDs asked for are on; nothing is left behind |
| Other OS services (`osif.c`) | – | malloc, mutexes, sleep, time, byte order, print | thin wrappers |
| proc files | – | format state | changes nothing |
| Other user programs (`/cansend.cpp`, `/canreceive.cpp`) | locals | loops over one call of the ntcan library | – |

How they meet. A user thread enters through an ioctl, takes `node->lock`
(`lock` below), works on its OCB and calls the nucleus (`nuc_tx`, `nuc_rx`,
`nuc_tx_abort`, `nuc_rx_abort`, `nuc_close`). The nucleus runs on the DPC
thread, which is started by interrupts and timers, and calls back
(`esdcan_tx_done`, `esdcan_rx_put`, `esdcan_rx_done`, `esdcan_close_done`) with
the lock held; calls back may also be made from inside a call of the nucleus.
Blocking calls drop the lock, sleep on a wait queue of the OCB and take the
lock again. Before any of that, a file gets its OCB by `IOCTL_ESDCAN_CREATE`;
commands of the nucleus that take time are answered by another callback,
`esdcan_ioctl_done`. Cards are attached once, at module load, by the PCI core.
cantest sits on the other side of the ioctls, on the ntcan library.

What is hard: all conditions of `wait_event*()` are evaluated without the
lock; a signal interrupts the first wait of a read or write and starts an abort
with a second, uninterruptible wait; canSend() leaves a job nobody waits for in
the queue canWrite() uses too; a close waits for three actors at once, of which
two tell it so; the DPC thread runs functions without its spinlock; a timer is
re-armed from a stub that takes no lock; an attach that fails unwinds through
labels that two functions share; `private_data` is read and set without a lock
while an OCB is created, closed and freed; a waiting command sleeps without a
condition; and a range of IDs is worked on in pieces, with the lock dropped
between them. The file `PROJECT.json` lists 40
hazards with their lines, and the properties that would show each going wrong.

## 2. The modules

| Module | What it models |
|---|---|
| `HandleContract` | Abstract: what an application may rely on when threads share a handle |
| `OcbBase` | Threads in the driver, wait queues and wake-ups, `close_state`, signals |
| `OcbRx`, `OcbTx` | The two halves of a handle with the callbacks that belong to them |
| `OcbHandle` | Both halves together, closing, the properties, the refinement of `HandleContract` |
| `MCOcbHandle` | Sets of operations and symmetry for TLC |
| `OcbHandleProofs` | The inductive invariant and the safety theorems of `OcbHandle` |
| `OcbWriteProofs` | The transmit half under unmixed clients, and the results of empty reads and writes |
| `OcbRefinementProofs` | `OcbHandle` implements `HandleContract` |
| `FileBase` | One open file: `private_data`, the life of its OCBs, where each thread is |
| `OcbCommands` | The ioctl commands by their way through the dispatcher |
| `NucIoctl` | `my_nuc_ioctl`: a command the nucleus answers later |
| `IdFilter` | The ID commands and `id_filter` with its pieces, naps and undo |
| `OcbFile` | Composes the three with open, creation, poll, close and release |
| `MCOcbFile` | Ranges and symmetry for TLC |
| `OcbFileProofs` | The inductive invariant and the safety theorems of `OcbFile` |
| `DpcContract` | Abstract: what the card and the timers rely on when they use DPCs |
| `OsifDpc` | The DPC thread and its callers, the refinement of `DpcContract` |
| `OsifDpcProofs` | The inductive invariant of `OsifDpc`, its theorems, and that it implements `DpcContract` |
| `OsifTimer` | One timer on the kernel's coarse timer wheel |
| `OsifTimerProofs` | A set timer is not lost; it expires in time and never too early, and a disable or destroy is final, unless the call met `timer_stub` |
| `CardTable` | Load, probe with every error path, unload, `nodes[]` and the handles on it |
| `CardProofs` | The inductive invariant of `CardTable` and what follows from it |
| `CanTestConfig` | What `main` of cantest makes of its parameters |
| `CanTestSetup` | The handle: open, timestamps, event and bus load, bit rate, IDs |
| `CanTestCases` | One turn of each test, the children of test 54 |
| `CanTest` | Start, loop and end of the program, `help`, the properties |
| `MCCanTest` | The command lines for TLC |
| `CanTestProofs` | The inductive invariant of `CanTest` and what follows from it |

The definition-by-definition correspondence to source lines is the `map` of
`PROJECT.json`. The principles:

**Handle (`Ocb*`).** All of an OCB is read and written under `node->lock`,
except wait conditions. So one action is a stretch from LOCK to UNLOCK, with
every nucleus call in it and every callback that call makes at once; a wait is
a loop of actions: `ReadCheck`, `WriteCheck`, `CloseCheck` evaluate the
condition, which is where a thread goes to sleep, and the wake-ups put it back.
Evaluating the condition and going to sleep are one action because
`wait_event` puts the thread on the queue before it looks. `Signal` may come at
any time in an interruptible call. `pc` tells where in a wait a thread is, and
`call` which call it is in. A count of frames stands for the frames
(`shadow`, `rxCount`, `txCount`); which frame is where is not told apart, how
many belong to whom is. `rxJob` and `txJob` are the nucleus' side: a receive
job with the frames it has put, a transmit job with the frames sent and left.
`Read` is `esdcan_read_common` up to its unlock; `ReadInterrupted` the locked
branch after a signal; `ReadFinish` from the last lock to the return. `Write`
has the same parts. `Take` is the object-mode or buffer-mode take, which ends
within the lock. `Destroy` and `Release` share `StartClose` (`ocb_destroy` up
to its wait), then `CloseCheck`, `CloseFinish`.

**File (`FileBase`, `NucIoctl`, `IdFilter`, `OcbFile`).** `at[t]` is where in
the driver a thread is and `mine[t]` its local `ocb`, which it reads from
`private_data` when it enters (`Ioctl`, `Poll`) and keeps, whatever others do
with `private_data` meanwhile. A stretch under `node->lock` is one action, with
one exception: `id_filter` makes a call of the nucleus per turn and may change
its mind after each, so that each turn is an action (`FilterTurn`) and a thread
at `"turn"` holds the lock between two; every action that takes the lock waits
for that (`LockFree`). `ocb[o]` is the OCB's life: allocated by `ocb_create`,
opened by `ocb_create2`, closing and closed, unused again when freed. The six
ways out of the two creation functions are actions of their own (`CreateFails`
to `CreateReady`). `filter[o]` is what the nucleus has switched on for an OCB;
`range[t]` are the locals of `id_filter`, and its fields `added` and `alone`
are history for the property. All 29-bit IDs are one element, since the driver
only switches them together. Reading and writing are in `OcbHandle`; here the
end of `ocb_destroy` is just a later step (`DestroyEnds`, `ReleaseEnds`).

**DPC thread (`OsifDpc`).** Each stretch under the spinlock is an action, as
are the unlocked increments of `trig` and the `wake_up_process` calls:
`Trigger` (link), `TriggerCount` (`trig++`), `TriggerWake`. The thread's states
are those of its two loops: `ThreadLoop` tests `dpc_root.destroy`, `ThreadCount`
takes one off `trig`, `ThreadNext` takes a DPC off the chain and calls it, and
`ThreadIdle`, with the spinlock still held, finds the chain empty and decides
by `trig` whether to sleep. `chain` is the linked list as a sequence, `linked`,
`running` and `destroyed` the flags of the DPCs as sets. `DpcContract` knows
neither chain, flags nor thread: a DPC is usable or ending, was asked for or
not, and its function is being called or not.

**Timer (`OsifTimer`).** `osif_timer_set` is two actions, the store of
`real_tgt` and the `mod_timer` (`Set`, `SetArm`), and so is `timer_stub`
(`Expire`, then `StubRearm` or `StubTrigger`), because on two processors they
overlap: a call may come at any moment of `timer_stub`, and `timer_stub` at any
moment of a set. The history variable `raced` tells whether the last call came
while the stub was under way (`Meets`); on one processor none does, so that the
behaviours of one processor are those in which `raced` stays FALSE. `Destroy`
is `osif_timer_destroy`. `NextTarget` is
`next_lx_timer_target` for the module parameter `talgo` 0, 1 and 2; `Gran` is
the number of jiffies in a slot of a level, which `lvl_low_mask` of osif.c and
the kernel share. The wheel of kernels from 4.8 on is an external operator: a
timer fires on the next multiple of its level's granularity, and one beyond the
capacity of the wheel in its last slot.

**Cards (`CardTable`).** One action per acquisition in `can_attach` and
`can_attach_common`; each has a branch that fails and goes, by `FailAt`,
through the labels in their order. `held[d]` is what a card has acquired;
`Forgotten` are the two parts the code does not give back: the enable of the
device, which neither the labels nor `can_detach` undo, and `crd->lock_irq` of
a `can_board_attach` that fails (the comment at `esdcan.c:933`). `Detach` is a
removal by the PCI core, with `DetachCommon` for `can_detach_common`. `Create`
and `Release` let files have handles on nodes.

**cantest (`CanTest*`).** The program is sequential except for test 54, so that
its model is about data and paths: every call on the driver may succeed, time
out or fail, and every early return is there. What a variable holds is kept as
far as control depends on it: the number of the test, IDs with the ranges that
make them 29-bit or event IDs, counts, the kind of the bit rate, which buffer a
transfer was handed and for how many frames (`handed`). `CanTestConfig` has
what `main` makes of the parameters, `CanTestSetup` an action per step from
`canOpen` to the first turn, `CanTestCases` an action per test or family of
tests with one body. The children of test 54 share the handle with their
parent, and each has its own copy of `bl_event_period`; their sleeps are alarms
on a clock (`now`, `alarm`, `TimePasses`).

## 3. The runs

| Run | Instance | Distinct states | Result |
|---|---|---|---|
| `handle_all` | 3 threads, all calls, `RxMax` = `TxMax` = 2, symmetry | 58 443 | passes |
| `handle_write` | the same, unmixed clients | 34 940 | passes |
| `handle_live` | 3 threads, canRead/canWrite/canSend/canClose, queues of 1, unmixed clients, fair | 50 883 | passes |
| `mixed_partial` | 2 threads, transmit calls and canClose() | – | `NoLostWriterWakeup` violated |
| `dpc` | 2 DPCs, 2 callers, `TrigMax` 2, fair | 15 046 | passes |
| `dpc_unload` | 1 DPC, 1 caller, fair | – | `UnloadReturns` violated |
| `timer` | all three algorithms, any number of processors | 1 574 207 | passes |
| `timer_smp` | the same | – | `DisabledStaysOut` violated |
| `cards` | 3 devices, 2 files, at most 2 cards of 2 nodes | 306 129 | passes |
| `file` | 2 threads, 2 OCBs, 2 commands, 2 IDs, symmetry | 853 019 | passes |
| `file_ask` | 1 thread, 1 OCB, 1 command, fair | – | `AskedReturns` violated |
| `programs` | 1031 command lines of cantest | 38 340 | passes |

**What the passing runs show.**
- `handle_all`: with any mix of calls from three threads, at most one reads;
  every frame put for a reader is returned with its call, once; a reader never
  sleeps without a job to wake it, a closer never after its condition is true;
  nobody is inside and no job is left once canClose() returned; the OCB is
  freed last; an empty canRead() has a reason of its own; and every step is one
  `HandleContract` allows.
- `handle_write` does the same for transmission: a writer leaves with its job
  and never sleeps without one, the uninterruptible wait after a signal is
  entered only with a job in flight, an empty canWrite() reports its own error.
- `handle_live`: reads, writes and closes all return.
- `dpc`: no trigger is lost, a triggered DPC runs, a destroy waits for the
  running function and nothing runs afterwards; every step is one `DpcContract`
  allows.
- `timer`: a timer that is set is never lost from the wheel, in whatever order
  a set and `timer_stub` store the targets and call `mod_timer` (`NotLost`).
  After a call that did not meet `timer_stub`, whatever raced before it: through
  the intermediate targets the coarse wheel fires no later than the wanted
  jiffy (`InTime`), the function is never triggered before it (`NotEarly`), and
  a disable or destroy is final: neither the wheel, nor a set or stub under way,
  nor, for a destroy, the chain of DPCs has the timer (`FinalUnlessRaced` in
  `TimerInv`). What a call that does meet `timer_stub` is worth is not in
  these three: its new time may be missed, and section 6 shows that a disable
  may be undone.
- `cards`: `nodes[]` leads to the nodes the driver printed; a failed probe and a
  removal give back all but the enable of the device and, on one path,
  `lock_irq` (`OnlyForgottenLeaks`); no node is freed under a handle. Cards go
  with the module alone here (`Hotplug` is FALSE): removals under open handles
  and while other cards stay are outside these results.
- `file`: no call finds a half-made or freed OCB, though `private_data` is read
  without a lock; the nucleus never writes to a stack frame that is gone; an
  opened OCB is lost only when two creations race; a card with the wrong
  firmware is given no ID and no command but an updater's; and `ID_RANGE_ADD`
  is all or nothing.
- `programs`: with every call on the driver failing at will, no transfer of a
  test other than 54 and 55 is longer than its buffer, testing starts with the
  IDs that were asked for, at a normal end nothing is left switched on, and the
  children of test 54 find the handle open.

**Unmixed clients.** The properties of the transmit half do not hold when
canSend() and canWrite() meet on one handle; `mixed_partial` shows
how (section 6). `handle_all` therefore has every call but only the
properties that survive the mix, and does not check for deadlock, since a
writer that misses its wake-up is one. `handle_write` and `handle_live` check
for it and have both calls too, of clients that do not start a canWrite() while
frames of a canSend() are pending (`NotMixed`). All the ways a canWrite() and a
later canSend() exclude each other are thus still in these runs.

**Bounds and why they are enough.**
- *Three threads*: one reads, one writes, one closes or aborts: every role of
  the handle at once. `rx.state` and `tx.state` admit one reader and one
  writer, so that a fourth thread finds what a third finds. Two are enough
  where only the transmit half is used.
- *Queues of two*: the least size at which a job is partly done (one frame got
  or sent, one outstanding), and at which the frames of an earlier canSend()
  and of a write can both be in the queue. For liveness, one: the wake-ups do
  not depend on the count.
- *Two DPCs, two callers*: one DPC on the chain beside a running one, and a
  trigger racing a destroy of it. `TrigMax` bounds the counter `trig`: a
  trigger starts only while it is lower. The thread takes one off in each turn
  and otherwise only tells 0 from more, so that 2 is enough for "raised once
  more than the thread has noticed".
- *Timer*: the ratio of two levels is scaled from 8 to 2 and the fixed step of
  algorithm 1 from 32 to 3, the longest step `TimerAssumption` allows for that
  ratio, so that three levels fit into 22 jiffies. The levels begin at the
  distances 0, 3 and 6, the wheel's capacity is 12; the delays 0, 1, 4, 7, 13
  and 15 lie in each of the levels and beyond the capacity. Setters may come at
  any jiffy, so that the targets take all residues, on which the masks depend.
  The theorems need none of these numbers.
- *Cards*: `MaxCards` is one less than the number of devices, so that a probe
  that finds the table full happens. Two nodes per card let one fail and one
  not.
- *File*: two threads are what a race of two creations, of a creation with a
  close, or of two ranges takes; two OCBs, one for each of the creations. IDs 0
  and 1 in words of 0 to 2 are the least in which a range can be done in two
  pieces, reach beyond the last ID (1 to 2) and be the whole number space (0 to
  2), whose count wraps to 0. Of the waiting commands one is refused by a
  card with the wrong firmware and one is not.
- *cantest*: a small `MaxTx` below `MaxRx`, counts below, at and above both;
  IDs of all ranges and of their first and last member; every kind of bit
  rate; up to two turns (`MaxRounds` of test 54). The sleeps of two children,
  1 and 33 tenths of a second, are the first two the program has.
- `CHECK_DEADLOCK FALSE` stands where the system may really stop: after an
  `oops` (`cards`, `file`) the process is dead; an unloaded module does nothing
  (`dpc`); a program ends (`programs`); the clock of `timer` stops at the bound
  `Horizon`; a lost wake-up is what `handle_all` and `file_ask` are allowed.

## 4. Fairness

`OcbHandle!Fairness` and `OsifDpc!Fairness` are weak fairness of steps the
kernel or the hardware takes whatever anybody does: a runnable thread inside
the driver runs on; a receive job's timer fires (`NucRxDone`, reads here have a
timeout); the controller reports the end of a transmit job (`NucTxDone`); the
nucleus reports that a close is done (`NucCloseDone`); the DPC thread runs when
it is awake. No fairness is assumed of calls, signals, arriving frames,
triggers or the unload: that a read returns must not depend on anybody writing.
A read or write without a timeout may of course wait for ever; `ReadReturns`
and `WriteReturns` are about calls with one. Weak fairness suffices since no
other thread can disable these steps again and again: locked stretches are
single actions, so no fair scheduling of `node->lock` is assumed beyond each
holder leaving it. `NotMixed` forbids the start of a call only, so that it
disables none of the fair steps.

`OcbFile!Fairness` is strong fairness of a thread's own steps (`Proceeds`) and
of the nucleus' answer (`IoctlDone`): here the lock is held over several
actions, and the kernel's mutex hands it to waiters in order, so that a waiter
is not passed over for ever. `file_ask` would be violated without any
contention; the fairness is stated so that the counterexample is not one of a
system that merely stops.

## 5. The proofs

Every theorem is for all values of the constants under the assumptions their
modules name: `OcbAssumption` (a non-empty set of threads, queues of at least
one frame, any subset of the calls), `FileAssumption`, `AskedAssumption` and
`IdAssumption` (any ranges of 32-bit words, a node with fewer IDs than words),
`DpcAssumption`, `TimerAssumption` (levels whose slots grow by any ratio of at
least 2, any number of levels from 2 on, a fixed step shorter than the distance
the second level begins at: 32 of 63 in osif.c; any delays), `CardAssumption`
(finitely many devices). For cantest: `ConfigAssumption` (the order of the ID
ranges of `ntcan.h`, a receive buffer with room for all 11-bit IDs, as the 8192
frames of `MAX_RX_MSG_CNT` are, and events aligned to their number, as
0x40000000 and 256 are), `ArgsAssumption` (a command line whose IDs are not
negative, section 6; the other numbers are any integers), `DelaysAssumption`
and `FamilyAssumption` (the sleeps of the children of test 54 are shorter than
that of their parent, as all ten of `lens[]` are, and test 54 is repeated a
given number of times, not for ever), `NetsAssumption`. In particular the
number of threads, OCBs, DPCs, cards, nodes, command lines, children and nets
is arbitrary.

**`OcbHandleProofs`.** The invariants one wants are not inductive: that a
reader asleep has a job (`NoLostReaderWakeup`) is kept by `NucRxDone` only if
the wait condition is then true, which follows from how `rx.state`, the job,
the count and the threads in `esdcan_read_common` agree. `IInv`
is the conjunction of five named parts:
- `PcInv`: a thread is idle exactly when in no call; each call has its part of
  the `pc` values;
- `RxInv`: the `READ` bit and one reader come and go together; a live job
  implies no `ABORT` and no `CLOSING`, and the shadow buffer holds what the
  job got; a reader awake without a job finds its condition true;
- `TxInv`: the same for the `WRITE` bit, exclusion of `SEND` and `WRITE`, and
  the queue's bound;
- `CloseInv`: one closer; `CLOSING` marks only while it is there; after
  `CLOSE_DONE` no transmit job;
- `TypeOK`.

TLC checks `IInv` in `handle_all`. The proof has one lemma per action, with a
step per conjunct, then `Invariance` (`Spec => []IInv`); the properties follow
from `IInv` without another induction: `TypeCorrect`, `ReaderIsAlone`,
`FramesAccounted`, `RxDoneNeverSpurious`, `ReaderIsWoken`, `CloserIsWoken`,
`CloseIsFinal`, `NoUseAfterFree`. They hold for any mix of canSend() and
canWrite().

**`OcbWriteProofs`.** What a writer can count on holds for unmixed clients
(`UnmixedSpec`, section 3). `IInv` does not tell whether the nucleus still has
the writer's job; `UnmixedInv` does, from `tx.state`, `tx.cm_count` and the
writer's place: `WriterInv` for the time a writer is inside, `SenderInv` for
the time it is not. Both are proved on top of `IInv`, action by action
(`UnmixedInvariance`), TLC checks them in `handle_write`. From them follow
`NoSpuriousTxDone`, `WriterIsWoken`, `AbortIsAnswered` (the wait that no signal
ends always has a job whose end will end it), and the action properties
`WriteIsFinished` and `EmptyWriteExplained`. `EmptyReadExplained` is the same
for reads, for all clients, from a small invariant of its own
(`ReadHasReason`).

**`OcbRefinementProofs`.** `HandleRefinement`: `Spec => ImplementsContract`.
The mapping takes `phase` from `closeState`, `freed` and the presence of a
closer, `reader` and `writer` from `call`, and `held` from the shadow buffer
while a reader is inside. Each action is shown to be one action of the
contract or a stutter; `Invariance` supplies that at most one reader, writer
and closer are inside and that closing ends with both gone.

**`OcbFileProofs`.** `FileInv` is built in layers, each inductive given the
ones before: `FileCore` (whose an OCB is: its creator's alone until
`private_data` leads to it; who releases a file is alone in it), `WaitInv` (a
request to the nucleus has its thread waiting), the types of the ranges, and
`RangesAtWork` (for a thread anywhere in `id_filter`, how the count done, the
count wanted and the IDs switched on agree, in the ADD as in its undo). From
`FileInvariant` follow `CallsFindLive`, `WrongCard`, `OcbLostToRival` and
`RangeAllOrNothing`. The last needs that 32-bit arithmetic wraps for one range
only (`CountOfRange`), and that what other threads do to the same OCB is
visible in `alone`.

**`OsifDpcProofs`.** `DpcInv` ties the chain to the `linked` flags
(`LinkedIsOnChain`, chain without repetition), the running function to the
thread's state, every DPC being destroyed to one caller, and the thread's sleep
to the chain (`NoLostTrigger`). `DpcInvariance` proves it inductive; from it
follow `TriggerNotLost`, `ReachableNotFreed`, `LinkedFlagIsTrue` and the action
property `DestroyedStaysQuiet`, which no run checks by itself: it is part of
`ImplementsContract`. `DpcRefinement`: `Spec => ImplementsContract`.
A DPC counts as asked for when its `linked` flag is set and it is not being
destroyed, wherever it is on the chain; that the thread, which follows the
chain and never looks at the flag, calls only what was asked for, and leaves
nothing out, is then `ChainInv`.

**`OsifTimerProofs`.** First the wheel. A target is *hit* from jiffy `n` on if
it is a multiple of the slot of every level its distance may fall into
(`Hits`); the wheel then fires in that very jiffy (`NextSlotHit`), and a hit
stays a hit as time goes on (`HitsLater`), so that a late `mod_timer` does no
harm. `NextTargetHits`: what `next_lx_timer_target` returns is hit, for all
three ways to step. For algorithm 2 this is about a loop over the levels: the
mask of level `lvl` makes the target a multiple of the slots of level `lvl + 1`
(`Masked`), and the loop goes on as long as the target is still ahead, so that
the distance is below the start of level `lvl + 2`. The facts about all levels
are inductions, which the provers cannot make from the library's rule; they are
made by least counterexample instead: `Least` gets the least number of a
non-empty set from `WFMin` and the well-foundedness of `<` on the naturals, and
`SlotsNest`, `GranGrows` and the others show that the set of levels without the
property has no least member. That the recursive function `Gran` exists is
proved the same way (`StepsExist`).

Then the timer, with `timer_stub` and the calls in any order. `InTime` is not
inductive: whether a timer fires in time depends on the targets stored on the
way to `mod_timer`. `TimerIInv` adds that `osif_timer_set` between its two
steps holds a target that is hit and not too late (`Aims`); that what
`timer_stub` sets the timer to is hit and, if the last call did not meet it,
not too late either, and that a stub that is about to trigger has then seen
`real_tgt` reached (`StubIsTrue`); and that a timer is not destroyed while it
is being set. From it follow `TimerInvariant`, `SetIsNotLost`, `ExpiresInTime`
and the action property `NeverEarly`. `SetIsNotLost` holds for all calls, also
those that meet the stub: whoever calls `mod_timer` last puts the timer in. The
others are for calls that do not, which is all calls on one processor; what an
earlier race left behind does not matter to them. Without that premise they are
false, as `timer_smp` shows for the disable.

**`CardProofs`.** `CardInv`, checked in `cards` and inductive without hot-plug
(`~Hotplug`): one probe at a time, whose card number, the count of attached
cards, is above all that are in use (`NumbersApart`); a card holds at most what
its step of `can_attach` has acquired (`PartsHeld`), so that each label frees
enough but for the two `Forgotten` parts; `nodes[]` has exactly the entries of
the nodes entered so far (`NodesHeld`, `TableTrue`), which rests on the
arithmetic of minors (`MinorApart`: `card_no * NODES_PER_CARD + index` is one
to one). From `CardInvariance`: `MinorsAreTrue`, `OnlyForgottenLeft`,
`HandlesKeepNodes`, `OsifOutlives`. Without `~Hotplug`, `MinorsTrue` fails
(section 6).

**`CanTestProofs`.** `CanTestIInv` has the types, `Limited` (no transfer is
longer than what `main` limits its count to, which in tests 54 and 55 is not the
size of the buffer) and four more parts. `ArgInv`:
what `main` knows of its command line at each place; when testing starts the
range of IDs ends at the last 11-bit ID, from which follows that the object
tests fit the receive buffer (`ObjectLenFits`). `CleanInv`: bus load events may
only be on while `main` still has their period, which tells it to switch them
off, or after a complaint; a schedule only inside its test, or after one.
`FilterInv`: from the range of the command line (`Asked`) over the events
(`ToEvents`) to the filter, what is enabled at each step unless `main` has
complained; `FilterDone` puts the three parts of the filter together and shows
that the five cases of the comparison leave no ID out, `CodesAskNothing` that an
acceptance code leaves none to enable. `FamilyInv` is about the clock of test
54: a child of the first round wakes before its parent does and closes the
handle only later, and no alarm lies in the past. Each group of actions is
first reduced to what its steps have in common (`OneTurn`, `OneSetup`,
`OneOfSchedule`, `OneOfEnd`, `OneOfFamily`, `OneHelp`), which then keeps each
part. Theorems: `CanTestInvariant`, `FilterIsAsAsked`, `LeavesNothing`,
`KidsHandleOpen`.

**Only model-checked.** Liveness: `CloseCompletes`, `ReadReturns`,
`WriteReturns`, `TriggerServed` and `DestroyReturns`, which is beyond the
prover. Every safety property of a passing run is a theorem.

## 6. What was found

Shown by runs:

1. **A mixed canWrite() may sleep for ever** (`mixed_partial`,
   `esdcan_common.c:844`). The wait condition subtracts the frames that were
   pending before; a job that ends after no more than those leaves it false,
   and `esdcan_tx_done` is not called again.
2. **The unload may hang** (`dpc_unload`, `osif.c:1302`). The request to end
   does not raise `trig`, so a thread between its test of `destroy` and its
   `schedule()` sleeps on.
3. **A disabled timer may come back** (`timer_smp`, `osif.c:1516`).
   `timer_stub` calls `mod_timer` without a lock after another processor's
   `del_timer`. `osif_timer_destroy` calls `del_timer` too, so that a timer may
   likewise come back when its memory is free. A timer that is set to another
   time meanwhile may be early or late for the same reason, which is why
   `InTime` and `NotEarly` leave out calls that met `timer_stub`.
4. **A waiting command may sleep for ever** (`file_ask`,
   `esdcan_common.c:1008`). `my_nuc_ioctl` drops the lock, then queues itself
   and calls `schedule()` without looking at `wait.status`; an answer in
   between wakes nobody.

Seen while modelling. The model has the case, no run is kept for it:

- A signal leaves the job of a mixed canWrite() behind (`esdcan_common.c:848`).
  After a signal the code decides by `tx.cm_count` whether the job has ended, and
  compares it with the count of the earlier canSend(): while frames of that are
  pending, the write returns without `nuc_tx_abort`, as if nothing had been
  sent, and the nucleus goes on with its frames. `WriteEndsWithItsJob` under
  `Spec` instead of `UnmixedSpec` is violated in this way, with two threads and
  queues of two.
- A card may take the minors of another (`esdcan_pci.c:179`): the card number is
  the count of attached cards. When card 0 is removed through sysfs and card 1
  stays, the next probe takes number 1 again, with its entries of `nodes[]`.
  With `Hotplug = TRUE` and `MaxCards = 3`, `MinorsTrue` is violated in this way.
- A removal while the module stays loaded frees nodes under open handles
  (`esdcan.c:1079`); the comment at `esdcan_pci.c:360` counts on a removal at
  unload only. With `Hotplug = TRUE`, `NodesOutliveHandles` of `CardTable` is
  violated; without it the kernel's count of the module's users protects them.
- No path calls `pci_disable_device` (`esdcan_pci.c:189`), and a
  `can_board_attach` that fails leaves `lock_irq` (`esdcan.c:933`): the parts
  `Forgotten`.
- A failing `pci_enable_device` makes `can_attach` return success, and
  `esdcan_init` prints the card of a NULL pointer (`esdcan_pci.c:189`; state
  `oops`).
- `ocb_create2` loses the OCB on its two early returns
  (`esdcan_common.c:443`, 463; `Create2Abandons`), and two `CREATE` on one file
  each make an OCB, one of which is lost (1051; `LostOnlyToRival` allows
  exactly that). `nuc_check_links` is then called without the lock (1071).
- `esdcan_poll` uses `private_data` unchecked (2243; place `"oops"`).
- `id_filter` goes on after its nap without looking at `close_state` (376), so
  that it switches IDs of a closed handle.
- The count of a range that is the whole number space wraps to 0 (1410): it
  succeeds with nothing switched on. A failing ADD's undo switches off also
  what an earlier ADD had on (1412).

In data the models leave out: `GET_BAUD_X` copies a structure to the user that
was not filled when the nucleus fails (1518); `SET_RX_TIMEOUT` and
`SET_TX_TIMEOUT` lack the range check of `SET_TIMEOUT` (1754, 1536);
`nuc_id_filter_mask` is declared with (`amr`, `acr`) in `nucleus.h:158` and
called with (`acr`, `amr`).

In cantest, whose line numbers these are:

- tests 54 and 55 send from `txmsg[]` with its 2048 frames (799, 803), but their
  count is limited as that of a read, to 8192 (1308-1317, 2518, 2550), though the
  history at 207 says "Limiting count to size of rxmsg or txmsg".
  `BuffersSuffice` as an invariant of the instance of `programs` is violated by
  them; `CanTestInv` excepts them;
- in test 54 the children of the first turn close the handle they share before
  those of the second send; with a testcount of -1 the children go on testing
  (left out of `Args`); test 55's second canClose() ends with INVALID_HANDLE;
- "auto" becomes a numerical bit rate of canSetBaudrate (1799; the comment at
  974 says otherwise), an index with a flag in an FD test is taken for a number
  of bits per second (1089);
- in object mode with an acceptance code or 29-bit IDs the number of objects is
  negative; an ID from 0x80000000 on, which is none, becomes negative itself
  (1258, 1266), and the number of objects may then exceed the receive buffer
  (2101, 2233). Such IDs are left out of `Args`;
- help prints the bit rate details whether or not they could be read (3468);
- early returns with -1 and `exit(1)` leave the handle to the kernel.

## 7. External parts and assumptions

The binaries cannot be read; what the models assume of them is what the source
relies on.

*Nucleus*: calls back with `node->lock` held. `nuc_rx_abort` calls
`esdcan_rx_done` before it returns; a transmit job that is aborted may report
later, since frames may be in the controller, and takes no new frames
meanwhile. `nuc_tx` takes at least one frame or fails; on a live job it extends
that job, and one `esdcan_tx_done` reports all frames sent. `nuc_rx` and
`nuc_tx` may call their done-callback before they return; the model has it as a
step of its own right after. A result with no frame carries an error.
`esdcan_close_done` comes after all jobs are done and is the last callback.

*Kernel*: `wait_event*`, `wake_up*`, signals and mutexes as documented. A
call that returned -ERESTARTSYS and is restarted is a new call. `release` is
called once, with no other call on the file. Timers follow the wheel of 4.8
and later. PCI probes and removals come one at a time. A module with open files
is not unloaded.

*Nucleus, on a file*: `nuc_open` and `nuc_close` of one OCB do not touch the
others; `nuc_close` takes the handle's IDs out. `nuc_id_filter` reports in
`*count` how many IDs it switched, all of them with success and fewer with an
error, and none beyond the last of the node. `nuc_ioctl` answers EBUSY at most
once per wait record, with one `esdcan_ioctl_done` later.

*Users of the DPCs*: only the owner of an allocated DPC triggers it; a DPC has
one destroyer; the module is unloaded after all DPCs are destroyed. The NULL
test `osif_dpc_trigger` makes before it takes the spinlock is merged with the
locked stretch.

*Users of a timer*: calls on one timer come one at a time (its users hold
`node->lock`), on any processor, and none after its destruction. `Destroy` is
one step.

*ntcan library*: a call of cantest is the ioctl of the same name; canOpen gives
a handle or an error, canClose succeeds on an open handle and answers
INVALID_HANDLE on a closed one; the other calls answer anything.

*Left out of the modelled code*: `nuc_deferred_tx_messages` refusing a call
without a state change; `mod_cnt` and `cur_tgt` where they only serve
debugging; the card structure when its own allocation fails (nothing happens).

## 8. What is not modelled, and why

- The binaries themselves; the proc files, formatting and debugging output;
  byte order and time readings (no state); headers (declarations).
- `esdcan_ioctl_32` and `compat_ioctl`, which translate structures; what
  commands that set or read one parameter of the nucleus copy in and out. That
  they are refused, wait or answer at once is modelled (`OcbCommands`).
- Code that is not built for this card and kernels (`#if`s for 2.4/2.6, other
  buses, the init code without hot-plug); the tests of cantest that are not
  compiled for Linux; what it prints.
- `cansend.cpp` and `canreceive.cpp`: each is a loop over one call of the ntcan
  library, which is not in the repository.
- Probes in parallel: the PCI core is assumed to probe one card at a time.

## 9. Plan

Done, in this order: the handle and its contract, their proofs, the DPC thread
and its proofs, the timer, the cards; then the creation of handles, waiting
commands and the ID filter (`OcbFile`) with their proofs, the destruction of a
timer, cantest, the transmit half of the proofs, the proofs about cards and
timers with the arithmetic of the wheel, the contract of a DPC and its
refinement, and the proofs about cantest.

Left, most useful first:

1. `CardTable`: probes in parallel, should a kernel make them (both would read
   the card counter), and what a start of the DPC thread that comes too late
   leaves behind (`osif.c:1280`).
2. `OcbFile` and `OcbHandle` in one: `OcbFile` takes the end of `ocb_destroy`
   as given, `OcbHandle` shows that it comes. A refinement of `OcbFile`'s
   `Destroy`, `DestroyEnds` by `OcbHandle` would close the gap.
3. What a set that meets `timer_stub` may expect: by how much it can be early
   or late, or a discipline of its callers under which it is neither.
4. A contract for a timer as there is one for a handle and a DPC.
