# Verification of mdebug

mdebug is a host-side debugger for Cortex-M microcontrollers. It talks to a USB
debug probe (SWD or JTAG), offers a command console, a gdb server, trace (SWO)
output to sockets, and downloads small *flash agents* to the target.

This directory holds TLA+ models of it, TLC configurations that check the models
on small instances, and proofs checked by TLAPS.

## The system

| component | source | state | operations |
|---|---|---|---|
| transport | `tools/rswdp.c`, `tools/usb.c` | `sequence`, `swd_online`, `usb`, the pending transaction (`swd_txn_id`, `swd_txn_data`, `swd_txn_status`), `swd_maxwords`, `swd_error`; all but the last two under `swd_lock`/`swd_event` | `q_exec`, `swd_reader`, transaction builders, attach, clear error, bulk memory access |
| debugger threads | `tools/debugger-core.c`, `tools/debugger.c` | `_dbg_lock`, `_swo_lock`, variables, script functions and their frames | console loop, monitor thread, listeners, `debugger_command`, scripts |
| gdb bridge | `tools/gdb-bridge.c` | packet reader state, receive and transmit buffers, flags, thread list, breakpoint tables | packet reader, command handler, poll loop, console output |
| core control | `tools/arm-m-debug.c` | `ATTN`, `swdp_step_no_ints` | halt, step, resume, register access, watchpoints, wait loops |
| JTAG engine | `tools/jtag.c` | tracked TAP state, bit buffers | move, IR and DR scans |
| JTAG transport | `tools/jtag-dap.c` | DAP, queue of operations, error | attach, queue and commit, memory access |
| commands | `tools/debugger-commands.c` | loaded agent, architecture, register cache | console commands, flash agent host side |
| flash agents | `agents/*.c`, `include/agent/flash.h` | block of target memory shared with the host | erase, write, verify on the target |
| trace decoder | `tools/swo.c` | parser state, console line | packet decoding |
| LK threads | `tools/lkdebug.c` | list read from target memory | walk of the target's thread list |
| web socket | `tools/websocket.c` | one connection | handshake, frames |
| stand-alone tools | `lpcboot.c`, `stm32boot.c`, `picoboot.c`, `usbmon.c`, ... | | boot loaders, monitors |

Who calls whom: the **console** thread, the **gdb** thread and the **monitor**
thread (four polls a second) run commands under `_dbg_lock`; a command builds
transactions and runs each with `q_exec`, which writes it to the probe under
`swd_lock` and waits on `swd_event`. The **reader** thread owns the read side of
the USB handle: it opens the probe, asks for its version, hands each reply to
the waiting caller, passes trace data on to the decoder and the sockets, and
after a disconnect waits until some caller has closed the handle before it opens
the next one. Flash agents run on the target and share memory with the commands.

What is hard: a reply slot shared by two threads with different locks, a handle
opened by one thread and closed by another, replies that come late, from an
earlier connection or never, disconnects at any point, error recovery that runs
inside the lock and argument evaluation that runs outside it.

### What makes each component correct

* transport: a reply reaches the caller that sent its transaction, and only
  while that caller waits; a handle is used only while open and closed exactly
  once; nobody sleeps through what it waits for; the debugger reconnects.
* debugger threads: commands are atomic with respect to each other; an error is
  recovered from before the next command.
* memory: a call that succeeds has read or written its words, each at its own
  address, whatever the cuts, and nothing next to them.
* gdb bridge: every packet is handled once and in order, the packet reader finds
  its way back after noise; gdb never waits for a stop nobody will report, and no
  stop is reported that is not one; the breakpoints recorded are the ones set in
  the hardware.
* core control: the interrupt mask never changes as the core is let go; a step is
  one instruction; a halt reported done stays in force.
* LK threads: the list shown is the target's, complete; every record is freed once.
* JTAG: the tracked TAP state is the hardware's; what is read is what was asked;
  errors stick until an attach, which works from any state.
* flash: a download or erase that reports success has done all of it, and no page
  is touched that was not to be, whatever fails that the code looks at.
* trace: the decoder resynchronises; each client gets the whole stream in order, is
  never written to after it was closed, and is let go when it is gone.

## Modules

| module | what it is |
|---|---|
| `Rswdp` | the transport: `q_exec`, `swd_reader`, USB and the probe |
| `RemoteCall` | abstract: an at-most-once remote call |
| `Debugger`, `MCDebugger` | extends `Rswdp`: the threads, `_dbg_lock`, error recovery; its instance for TLC |
| `TargetMemory` | abstract: what a debug transport promises of memory reads and writes |
| `AhbMemory` | SWD memory transfers, cut into transactions; refines `TargetMemory` |
| `GdbMemory`, `MCGdbMemory` | extends `AhbMemory`: gdb's byte reads and writes; its instance |
| `Jtag`, `MCJtag` | the JTAG engine over a TAP, and its instance |
| `JtagDap`, `MCJtagDap` | the JTAG transport over a debug port; refines `TargetMemory`; its instance |
| `CoreControl` | halt, step, resume, wait for halt, on a core that runs meanwhile |
| `LkThreads` | extends `CoreControl`: reading the target's thread list |
| `GdbSession`, `MCGdbSession` | extends `LkThreads`: gdb, the bridge's thread and the console; its instance |
| `GdbLink`, `MCGdbLink` | the packet reader and writer, character by character; its instance |
| `Breakpoints`, `MCBreakpoints` | the breakpoint tables over the comparators; its instance |
| `Flash`, `FlashAgents`, `MCFlash` | flash commands and the agent on the target; eight agents; its instance |
| `Swo` | the trace decoder, a function of the bytes |
| `Trace`, `MCTrace` | uses `Swo`: reader thread, decoder and listeners; its instance |
| `DebuggerProofs`, `GdbBridgeProofs`, `BreakpointsProofs`, `GdbSessionProofs`, `JtagProofs`, `JtagDapProofs`, `FlashProofs`, `TraceProofs` | proofs |

`Debugger` is `Rswdp` with threads on top. `AhbMemory` and `JtagDap` sit above a
call that runs a transaction and returns (what `RemoteCall` promises): they are
two implementations of one table of functions (`debug_transport`), and so
implement one abstract specification.

### Rswdp

Each C global is a variable of the same name. The frame of `q_exec` in a thread
is `cpc` (how far it is), `id`, `size` and `data` (its reply buffer, `Garbage`
until a reply is copied into it); that of `swd_reader` is `rpc`, `query_id`,
`packet`. libusb and the cable are `open` (handles not yet closed), `live`
(handles that still reach a device), `plugged`, `rxmax` (the buffer size the
probe declares) and the two pipes.

An action is one critical section of `swd_lock` or one step outside it. A
`pthread_cond_wait` splits a section: `QWrite` ends in it, `QWake` or
`QWaitAgain` follows. The write of a transaction and the wait for its reply are
one section in the code, so `QWrite` is one action; the reader, which holds no
lock while it reads, may take a packet at any time (`RRead`) but looks at it
only in a section of its own.

`size` is the only thing kept of a transaction's contents, and of a reply its
kind: ok, error, version. The builders `q_ap_*`, `q_ahb_*` are `QBuild`.

### Debugger

Adds `dbg_lock` and the stage `dpc` of each thread's command. `Lock` is
`debugger_lock`; `NoError`, `ClearError`, `Cleared`, `MonitorGivesUp`,
`Reattach`, `AttachPowerUp`, `AttachDone` are the recovery that follows it
(`_swdp_clear_error`, `_swdp_reset`); `Command` is any transaction of a command
handler. `ParseRead` is a transaction `parse_number` runs before the lock is
taken, by the threads in the constant `Parsers`. Which commands are typed is not
modelled: a handler may run any number of transactions.

`RemoteCall` is the specification `q_exec` is meant to meet; the refinement
mapping `CallState` finds where a caller's transaction is: in the pipe, answered,
lost, returned.

### AhbMemory

`call` is the call of `_swdp_ahb_read32`, `_swdp_ahb_write32` or a single access
that is under way, `done` the words of it transferred; `how` tells bulk from
single. A step is one transaction with its `q_exec`: `Xfer` is the size the
loops compute, and a transaction may be built for any of the buffer sizes in
`BufferWords`, a new one each time (`swd_maxwords` may change between them). The
access port is modelled by what the code relies on: where the i-th access of a
transaction goes (`Access`), which wraps at the end of an aligned block when
auto-increment is on, and that a read returns the result of the one before.
`inc` is the auto-increment bit, which a failed bulk transfer may leave on.

A transaction fails with or without the target noticing: a fault on the bus sets
its sticky error, a usb write that times out or a parity error on the wire does
not, and the next access is then accepted.

### GdbMemory

Words are four bytes. `m` is `BeginRead`, `Fetch`, `Reply`; `M` is `BeginWrite` and
then `ReadShared`, `WriteShared` (the read-modify-write of a word with other
bytes in it), `WriteWhole` and again a shared word, as `write_memory` goes from
one to the next (`Phase`). `x` is the local word and starts as stack contents.
The number in an `M` command is not used by the code, which takes the length
from the data, nor by the model.

### Jtag

`txn` is the `jtag_txn`: the state tracked, the status, and for what was appended
the TMS bits, the lengths of the pieces (`bits`) and whether a result is wanted.
The bits of TDI are not kept. `tap` is a TAP that follows IEEE 1149.1 and
remembers which registers were updated after how many shifts; `asked` is what the
client asked for. Clients may put any sequence of operations into a transaction;
the paths of the engine (`FromIdle`, `FromExit1`, `FromPause`) are those of
`jtag_txn_move`, with its missing ones, after which the transaction is refused.

### JtagDap

The queue of scans each function builds is built the same way (`QApWr`, `MemRd`,
`QCommit`, ...), with the cached instruction register, and one step executes it.
The target answers scan by scan (`Scanned`): results one scan late, WAIT while an
access is pending, overrun detection, sticky errors that block later accesses.
`connect_ti`, whose transactions' results the code ignores, is `Connect`,
`Route` and `Find`; `dap_attach` is `DapPowerUp` and `DapStatus`.

Assumed of the hardware: a target that is not on the chain drives no
acknowledgement (a chain in which one bypass bit takes its place would be
mistaken for it, because two of the three acknowledgement bits are looked at);
WAIT is answered only while an access is pending; a reset target is off the chain.

### CoreControl

`csr` is the set of control bits of DHCSR, `halted` its S_HALT. A function
(`swdp_core_halt`, `_step`, `_resume`, `_wait_for_halt`) is `op`: which one, its
next access, the word it has read and modified. `Call` begins one; `ReadCsr`,
`HaltFirst`, `WriteMask` and `Go` are its accesses, one action each, and
`WaitForHalt` one turn of the loop. `Prepared`, `Masked`, `AfterRead` and `Final`
are its computation with the word. Between them the core executes, enters debug
state and meets breakpoints.

While `link` is false accesses fail; it may become false and true again at any time,
so that one access of a function may fail alone, as in the code: `q_exec` does not
look at `swd_error`, and after a write that timed out or a parity error the next
access is accepted. A write that fails may have been made (`CsrWrite`). `op.lost`
remembers that a write failed whose result the function does not look at. `Open` is
what the architecture leaves open of a write that changes MASKINTS, or STEP, while
it takes the core out of halt.

### LkThreads

`walk` is `find_lk_threads` under way: the info block, the current thread, then
the list node by node, a record for each; `heap` counts the records allocated,
and `GiveUp` is its `fail` label. `ring` is the target's list.

### GdbSession

`gpc` is where `gdb_server`'s loop is, `gcmd` the command in hand; `con` is the
console's command. The loop takes the lock, looks at the core if gdb waits for a
stop (`Check`), gives the lock up and polls; `HandleCore` ... `Updated` is
`handle_command`, for the commands that have to do with the core or the threads;
the others are `Look`. `qRcmd` gives the lock up and the command it runs takes it
again (`RcmdUnlock` to `RcmdRelock`). gdb sends `?` first, then a command
whenever it waits for nothing, and ^C while the core runs. `selected` are the
threads `Hg` and `Hc` have chosen, pointers into `threadlist`.

### GdbLink

One action of the bridge is one turn of `gdb_recv`'s loop, with the whole of
`handle_command` and its answer if the character completes a packet. `Framed` is
`gdb_prologue` to `gdb_epilogue`, `Put` what `gdb_putc` does when the buffer is
full. A command is its text, an answer the text in `Replies`; lines of console
output a `qRcmd` prints come before it as packets of their own. The client waits
for acknowledgements, sends again and gives up as gdb does.

### Breakpoints

`fp` and `bp` are the tables, `fpb` and `dwt` the comparators. A `Z` or `z`
packet is `Command` and then the reads and writes of `handle_flashpatch`,
`handle_breakpoint` and `swdp_watchpoint`, one action for each access that can
fail apart from the others; `ConsoleWatch` is the console's `watch-pc` and
`watch-off`, which program comparator 0 past the tables. Accesses may fail and
succeed again in the middle of a command, and a write that fails may have been made
(`After`). `held` is what gdb was told, `stale` the comparators that missed a write.
`cmd.blind` says that the flash patch unit could not be read, so that its table was
not searched, though the DWT may be. `twice` are the addresses that were entered in the
second table while they were in the first, or passed over in the first by a blind
search (findings).

### Flash

`at` is where `run_flash_agent` is, `call` what `invoke` is to run, `regs`, `pc`
and `halted` the core, `ram` the agent's data buffer. `Attach`, `ResetStop`,
`BootRom`, `LoadAgent`, `ReadHeader`, `CheckRange`, `WriteData`, `Advance` are the
host's steps, `LoadRegisters`, `Resume`, `Wait` those of `invoke`, `AgentRuns` is
what the target does. Accesses may fail and succeed again, and each register of a call
may fail alone: nobody looks at the results of these writes and of the reset, and
`astray` says that one of them failed since the command began (a finding). An agent is a record: where its pages begin, how much a
write takes, what it rounds up to and fills up with, what it does when asked to
erase nothing. Flash is counted in words, and bits go from 1 to 0 only. The flash
controllers and boot ROMs behind the agents are external.

### Swo and Trace

`Swo` is `handle_swv` and `handle_swv_src` as folds over bytes. A line is collected up
to `LineMax` characters (254), and printed through `xprintf`, which has room for
`PrintMax` of them after its prefix (246) and stops at a zero byte (`Xprintf`,
`CString`). In `Trace` the
reader thread takes a message off `pipe`, decodes it and passes it on with
`_swo_lock` held: `ProcessAsync`, `TransmitLock`, `Write`. A listener accepts,
publishes its client, serves it, withdraws and closes (`lpc`). A write to a
client that does not read waits with the lock held. The second write to a client
that has gone ends the process (SIGPIPE): `up`. `text` keeps the values the target
sent to port 0, to compare with what is printed. `PacketsAssumption` says what a
trace port sends: a value of one, two or four bytes, from software or hardware, or a
protocol packet whose header has bit 2 clear (the others are a finding).

## Runs

| run | properties | shows |
|---|---|---|
| `DebuggerUnlocked` | `HandleSafe SlotSafe NoStaleReply NoLostWakeup` | with a console whose arguments read the target outside `_dbg_lock`, and noise, unplugging and spurious wakeups, the transport is still safe |
| `MCDebugger` | `OwnReply ImplementsRemoteCall` | under `_dbg_lock` each call gets its own reply, and `q_exec` implements `RemoteCall`, with all faults but noise |
| `DebuggerLive` | `CallsReturn ComesOnline` | liveness if only the cable is pulled |
| `DebuggerParse` | `OwnReply` violated | arguments read the target outside the lock |
| `MCJtag` | `JTypeOK StateTracked ScansAsAsked ResultsInPlace` | the TAPs are where the engine thinks, see the scans asked for and no other, and results are taken from the right bits |
| `MCJtagDap` | `NoSilentError AttachWorks ImplementsMemory` | under every fault a memory call that succeeds did what it was asked, no error goes unnoticed, and an undisturbed attach succeeds from any state |
| `MCGdbMemory` | `WriteExact ReadReturns ImplementsMemory` | bytes of every address and length are written where they belong and nowhere else, and read right, over transfers cut at wraps and buffers |
| `MCBreakpoints` | `Tracked HeldOnce NoStray` | the tables are what gdb was told and, where no write was missed, what the hardware has |
| `MCGdbSession` | `NeverStranded InStep RecordsSafe ListComplete OneStep StopIsTrue MaskApart StopArrives` | stops, threads and masking are right whatever gdb, console, core and link do, and a stop or a ^C is answered in the end, but for a wait in vain |
| `MCGdbLink` | `TypeOK Once TxWhole Handled` | each command is handled once and as sent, replies are whole, the reader finds the next packet |
| `MCFlash` | `FlashRight EraseExact` | success means done, and nothing else is touched, unless a write whose result is ignored failed |
| `MCTrace` | `Decoded Printed SocketsAlive Fanned LetsGo` | decoding over cuts and losses; lines up to the room for them; clients that come and go |

Bounds. Two callers are enough for every race on the slot: its states name at
most one owner and one intruder. Two handles let a closed one be told from the
one in use. Sequence numbers are counted modulo 3, one more than the number of
callers: with `NoIdReuse` (the assumption that 65536 transactions do not go by
while one is unanswered) an id in use is never taken again, and a smaller range
only forces ids to be reused sooner, which is harder on the code. A pipe holds
one packet, so a writer meets a full pipe. `MCDebugger` leaves out noise packets,
which do not touch the slot; `DebuggerUnlocked` has them, and leaves out writes and
reads that fail while the cable is in, and lost replies, which `MCDebugger` has; the
proofs cover all faults together. The liveness run has one handle
and only unplugging. With commands that read outside the lock `CallsReturn` would not
hold: the reply that is dropped as unexpected leaves a caller waiting, possibly
with `_dbg_lock` held. That is part of what `DebuggerParse` shows.

`MCGdbMemory` has a memory of 4 words in wrap blocks of 2, buffers with room for 1
and for 3 words, one command at each of the 16 addresses of each length that
fits, started with either value of auto-increment and the sticky error, which is
all that an earlier command leaves: a bulk transfer is thus cut by the wrap, by
the buffer and by its own length, aligned and not. `MCJtag` has chains with TAPs
before, after and none, registers of 4 and 18 bits, up to three scans, a bit
buffer of 60 bits (so that it overflows within three scans) and `MaxResults` 40
(so that the comparison of the wrong counter refuses one). `MCJtagDap` has two
words of one bit, so that a stale or misplaced word shows, calls of up to two
words, and two tries where the code has five and ten: one that fails and one
after it.

`MCBreakpoints` has three addresses, two of them code, one flash patch comparator
and two watchpoint comparators of which `swdp_watchpoint` refuses the second: either
unit can be full, an address can go from one to the other, and the third waits
outside. gdb may set and clear any of them for ever.

`MCGdbSession` has two threads, one of which may be unreadable, three commands
between gdb and the console (enough for a console command to run into a gdb step,
and for a ^C, which is not counted, to cross with a stop), one failure of the link,
which may last for one access or for many, and masking off or always (`maskints on`, which masks steps only, is in the
proofs). The target's list contains its head: one that does
not would be walked for ever.

`MCGdbLink` has packets of up to 9 characters, answers that fit and one that does
not, a command that is too long by one, three commands and one spoilt
character, which may become `$`, ^C, a digit or a letter. It does not become `#`: a
packet cut short by a false `#` takes the next two characters for its checksum, and
`strtoul` reads what is not a digit as 0, so that such a piece is handled if its sum
is 0 too. `Good` models that; `Once` does not hold there (the types and `TxWhole` do,
and are proved for any noise).

`MCFlash` has two or three pages of up to four words, one page worn or none, every
address and length from one before the flash to one behind it, and one
failure anywhere: the link, for good or for an access, or any of the registers of a
call alone. On each part its own agent, and two mistaken ones (`Mistaken`), with and
without a boot ROM to run first: a wrong agent does not get past `setup`, so that two
stand for all (the proofs have any). `FlashRight` and `EraseExact` except commands that went
`astray`, and fail without that.

`MCTrace` has syncs and eight other packets, of each shape, four of them in a
behaviour, one of which may lose its end, cut into messages anywhere; or, with clients about,
syncs only, as clients take bytes as they come. A line is printed early at three
characters and `xprintf` prints two, newline included: four packets make a line that
just fits, one that is cut, and one that fills the buffer. `Printed` speaks of texts
whose lines fit and that have no zero byte in them; one packet has one.

`CHECK_DEADLOCK FALSE` in the runs with a bounded number of commands or packets
(gdb, flash, trace), which stop after them.

Fairness (`Fairness` in `Debugger`). Weak for the reader, for what a caller
does once it holds what it needs and for the monitor's next poll: these are
threads the scheduler runs. Strong for taking and for giving back `_dbg_lock`:
a mutex is passed on, and a handler that returns to its loop again and again
eventually ends. Strong for the probe's answer: a probe that is connected often
enough answers. None for `Request` of the console, for faults, or for `Plug`.
`DebuggerLive` has no lost answers, because nothing in `q_exec` times out: with
one lost the caller waits for good, as the code intends.

In `GdbSession` weak fairness for the console, gdb's reading and the core, which
executes and heeds C_HALT but need not meet a breakpoint, and strong for the bridge,
which has to get `_dbg_lock` between the commands of others. `StopArrives` has one
exception, `WaitsInVain`: a step an access of which failed unnoticed, and which waits
with `_dbg_lock` held for a core that runs on (a finding). In
`GdbLink` weak for the bridge's reading and for what gdb does when an answer is
there or its time is over. In `Trace` weak for a write to a client, which reads on or
goes (a client that stays and never reads holds up everybody for ever, as the code
has no time limit: `LetsGo` does not hold without this), strong for a listener, which
has to get `_swo_lock` between messages, and weak for its noticing that its client
has gone. `Breakpoints` and `Flash` have no liveness: their loops are bounded.

## Proofs

`DebuggerProofs` proves `Spec => []TypeOK` and then `Spec => []SafetyInvariant`,
for any number of callers and handles, any sequence range, buffer sizes and
faults. The inductive invariant is the conjunction of the checked invariants with
`Handshake`. None of them is inductive alone: `RDeliver` writes to the frame
that `SlotSafe` says is waiting, which gives `NoStaleReply`; `SlotSafe` survives
`QWake` because a pending status cannot be seen by a caller that leaves, and
survives a reconnection because `Handshake` says nothing is pending unless the
probe is on line; `HandleSafe` needs `Handshake` to know that the reader opens
only when no handle is open. `HandleSafety`, `SlotSafety`, `NoStaleReplies` and
`NoLostWakeups` are its parts.

It goes on to show that every step of the threads is a step of `Rswdp`, so
all of it holds there (`TransportSafe`), and that with `Parsers = {}` every
call gets its own reply (`OwnReplies`). That needs one more invariant: only the
holder of `_dbg_lock` has a transaction under way (`LockUsed`), so the frame
the reader copies to is that of the only caller, and a caller whose wait is over
without a failure has its reply (`ReplyKept`). `DebuggerParse` shows that the
assumption cannot be dropped. `RemoteCalls` is the refinement, under the same
assumption: a call's transaction, or its answer, is in one place at a time
(`CarriedOnce`), so that each step moves the abstract state of the one call under
way by a step of `RemoteCall` or not at all (`OwnStep`), and leaves that of every
other caller alone (`OthersStep`).

`GdbBridgeProofs` proves `ASpec => ImplementsMemory` for every memory size, wrap
size and set of buffer sizes, and first that a call stays within what it was
given (`AInv`: in the memory, no more words than asked for, data for each).
`XferFits` shows that a transaction has at least a word and ends before the wrap;
then the i-th access goes to the i-th word (`AccessInOrder`), so that what is
stored and fetched is what the abstract step writes and reads (`StoredIsWritten`,
`FetchedIsRead`), also by the part of a transaction that a failure leaves
(`ShorterFits`). `AhbAssumption` is needed for progress: a probe that declares a
buffer of 16 words or less would be sent empty transactions for ever.

Above that it proves `WriteExact` and `ReadReturns`, for every address, length and
contents. Half-way through an `M` memory is neither what it was nor what it is to be;
`BridgeCorrect` says what it is: bytes outside the command's are as before
(`Outside`), those the bridge has passed are as gdb wants them (`Behind`), those ahead
are still in the command, and the words of the write under way carry the right bytes,
the ones they share with their neighbours included (`Carried`). A failed call spoils
that only for the command it belongs to.

Its last part is the packet layer. `LinkTypeCorrect`: whatever characters come, the
packet and its final 0 stay within `rxbuf`; with it goes that all that is under way
are characters and that gdb has sent something when it waits (`LinkInv`).
`PacketsWhole`: what gdb gets are whole frames of whole texts, since a packet that may
have lost something to the size of the buffer is not sent (`FramedWhole`), and what is
on its way to gdb are acknowledgements and such packets (`BackInv`).

`HandledOnce` is `Once` as long as no character was spoilt: for any commands, replies
and size of the buffer, gdb and the bridge stay in step through acknowledgements being
turned off between two packets, breaks typed into the middle of one, commands too long
for `rxbuf` that gdb sends until it gives up, and console lines before an answer. That
a command was handled as sent says nothing of where both sides are, so `OnceInv` names
the phases of an exchange (`Clean`): a packet is `Coming`, and what the reader has of
it and what the line still carries are its characters in turn (`Spelled`, `Reading`);
only breaks are left (`ToBreak`); the answer is on its way (`Answering`), with the
acknowledgement before it (`Acked`); the command was `Dropped`; or gdb is `Ready`. In
each of them what gdb will see ends with the answer to its last command (`Told`), and
both sides agree on whether acknowledgements are on. `Sum` is a function of the
characters read, so that the checksum gdb computes ahead and the bridge piecewise is
one (`SumsNext`), and `Strtoul` of the two digits gives it back; `Once` is stated with
`Without` and not with `SelectSeq`, into which the prover cannot look. What is assumed
of the texts is `CommandsAssumption`: a command contains nothing that begins or ends a
packet (gdb escapes it), no console line (`O` and digits) reads as the answer does, and
the `OK` that turns acknowledgements off comes alone and fits.

`DebuggerProofs` also has the type invariant of the threads (`ThreadsTyped`), with
any `Parsers`.

`BreakpointsProofs` proves `Tracked`, `HeldOnce` and `NoStray` for every number of
comparators, every set of addresses, and any failures. Between commands these are
what is to be proved; in the middle of one they are false, and the strengthening says
by how much: which comparator is being programmed and what it still has to get
(`InHardware`), which address is recorded already though gdb has not been told
(`Recorded`), that entries in use are among those the loops look at (`Counted`),
and that the flash patch has been searched before the watchpoint unit is, unless it
could not be read, and then whatever is found of the address there later makes it one
of `twice` (`Searched`).

`GdbSessionProofs` first shows that whoever uses the core holds the lock (`LockInv`),
so that each of the session's steps is one of a few moves of the core (`CoreMoves`);
what a function of the core promises is then shown over these moves alone. For
`OneStep`: the words a function writes keep the core halted up to the last
(`Prepares`), the mask bit is in the register by then unless a write of the function was
lost (`MaskWritten`), so a core that was halted is until
the last write (`Stepping`) and has executed nothing or one instruction after it
(`Stepped`). `MaskApart` and that a halt stays in force (`HaltsHold`) follow from
the same invariant. A second part adds what the bridge knows between the halt and
its answer (`Telling`): nobody else can have let the core go, as the lock is held all
the while. It also follows what gdb waits for (`Dialogue`): a command is on its way,
in the bridge's hand (`InHand` says which at which point), or answered; a stop may
instead be what the bridge watches the core for, and a `^C` may be anywhere behind
it. `NeverStranded` and `InStep` read off that. A third shows that records are freed
once (`WalkInv`: there is a walk just when one of the threads is at it, and the bridge has freed its old
list by then; `HeapExact` is then kept by each step) and that the selected threads
are in the list (`SelectInv`): from the first `?` on the selection is made anew with
each list, and before it has been answered gdb sends nothing that looks at one
(`Young`). Its `TypeCorrect` is the type invariant of the session; that the count of
records is not negative needs `HeapExact`. All hold for any thread list, any number
of commands and failures, and any setting of the mask.

`ListsComplete` shows that a list read to its end holds the current thread first and
every other thread of the ring once (in the code's order, which is the ring's
backwards, or any other): each walk has gathered what lies between the head and where it is
(`Gathered`). `LkAssumption` says that no node is in a ring twice, which is what a
ring is.

`JtagProofs` proves `JTypeOK`, `StateTracked`, `ScansAsAsked` and `ResultsInPlace` for
transactions of any length. (`JTypeOK` bounds the bits; the index of the results,
which the code does not check, is not bounded.) What a row of bits does to a TAP is a recursive function
of its length. The library's induction cannot be used, but well-foundedness of the
naturals says that a set of them without a least element is empty, and with that
clocking two rows is clocking one and then the other (`AfterConcat`). So each piece
the engine appends has a lemma of its own: a path between two states (`Rows`,
`Moves`), a shift (`Shifting`, `ShiftLast`), padding. `JInv` says that the bits so
far, clocked into any TAP the transaction may begin with, take it to the state tracked
with the scans asked for (`At`), and that the pieces add up to the bits (`Whole`), so
that the offset of a result is that of its own scan (`Placed`).

`JtagDapProofs` proves `NoSilentError`, `AttachWorks` and `ImplementsMemory` whatever
the bus, the link and the power do. A transaction is followed scan by scan (`Loaded`,
`Dropped`, `Becomes`), then request by request: from a port that is `Fine`, a request
is taken, or dropped with the overrun told; once one was dropped (`Spoilt`) nothing
more is started until CSW is written, so the status read at the end speaks for all of
it. `ReadTransaction` and `WriteTransaction` sum that up: both acknowledgements and a
clean status mean that every request was taken. `DInv` adds the client: between two
transactions the port is `Ready` if there is no error and it is there, an error is
told all through an attach, and how far an attach that nothing disturbs has got.

`FlashProofs` proves `FlashRight` and `EraseExact` for every agent with pages that
tile its flash (`FlashAssumption`), and every buffer, address and length. The agent's
loops come to what their contract says: an erase covers the pages of its range and no
others (`EraseIs`, `EraseCovers`), a write puts the buffer in place and only in erased
words (`WriteIs`, `WriteCovers`); `RoundUpIs` and `Tiled` say that blocks end where
pages do. `IInv` follows one command: what the host has erased and written so far
(`Progress`), what it has asked the agent (`Asked`) and what the agent will have done
when it is back (`Effect`). It holds as long as the command is not `astray`; what
holds in any case is that the types are kept, whatever the agent runs with, and that the
next command begins anew (`LInv`).

`TraceProofs` proves `SocketsAlive` and `Fanned`, of any packets, cut anywhere. A
published client is one its listener serves or is about to withdraw, and a socket is
open from when it is accepted until it is closed; the lock makes withdrawing wait
for the reader (`Linked`). What a client lacks is the message in the reader's hand,
as long as its turn is to come (`Abreast`).

It also proves `Decoded` and `Printed`, for every stream of source packets and of
protocol packets whose header has bit 2 clear (`PacketsAssumption`; a port sends others
too, a finding), any losses and any cuts. `ProcessSwoData` is a recursive
function of the bytes; the induction of `JtagProofs` gives that bytes in two messages
are decoded as in one (`DecodeConcat`), so that only `Fed` matters, the decoder as it
will be when what is in the pipe has come. The decoder remains one (`IsDecoder`)
whatever it is fed (`DecoderStays`); a sync brings it between packets from wherever it
is (`SyncDecoded`), as each zero counts; from there each packet is found for what it
means and leaves it between packets with at most four zeros counted, so that none runs
into a sync (`SourceDecoded`, `ProtocolDecoded`, `PacketDecoded`). `DecoderInv` says
that, of `Fed`, and `PacketsDecoded` is the case of an empty pipe. For `Printed`, which
is about streams of which nothing was lost, what was printed and the line under way
are the text so far, and that line has no newline in it (`Collected`): if it were longer than
`xprintf` prints, the text would have a line that long (`FullLine`), of which `Printed`
does not speak, and without a zero byte %s prints all of it.

Assumed: `ConstantsAssumption`, `DebuggerAssumption`, `AhbAssumption`,
`GdbMemoryAssumption`, `BreakpointsAssumption`, `CoreAssumption`, `LkAssumption`,
`SessionAssumption`, `JtagAssumption`, `DapAssumption`, `FlashAssumption`,
`LineAssumption`, `LinkAssumption`, `CommandsAssumption`, `PacketsAssumption` (checked
by TLC in every run of their modules).

Only model-checked:

* the liveness properties, out of the prover's reach;
* `Once` of `GdbLink` once a character was spoilt: that no spoilt packet passes for
  another one holds for the noise and the number of faults of the run only, as a
  checksum of eight bits lets some pass (with none spoilt it is `HandledOnce`);
* that the eight agents are agents: TLC evaluates `FlashAssumption` for them.

## Findings

Where the code does not do what it, or a document beside it, says (PROJECT.json has
the lines and quotes). Only the first has a run that shows it (`DebuggerParse`);
the others were seen while modelling, and the models do what the code does.

* Arguments of commands read the target without `_dbg_lock`, so that a reply may
  reach another thread's buffer (debugger-core.c:584).
* The size of the probe's buffer is read without the lock, and may change between
  the cut of a transfer and its sending (rswdp.c:584); the version query's write may
  fail unnoticed, and the debugger stays off line (rswdp.c:398).
* What a step or a resume writes before its last write may fail alone, and is not looked
  at: the mask may then change as the core is let go (arm-m-debug.c:96), or a console
  step wait for ever with `_dbg_lock` held (debugger-commands.c:170).
* gdb's unaligned `m` may fetch a word too few (gdb-bridge.c:625), and a failed read
  inside an unaligned `M` is written back (gdb-bridge.c:363).
* An address may be entered in both breakpoint tables, and stays set in one when gdb
  removes it (gdb-bridge.c:449); the same if the flash patch unit cannot be read and the
  DWT can (gdb-bridge.c:412).
* A packet of the size advertised does not fit (gdb-bridge.c:78).
* A trace protocol header with bit 2 set is taken for a source packet (swo.c:130).
* Lines of port 0 that are longer than `xprintf` has room for, or have a zero byte in them,
  are printed in part (debugger.c:45).
* Agents fill up with what lies in the buffer and not with 0s (flash.h:110), and a
  register of an agent's call may be lost unnoticed (debugger-commands.c:728).
* `jtag_ir_p` after an IR scan is refused (jtag.c:277); `db` writes the transfer size
  to the target's memory (debugger-commands.c:346).

## Plan

Done: the transport and its threads, both memory transports, gdb's memory
commands, the session, the packet layer, breakpoints, core control, LK's threads,
flash and its agents, trace. Next, in this order:

1. `Script`: the interpreter's frames (debugger-core.c), used by two threads.
2. Console output of other threads into the bridge's transmit buffer, which needs
   `GdbLink`'s sending split into characters.

## Not modelled

* Scripts and variables; `exec_function`, whose arguments are kept in globals.
* Console commands that format what they read, file loading, `dap_probe` (a
  listing); formatting and logging everywhere.
* The register commands `g`, `p`, `G` of gdb but for the thread they look at; the stop
  that waits for a reset.
* What a web socket's FILE still holds of the handshake's answer when the first frame is
  written past it (websocket.c:119), and the thread list left when a session ends
  (gdb-bridge.c:852). The room for results in a JTAG transaction (jtag.c:72).
* The boot loaders and the stand-alone tools (`lpcboot.c`, `stm32boot.c`,
  `picoboot.c`, `usbmon.c`, ...): sequential programs around one device,
  with no state shared with the debugger.
* The vendored line editor, hash and encoding; the text of the web socket handshake
  (`Handshake` keeps which headers were there).
* Firmware of the probe and hardware of the target, but for what the code relies on:
  external in every module.

The reading of packet contents (`process_reply`, `process_query`, `process_async`) is
reduced to its outcome, one message to a packet. Data races on the plain ints shared
without a lock (`swd_error`, `swd_online`) are taken as atomic accesses.
