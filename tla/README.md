# Formal models of the operating systems lab drivers

TLA+ models, model-checking runs and machine-checked proofs for the projects of this
repository: the Lunix:TNG sensor driver (`src/Lunix_Device_Driver`), the paravirtualised
crypto device (`src/Virtio_Crypto_Chat/virtio-cryptodev`) and the encrypted chat on top
of it (`src/Virtio_Crypto_Chat/encrypted_chat`). `PROJECT.json` lists every run, mutant,
hazard, finding and theorem, and maps each definition to its source lines.

## The system

| Component | Source | State it keeps | Operations |
|---|---|---|---|
| Sensor buffers | `lunix-sensors.c`, `lunix.h` | per sensor: three pages (value, time stamp), spinlock, wait queue | init, destroy, update |
| Character device | `lunix-chrdev.c` | per open file: cached text and its length, its time stamp, a semaphore; the VFS keeps the position | open, release, read (ioctl and mmap refuse), init, destroy |
| Protocol parser | `lunix-protocol.c` | state, position, bytes read and to read, pending escape, packet | init, received_buf |
| Line discipline | `lunix-ldisc.c` | `lunix_disc_available` | init, destroy, open, close, receive (read and write refuse) |
| Lunix module | `lunix-module.c` | `lunix_sensors` | init, cleanup |
| Helper | `lunix-attach.c` | lock file, terminal settings and discipline | attach, restore on a signal |
| Crypto device, guest | `guest/crypto-chrdev.c` | per device: virtqueue, spin lock; per open file: host descriptor | open, ioctl, release |
| Crypto module, guest | `guest/crypto-module.c` | list of devices, next minor | init, probe, remove, exit |
| QEMU backend | `qemu_driver/virtio-cryptodev.c` | the virtqueue's other end, descriptors of the host | vq_handle_output |
| Encrypted chat | `encrypted_chat/server.c`, `client.c` | socket, session, one buffer, `conn_active` | select loop, SIGINT |

How they interact: bytes of a terminal reach `lunix_ldisc_receive`, which hands
them to the parser; a complete sensor packet calls `lunix_sensor_update`, which
writes three pages under a spinlock and wakes the readers asleep on the sensor's
queue; a read of a device file compares its own time stamp with the page's,
sleeps if there is nothing new, else copies a value and a stamp under the
spinlock, formats a text in the open file under its semaphore, and copies out of
it. A call on the crypto device puts scatter-gather buffers in a virtqueue,
notifies the host and spins until the host gives a buffer back.

What is hard: readers that share an open file after `fork`; the wake-up protocol;
signals in the middle of waits; the reads and writes of a value and its stamp;
buffers that cut packets anywhere; steps of the initialisation that fail while
users are already there; one queue and one spin lock for all processes.
`PROJECT.json` lists these under "hazards", each at its line.

What makes each part correct:
- *device*: mutual exclusion on the cached state, no lost wake-up, snapshots of
  one measurement, reads that return contiguous texts, semaphores given back;
- *parser*: every field at its offset however the input is cut, no overflow, the
  updates that were sent and no others;
- *module*: users never meet sensors that are gone, one terminal at a time,
  nothing left registered, one sensor leaked at most;
- *crypto*: each call executed exactly once, its own answer to each, no
  descriptor leaked, every call returns;
- *chat*: the lines of the peer in order and all of them, an end that notices that
  its peer has gone, a server that outlives its clients;
- *helper*: one helper at a time on a terminal, a helper that waits has the
  discipline, a terminal that is left is as it was;
- *crypto module*: a device number means one device for ever, nothing is left
  when the module is gone.

## The modules

| Module | Stands for |
|---|---|
| `LunixSensors` | the sensor structures and `lunix_sensor_update` in three steps |
| `LunixChrdev` | extends it with the open files and readers; `LunixChrdevProofs` and, for what reads return, `LunixReadProofs` have its theorems, `MCLunixChrdev` its instances |
| `LunixProtocol` | the parser under `lunix_ldisc_receive`, and a description of the packets sent to it; `LunixProtocolProofs`, `MCLunixProtocol` |
| `LunixModule` | init, undo and cleanup of the module, init and destroy of sensors, discipline and device, and the users; `LunixModuleProofs`; checked as a part of `LunixAttach` |
| `LunixAttach` | extends it with the helpers; `LunixAttachProofs`, `MCLunixAttach` |
| `CryptoHost` | the calls, and what `vq_handle_output` does with each |
| `CryptoRPC` | abstract specification: a call is executed at one instant between its beginning and its return |
| `VirtioCrypto` | lock, virtqueue, notifications and the spin loop, shown to implement `CryptoRPC`; `VirtioCryptoProofs`, `MCVirtioCrypto` |
| `CryptoModule` | extends it with the module and its devices; `CryptoModuleProofs`, `MCCryptoModule` |
| `Chat` | the server and its clients over TCP; `ChatProofs`, `MCChat` |

### LunixSensors and LunixChrdev

Each reader has a `pc` whose labels are the places of `lunix_chrdev_read` where
another task can come in. `Down` to `Out` follow the source top to bottom:
semaphore (`Down`, `DownInterrupted`), the unlocked test (`CheckFresh`,
`CheckStale`), the expansion of `wait_event_interruptible` (`Prepare`,
`PrepareSignalled`, `Recheck`, `Wake`), the second semaphore (`Redown`,
`RedownInterrupted`), the snapshot in two reads so that a torn one is visible
(`SnapValue`, `SnapStamp`), `Format`, the copy (`CopyOut`, `CopyFault`), and
`Out`. `Return` is the VFS: it stores the position of a call that did not fail.
The error paths do what the code does, not what it should: an interrupted wait
goes to `out` without the semaphore, and an interrupted second `down` (which
returns -EINTR while the code looks for -ERESTARTSYS) continues as if it held it.

Abstractions. A measurement is its serial number, and `TextLen` gives the length
of its text, so the lookup and `sprintf` of `Format` are not spelled out. A page
that was never written has value 0 and stamp 0. A count that wraps below zero is
refused by `copy_to_user` with -EFAULT. The clock ticks in whole seconds;
`MinGap` says how many seconds apart measurements are at least: 0 is what the
code allows, 1 is the assumption under which stamps tell measurements apart.

### LunixProtocol

One action per byte: `ParseByte` is a turn of the loop in `parse_state` together
with the transitions of `received_buf` that follow it; `ParseFails` is the two
error returns; `Receive` cuts the line anywhere. A debug build gives up after 50
turns in one field (`OOPS`), which is the build the Makefile makes by default.
Values are bytes and 16-bit words as in the code.

What a base station sends is an input, `Frames`: bytes on the wire, the updates they
mean, and whether they are said to be a packet (`clean`). `Spells`, `Means` and
`IsPacket` describe a packet by the table of its fields: which offset each byte of the
wire belongs to, which are written as two, and which update it asks for. They model no
code; the theorem about updates has them as its hypothesis, and `MCFramesAssumption` has
TLC evaluate that the frames of the instance meet it.

### LunixModule

`pc` walks through `lunix_module_init`, its two labels of failure, or
`lunix_module_cleanup`. Each kernel call may fail. The kernel is external: what
is registered can be used from that moment, users hold module references, rmmod
needs there to be none, and unregistering a line discipline in use is refused.
If that refusal happens in a failed load (`lunix_ldisc_destroy` ignores it), the
module's memory goes while the discipline stays registered. What a kernel does
then is not modelled: nothing attaches or detaches in memory that is gone, and no
module is loaded again.

### LunixAttach

`at` follows `main`, `tty_lock`, `tty_open`, `sig_catch` and `tty_close` one system
call at a time, because between two of them another helper can run:
- the lock (`Test`, `Creat`, `WritePid`) is a test, then a file made or truncated,
  then a pid written. Two helpers can pass the test together, and a helper can write
  its pid into a file that another has removed, which is what `linked` is for. A helper whose
  `getpwnam` finds no UUCP holds its lock but is not in `saved`, and leaves the file
  behind; `tty_already_locked` then sees a dead pid;
- `tty_open` (`OpenTTY` to `DiscOpened`). Each failure ends the helper where the
  code returns; after the mode was changed, that leaves it changed. `SetDisc`
  is a `SetLdisc` of `LunixModule`, `DiscOpened` its `LdiscOpen`;
- a signal starts the handler (`RestoreDisc` to `Leave`), and a different signal
  starts it again on top. `tty_close` ignores what the calls it makes return, so
  `TIOCSETD` (`RestoreDisc`, `DiscReopened`), `TCSETS` (`RestoreState`) and `unlink`
  (`Unlock`) may each fail and the handler goes on, as on a terminal that was hung up.
  `Kill` is any death that no handler sees.

So a helper is one of the module's users, and an unloaded or busy module is a failed
`TIOCSETD`. External: the last close of a terminal releases its discipline, and
`HeldOpen` terminals are also open elsewhere; a pid is not used twice; all helpers run
as one user, so that `kill(pid, 0)` may be called; the kernel does not interrupt a
change of discipline. `tty_restore` looks the speed "0" up, which is
not in the table, so the saved mode is restored as it is.

Three history variables say where the code promises nothing. `raced` has the terminals
for which two helpers passed the test together, whose lock file could not be opened
(which the code takes for no lock), or whose handler ran again after it had given the
lock back. `modeLost` has those whose mode a helper left changed, because it was killed
or failed half way or its `TCSETS` was refused, and `discLost` is the same of the
discipline. They are two because `tty_close` makes its two attempts one after the other
whatever the first returns: losing one must not lose the other, which is what
`GivenBack` says.

### CryptoHost, CryptoRPC and VirtioCrypto

`CryptoHost` holds what the two others share: the calls, and `Answers`, the set
of outcomes that `vq_handle_output` can have. The descriptors and sessions of the
host's cryptodev are external. `VirtioCrypto` adds the code between: `Prepare`
(allocation and filling of buffers), `Lock`, `Send` (add_sgs and kick), `Receive`
(the spin loop), `Unlock` and `Return`, against `Serve` and `Push` on the host.
The host takes one element per notification and notifications coalesce, as the
virtqueue allows; that this suffices is a result, not an assumption. `Free` is the end of
the device while a file is open on it: nothing is modelled after it, so every other
step is one of a device that is there (`There`). `open` hands
the host the bytes of a pointer instead of the number OPEN; what they read as
depends on the build, so both outcomes, OPEN or a number the host does not know,
are allowed.

The refinement: a call is `called` in `CryptoRPC` until the host has executed it
(it is being served, given back, or its process has left the loop), then `done`.

`Refuse` is a call that returns before it reaches the queue (no memory, a bad pointer,
an unknown command). After the host's answer `Results` says what the process sees:
the host's result, or a failure of a `copy_to_user`, which comes after the host has
acted. `IoctlTellsFailure` relates the two at the step that returns.

### CryptoModule

`mod` walks through `init` and `fini`: device numbers, character device, driver, and
what a failure undoes. Devices come and go at any time the driver is registered;
nobody sees a device before `Probe` puts it on the list or after `Remove` took it
off, so each is one step. One of the devices, `Device`, is the one whose calls
`VirtioCrypto` follows: `open` reaches it while it is on the list with a number the
character device covers (`CRYPTO_NR_DEVICES`).

`Remove` looks at nothing that is open, as `virtcons_remove` does not: it may free
`Device` under an open file or a call that spins. The model has that step (`Free`, which
sets `freed`) and stops there, because what a guest does with freed memory is not in the
code. So the properties hold up to and including such a removal, and none says that an
open file keeps its device. An open before `init` has initialised the list, which it
does after the character device is there, is not modelled. Both are hazards in
`PROJECT.json`.

### Chat

Each end has a `pc`: the server `accept`s, then both loop through `select`, the
`socket` (`ReadSocket`, `ReadEnd`) and `stdin` (`ReadStdin`, `WriteFails`,
`InputEnd`), test `conn_active`, and `Leave`. `Stop` is `clear_conn_active`, called
by ^C (`Signal`) and by `raise(SIGINT)` at an end of stream. The interrupt that
falls between the test of the flag and `select` is a choice of `Signal`. The one
global buffer is kept, so that what a short read leaves of it, or an end of stream
shows of it, is what the code decrypts.

Abstractions. A block is `Parts` parts; `Decrypted` gives the line of a block whose
parts, as far as its text reaches, are in place, and noise otherwise (`Parts` stands for
the 32 cipher blocks, which are chained, so that one strange part spoils what follows).
Noise without a NUL, which `decrypt` copies past its buffer, is shown as noise. Lines
are shorter than the buffer and end in a newline. TCP is external: two streams for each
connection; closing with data unread, or writing to a peer that has closed, leads to a
reset. The sockets' buffers do not fill. `Fails` is every call that may fail, on a
socket, a terminal or the crypto device: the program prints it and exits.

## The runs

| Run | What it shows | Bounds |
|---|---|---|
| `chrdev_shared` | exclusion until a signal, semaphores given back, snapshots, wake-ups, order of texts | two readers, one file, three measurements in two seconds (so that two share one), one signal |
| `chrdev_private` | what successive reads return; reads return; signals end them | one reader, one file that is reopened on two sensors, reads of 0 and 2 bytes of texts of 1 and 3, three measurements, two signals, faults |
| `chrdev_signals` (violation) | one signal breaks the exclusion | as `chrdev_shared` |
| `chrdev_offset` (violation) | a shared file's position beyond its text | as `chrdev_shared`, no signals |
| `chrdev_same_second` (violation) | a second measurement in one second goes unnoticed | one reader |
| `protocol` | fields, updates | two frames of eight kinds, every way to cut them |
| `protocol_burst` (violation) | what follows a packet in a buffer is lost | as `protocol`, frames back to back |
| `module` | order, single terminal, undoing, leaks; one helper per terminal, which has it and gives it back | two sensors, two loads, one open file, two terminals of which one is held open, two helpers, two signals |
| `crypto` | the refinement, no leaked descriptor, calls return; unique numbers, nothing left by a module that is gone | two processes, two files, two descriptors, one session each, two devices, three numbers given out of which one can be opened; a removal under an open file ends the run |
| `crypto_refused` (violation) | a refused ioctl succeeds | two processes, two files, two descriptors, one session each |
| `chat` | lines shown as sent, the server goes on, closed connections noticed | two clients, blocks of two parts, three lines, ends of input, ^C or failures in all |
| `chat_reset` (violation) | a write to a connection that was reset ends the server | as `chat` |

Why the bounds are enough. Exclusion and shared positions need two readers of one
file. Three measurements make a sequence old, newer, newest, so that a text can
go backwards and a sleeper can miss one while another is served. Two seconds with
three measurements force two of them into one second. Texts of 3 and 1 bytes with
reads of 2 give a partial read, a rest and a shorter successor. One signal already
breaks the exclusion, and in `chrdev_private` a second one meets the retry. The
frames have escapes in the payload, an empty payload, an unknown node, a field too
long for a debug build, a truncated packet, a sensor packet too short for its fields
and stray bytes; two of them show what the first leaves
behind. A failed load followed by a good one shows what is left over. Two sensors
are one that is initialised and one that fails; two helpers race for one terminal or
hold one each, of which only one can have the discipline; two signals are one for
each helper, or one on top of a handler that runs, or a kill and then a signal to the
helper that comes next. Of two devices one can take the
other's place, and three numbers give it back its place under a new number, outside
the range that can be opened.
Two processes on a spin lock show every interference, and two files and two
descriptors show sharing and exhaustion. `Size` is 16 because the backend's queue
has 128 places and the longest request takes eight. Two clients give the server a
second conversation with the buffer and the flag of the first; two parts give a
short read; three events give a line each way and an end, a ^C on top of the end
of a conversation, or a failure in the middle of one.

Deadlock is checked in `crypto`, where the module goes on after calls have ended and a
removal under an open file is the one end, which stutters. In `crypto_refused` `Free`
ends the behaviour, and in the others the bounds on measurements,
frames, loads and typing end the behaviour, or a reader rightly sleeps for ever, so
`CHECK_DEADLOCK FALSE`.

### Fairness

`chrdev_private`: a task inside the kernel runs on (weak fairness of its own
steps) and an update that has begun ends. Semaphores and spinlocks serve their
waiters in order, hence strong fairness of `Down`, `Redown` and `SnapValue`.
Nothing makes measurements, signals, ticks or calls happen. `crypto`: the same for
the guest's steps, strong fairness for `Lock` (queued spin locks), and QEMU
handles a notification it has and finishes an element it has taken, as long as the
device is there: `CallReturns` promises nothing of a call whose device is freed. Nothing makes
a process call. `chat`: the programs run on (weak fairness of `Accept` and of the
steps of each end, which never wait while they are enabled); nobody has to type,
press ^C or connect.

## What the code does not keep

Six statements of comments and tests do not hold, each a run that ends in a
violation:

1. `chrdev_signals`: `lunix-chrdev.c:54-58` wants the state lock held in
   `state_update`. Line 191 releases a semaphore that is not held, and line 194
   takes an interrupted `down_interruptible` for a successful one.
2. `chrdev_offset`: `lunix-chrdev.c:203` limits the count to what is left of the
   text. The position is older than the lock, and the difference can be negative.
3. `chrdev_same_second`: `lunix-chrdev.c:37-40` tells whether the cache needs an
   update; within one second it does not notice.
4. `protocol_burst`: `lunix-ldisc.c:81-84` passes characters to code that handles
   any necessary updates. What follows the first packet in a buffer is dropped.
5. `crypto_refused`: `test_crypto.c:60` and `:76` look at what ioctl returns. The
   host's result is freed unread.
6. `chat_reset`: `server.c:166` wants a broken connection not to kill the server.
   Line 167, which would ignore SIGPIPE, is commented out, and a write that fails
   exits; `ServerSurvives` holds because it leaves out the write to a reset connection.

One more holds only in part: `lunix-module.c:74` says that a failed load undoes
everything. `LeaksOneSensor` is how far that goes: the pages of the sensor whose
initialisation failed half-way are lost, and no others.

## The proofs

TLAPS checks these for all values of the constants that satisfy the assumptions
named in the modules: `SensorsAssumption`, `ChrdevAssumption`, `ProtocolAssumption`,
`ModuleAssumption`, `AttachAssumption`, `HostAssumption`, `SizeAssumption`,
`CryptoModuleAssumption`, `ChatAssumption`. Four theorems need more, which is written in
their statements: `StaleTheorem` (`MinGap >= 1`), `CopyTheorem` and `ReadsTheorem`
(`PrivateFiles`), `UpdatesAsSentTheorem` (`CleanFramesArePackets`, `~ Burst`). Together
they state every invariant and every safety action property of the passing runs.

`LunixChrdevProofs`. `TypeCorrect` first. The invariants are layered, each
inductive on top of those before:
- `OpenInv`: a reader inside a call has its file open, and a file that is closed
  has no reader inside;
- the semaphore counts: `SemaphoreComesBack` needs that a semaphore at zero was
  taken by somebody who still has to pass `out`. It holds with signals too,
  because the paths they add only raise the count;
- `LockInv`: while no signal was sent the count and the reader that uses the
  cache add up to one, which implies `MutexUntilSignal` (`MutexTheorem`);
- `SnapInv`: what the updater has written so far in each page, and what a reader
  between its two reads has seen, gives `NoTornMeasurement` (`NoTornTheorem`);
- `OrderInv`: the value a reader is about to format is not older than the cached
  text, which with exclusion gives `TextNeverOlder` (`TextNeverOlderTheorem`);
- `NoLostWakeup` (`WakeupTheorem`) rests on the reader being on the queue before
  it tests for news, and on the updater writing the stamps before it wakes.

Exclusion is not inductive alone: the count could be one with a reader inside.
Neither are the snapshot properties without exclusion: another reader could
overwrite the stamp between a reader's snapshot and its text. What these properties use is
`Exclusive`: no signal yet, or `PrivateFiles`, no two readers with one file.

`LunixReadProofs` is about what reads return. Each hypothesis is one the code does
not establish, and a violating run, named with it, shows what happens without it.
- `StaleIsDetected`, if measurements are at least a second apart
  (`chrdev_same_second`): `StampInv` orders the stamps of the pages by the
  measurements they belong to, `MinGap` apart; `FreshInv` says that a reader only
  takes a snapshot when its file is out of date and then formats a newer value, so
  that the text and its stamp move together. `NeedsRefresh` compares
  stamps only: the proof is that different measurements have different stamps.
- `CopyWithinText` and `ReadsAreWhole`, if no file is shared (`chrdev_offset`): a
  signal can still let a reader into `Format` without the semaphore, but nobody else
  is there. `ReadInv` relates four things by the reader's place: its own position,
  the one the kernel keeps for the file, the length of the cached text, and the last
  piece delivered. The hard places are an interrupted call, which leaves the file's
  position alone, and a fault, after which the text is newer than the last piece.

`LunixProtocolProofs`. `FieldPosition` together with `TypeOK` is inductive
(`ParserInv`): the position is the field's offset plus the bytes read of it, so
each transition starts the next field at its offset, and the widest payload ends
below the size of the buffer. Lemmas say what `Take`, `Advance` and `Restart` do
to the parser. `NoOverflow` follows: the branch of `parse_state` for a full buffer
is never taken, for any input.

`UpdatesAsSent` says that the sensors get exactly the updates of the packets sent, and
`FrameInv` is what makes it inductive: while all that was sent are packets, the parser
is idle and even with what was sent, or it has read the first `i` bytes of a frame, at
the offset where the next byte belongs, and holds their part of the packet. The rest of
the frame is in the buffer and on the line; or it is all in the buffer, and the next
frame is already on the line, so that the parser is one frame behind. One lemma takes a
byte of a packet through `ParseByte` (`StepByte`), with the second byte of an escaped
pair as a case of its own. `~ Burst`, one packet at a time on the line, is needed:
`protocol_burst` loses an update without it. What frames that are not packets do to the
parser is left to TLC.

`LunixModuleProofs`. None of the module's invariants is inductive. `ModuleInv` adds to them
what is registered at each place of init and cleanup (`RegisteredInv`), that users
exist only where their kind is registered and that `lunix_disc_available` is the
absence of an attached terminal (`UsersInv`), and which sensors have pages at each
turn of the loops (`PagesInv`). From it follow `SingleTTY`, `UsersHaveSensors`,
`NothingRegistered` and the action property `LeaksOneSensor`.

`LunixAttachProofs`. `HelpersAreUsers`: every step of a helper is a step of the module's
users or leaves the module alone, so `AttachSpec` implements `LunixModule`'s `Spec` and
inherits its theorems. `AttachInv` then needs that a terminal that is being changed is
some helper's (`OpeningInv`, `KernelInv`), and `LockInv`: outside the races, a helper
that passed `WritePid` is the one its lock names, and from the test until the lock is
given back a terminal has one helper. `OneHelper` follows, for any number of helpers
that fail, die or leave their lock behind; with it, `HelperHasTerminal` holds because
nobody else would take the discipline off. `GivenBack` needs the converse, once for each
half: a terminal whose mode is changed has a helper whose place says that it is going to
change it back (`ModeInv`), and what that helper found and keeps in `before` is the
mode untouched (`FoundMode`); `DiscInv` and `FoundDisc` are the same of the discipline.
Each step that ends a helper at such a place, and each restoring call that fails, puts
the terminal into `modeLost` or `discLost`. The two invariants do not mention each
other, so a discipline that is lost does not excuse the mode.

`VirtioCryptoProofs`. `CryptoInv`: who is inside the spin lock (`LockInv`); the queue,
the used ring and the element the host has are together the one request of the
process that waits (`QueueInv`); each call agrees with its file (`CallInv`). `OneRequest`
and `FdsOfFiles` (the host's open descriptors are those of the open files and of
the calls in flight: none leaks and no two files share one) follow. `CallsAsRemoteTheorem`
maps each step to a step of `CryptoRPC` or a stutter: only `Serve` is the
execution of the call; all that comes before and after, for other processes too, leaves
the abstract state alone.

`CryptoModuleProofs`. `CallsInModule`: the module restricts the calls and at most frees
the device under them, so `VirtioCrypto`'s theorems hold in it. `ModuleInv` adds where
what is registered and that the module of an open file is loaded, its device on the list
or freed (`OpenFilesInv`); with `FdsOfFiles` that gives `NothingLeft`. Numbers are
unique because each is below `next_minor`, which only grows within a load.

`ChatProofs`. `TypeOK` needs `LineInv`: what an end decrypts is a whole buffer, and a
line only comes from the end at which it was typed. `ServerInv`: a server that was not
hit and waits in `select` has its flag set, so that an end of stream clears the flag
once and brings it back to `accept` instead of ending it; only an end of its input leads
elsewhere. `ShownAsSent` rests on two invariants. `ConnInv`: what is closed and ended in
the streams of a client that is still to come or waits, and that an end in its loop has
not closed its own stream and has left the loop once it saw the other's end.
`StreamInv`: as long as reads were whole, a stream holds exactly the blocks of the lines
that were sent and not yet shown, all their parts in order. So a whole read fills the
buffer, which serves both directions and all clients, with one line and nothing that was
there before. The property alone says nothing of what is in flight.

Only model-checked: liveness (`ReadReturns`, `SignalEndsRead`, `CallReturns`,
`PeerGoneEnds`, and the fairness that `CryptoRPC` asks of `CallsAsRemote`), which
needs fairness and ENABLED and is out of the prover's reach. What the six violating
runs show is not provable, because it is false.

## Plan

In this order; what is done is marked.

1. (done) `LunixSensors`, `LunixChrdev` and the proofs of their safety.
2. (done) `LunixProtocol` and its proofs, with the updates that were sent.
3. (done) `LunixModule`; (done) `CryptoHost`, `CryptoRPC`, `VirtioCrypto`.
4. (done) The proofs of `LunixModule` and `VirtioCrypto`, and of the refinement of
   `CryptoRPC`; (done) those of what reads return, in `LunixReadProofs`.
5. (done) `Chat`, with calls and a crypto device that fail, and its proofs. To come:
   long lines.
6. (done) `CryptoModule` and its proofs.
7. (done) `LunixAttach` and its proofs.
8. Composition of parser, sensors and device, with terminals that change; an
   abstract specification of a device file as a register of measurements.
9. The conversion of a value to text, against a reference definition.

Not modelled and not planned: the generator of the lookup tables, build files and
scripts, tests, the QEMU patch, vendored headers, and the solutions to the
riddles. They keep no state that interacts with the above.
