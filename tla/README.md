# libs_cpp in TLA+

A verification development for `libs_cpp`, a set of C++ libraries for power
electronics laboratories: instrument and field-bus drivers, photovoltaic models
and trackers, and the small tools around them. It holds TLA+ models of the code,
TLC configurations that check them on small instances, and TLAPS proofs of the
results that matter most for every instance.

The core of the repository is its Modbus master: it is what talks, over links
that lose, delay and break messages, to devices that move power. It is modelled,
checked and proved about in full depth here, and so is the program that drives
two power supplies under signals and a timer. The driver of those supplies and
the helpers around them (LXI instruments, serial port settings, child processes,
INI files, command lines, clean-up, matrices, strings, fixed point, controllers)
are modelled and checked, and for most of them what makes them correct is proved;
what is left out is listed below, with the reason.

Line numbers refer to the files in `src/`.

## 1. Inventory

### Modelled

**Modbus front end** (`modbus.cpp`, `modbus.h`, `modbus_errors.h`). Keeps no
state between calls. Each of `writeHoldingRegisters`, `readHoldingRegisters` and
`readInputRegisters` checks the count and the range, builds a request in a local
buffer, hands that same buffer to `bus::transaction` to receive the answer, and
checks the answer's first two bytes and its length. Hard: the buffer is reused,
so after a short answer the checks look at the request; the function code is not
compared, so a stale answer to another operation reaches the checks.
Correct if: registers handed to the caller are bytes of an answer of exactly that
many registers; an exception is never success; a request outside the address
space is refused.

**Device handles** (`modbus.h:101-156`). A `device` is a pointer to a bus and an
address; constructing, copying, assigning, releasing and destroying one locks and
releases the bus, whose `release` is virtual "to close bus connection once it is
no longer necessary". Hard: any sequence of value copies and assignments.
Correct if: the count of a bus is the number of handles that hold it.

**Serial bus** (`modbus_serial*.cpp`, `crc16.cpp`). State: a descriptor, and what
the kernel and the line hold. `open`, `close`, `transaction`. A call writes a
frame and collects bytes until 1.7 ms of silence, an overflow or the deadline
(1 s; 200 ms for ASCII, whose `transaction` is the same text). Hard: nothing in a
frame tells which request it answers; slaves may be late, pause inside a frame or
not answer; noise. Correct if: an answer comes from the addressed slave; no answer
serves two calls; answers are taken in order; on a line that keeps its times a
call takes its own answer; every call returns.

**TCP bus** (`modbus_tcp.cpp`). State: a socket and an 8-bit transaction number.
`connect`, `reconnect`, `close`, `transaction`. Hard: partial reads, stale
answers left in the stream, a peer that closes, connections that are refused
after `connect` started, number wrap-around. Correct if: a call takes its own
answer or none, through time-outs and reconnections; a lag does not survive a new
connection; every call returns; success of `connect` means a connection.

**Power supply** (`kepco.cpp`, `kepco.h`, over `serial.cpp`'s `getch`). State: the
port, whether the supply is ready and whether it echoes. `open`, the commands,
`close`; all of them are exchanges of a line for a line. With a supply that
echoes, two bytes are sent before the first echo is compared. Hard: answers after
their timeout; echoes left by an exchange that failed; a hand-shake that is
decided by what comes before a timeout; an interrupted `select` followed by a
`read` without a limit. Correct if: `open` finds out whether the supply echoes; no
command returns the answer to another; a supply that hears is off once it is closed;
every operation ends.

**Test program** (`mppt.cpp`, with the stack of `destroyer.h`). One process, four
contexts: `main`, the alarm handler that samples the generators, and the handlers
of SIGINT and SIGTERM. State: which signals are handled, a flag that ends the run,
a semaphore that is to detect overload, one that main waits for, the supplies, and
the stack of clean-up functions. Hard: a dozen steps that may fail with supplies
on; a handler that talks to the same supplies as main; a clean-up that runs while
signals still come. Correct if: each supply that was switched on is told to go off
by the end, and is off if it heard; main and the handler never use them at once; the
clean-up is not disturbed; the run ends, and no earlier than `-t` asks (it does).

**The bus, abstractly** (`modbus.h:73-77`). What the front end may assume of any
`transaction`. Both buses are shown to implement it.

**Clean-up stack** (`destroyer.h`). State: a vector of functions. `add`, `clear`
and the destructor, which call them last in, first out. Hard: a function is taken
off after it was called, so one that throws is called again, and one that adds
another has the wrong one taken off. Correct if: what a program added is called
after everything it added later, and never lost.

**Serial port settings** (`serial.cpp`, `serial.h`). State: which device a port
is, its speed, parity and modem lines, beside what the terminal driver keeps for
the device. Hard: every setting changes some flags only, and others may have used
the device. Correct if: an open port has the speed and parity that were set.

**LXI instruments** (`lxi.cpp`). A descriptor per connection; messages with and
without an answer, and the search of a range of addresses. Hard: an answer comes
in pieces and may be late; descriptors run out. Correct if: an answer is that of
the query, until one was given up; a search returns the first that answers.

**Process launcher** (`pexec.cpp`). Up to three pipes, a `fork`, and the `dup2`s of
the child. Hard: a failure half-way; a child inherits every descriptor, those of
earlier children's pipes too. Correct if: a failing call leaves nothing behind; a
child's streams are its pipes; children get their end of file.

**INI loader** (`iniloader.cpp`, `iniloader.h`). State: a vector of groups, each a
vector of keys, and a pointer to a group. Setting, reading, loading, saving,
patching another loader. Hard: the pointer outlives the vector's memory; names
pass through four layers of text. Correct if: it is a dictionary of dictionaries,
which `clear` empties (it does not), and what is saved comes back.

**Argument tool** (`arg_tool.cpp`). One pass over the arguments against a table of
options. Hard: a parameter is skipped inside the loop, and options share variables.
Correct if: a command line that is accepted can be read back from the variables.

**Matrices** (`matrix.cpp`, `matrix.h`). A matrix owns a block of rows; expressions
are lazy and point to their operands. Hard: a target that is an operand of what is
assigned to it; temporaries that swap blocks; two assignments without a `return`.
Correct if: the target has the value
the expression had before; each block has one owner.

**String helpers** (`straux.cpp`), **fixed point** (`fixed.h`), **controllers**
(`stdctl.h`), **maximum power point search** (`pvgen_mpp_I.cpp`). No state, or one
number. Hard: an automaton for numbers, conversions that must be inverse, shifts
past the width, saturation, an interval whose powers are kept from one step to the
next. Correct if: they agree with a reference definition; integrators come back
from their limits; the interval keeps the maximum.

The application calls the front end, which calls the virtual `transaction` of one
bus, which calls the kernel; the only concurrency is with the line, the network
and the devices, which the bus modules contain. The test program calls two
supplies, from main and from its alarm handler; each supply calls its own port.
`Pexec` has as many processes as the program starts. The helpers share nothing
with each other.

### Not modelled

| Component | Why |
|---|---|
| photovoltaic equations and models (`pvgen*.cpp` but `pvgen_mpp_I.cpp`) | floating-point formulas and numerical search, with no control to speak of |
| trackers (`mppt_*.h`, `mppt_mlam.cpp`), least squares, `matv4.h` | one floating-point formula per step |
| `progressbar.cpp` | output only: what it keeps is where it is on the line |
| `smalt.h` | a list of arrays that are deleted together |
| `crc32.cpp` | table-driven bit arithmetic on real sizes |
| data files (`load_dat`, `save_dat`, `save_csv`, `dxf`, `scilabdat`) | pure input and output |
| `debug`, `error`, `rdtsc` | macros and the base class of exceptions |
| `regexpp` | a call of a library each |
| OpenCV helpers, Octave scripts, build fragments | loops over images, plots, lists of files |

## 2. Modules

| Module | What it is |
|---|---|
| `ModbusPdu` | the protocol as pure operators: refusals, answers of a device, what the front end returns for an answer |
| `ModbusStream` | what `read` takes from the kernel and leaves there |
| `ModbusFrontEnd` | one front-end call and its reused buffer |
| `ModbusTransport` | abstract: what `bus::transaction` promises |
| `ModbusRtu` | serial bus, line and slaves; implements `ModbusTransport` |
| `ModbusTcp` | TCP bus, connection and server; implements `ModbusTransport` |
| `ModbusHandles` | reference counts |
| `KepcoExchange` | the power supply's driver, its port and the supply |
| `MpptProgram` | the test program: main, its signals and its clean-up stack |
| `Destroyer` | the clean-up stack with functions that throw or add others |
| `IniText` | the text of INI files as pure operators |
| `IniStore` | abstract: a dictionary of dictionaries |
| `IniLoader` | the loader; implements `IniStore` until a key goes astray |
| `Matrix` | matrices, their memory and their lazy expressions |
| `Lxi` | messages to instruments and the search of a range |
| `SerialPort` | settings of a port and what the driver keeps |
| `Pexec` | children, pipes and the descriptor tables of all processes |
| `StrAux`, `StrAuxCalls` | the string helpers as pure operators, and at work |
| `FixedPoint` | `fixed32` on words of `Bits` bits |
| `ArgTool` | `arg_eval`, argument by argument |
| `Controllers` | the three PI controllers on integers |
| `MppSearch` | the maximum power point search on integer currents |
| `MCModbusRtu`, `MCModbusTcp`, `MCKepco` | instances for TLC |
| `MCBuses` | both buses in the same surroundings |
| `MCObjects`, `MCConversations`, `MCAlgorithms` | instances that bundle components |
| `ModbusLemmas` | lemmas about the protocol and about `ModbusStream` |
| `ModbusRtuProof`, `ModbusTcpProof`, `KepcoProof`, `MpptProgramProof` | theorems about these modules |
| `ObjectsProof`, `ConversationsProof`, `AlgorithmsProof` | theorems about the bundles |

The three bundles, and `MCBuses`, hold components that share nothing. `part`
(`bus` in `MCBuses`), chosen at the start
and constant, says which of them a behaviour is of; the others stay as they were
made. A behaviour of a bundle is a behaviour of one component, and the states of
the components add up and do not multiply. Theorems about a bundle hold for every
value of its constants; what TLC takes for them is defined below a line.
What the code computes by a loop or by recursion is a recursive function here, for
a module that is proved about may not reach a recursive operator.

**ModbusPdu.** Return values are the code's integers. `Answer(r, form)` is what a
device says to `r`: two bytes and a length, the only parts the front end looks at;
register values are not kept. `Validate` is the tail of the three functions.

**ModbusFrontEnd.** `BuildRequest`, `Deliver`, `Return` are the three stretches of
a call around `transaction`. A byte of `buff` has a value and an origin, so that
a check that looked at the request instead of the answer shows. `Deliver` allows
any two bytes and any length, not only those of an honest device.

**ModbusTransport.** Calls are numbered; `re[n]` is the call whose answer call `n`
was given. `MayUse` is the promise: the answer exists, it is from the same target,
it is newer than every answer of that target used so far, and, with `Exact`, it
is the call's own. An abstract call may always fail.

**ModbusRtu.** A byte on the line is `<<n, i>>`, byte `i` of the answer to call `n`.
This identity is for the properties: the code's conditions read only what the code
can see, whether the collected bytes are one whole frame (`Whole`, the CRC) and
the address byte (`FromTarget`). `Begin` and the `Call*` actions are the front end
up to the wait, one action per early return; `ReadBytes`, `Discard`,
`DiscardFails`, `ReceiveFails`, `CrcFails`, `WrongDevice`, `Accept`, `Expire` are
the branches of one iteration of the loop at `modbus_serial_rtu.cpp:68`. A call's
send and its return are separate steps, with everything the line does between
them. `Serve`, `Send`, `SendGarbled` are the slaves and the line.

**ModbusTcp.** The same plan. `peer` is the other end: "up", "fin" after it closed
(a first write still succeeds), "dead" after that or when the connection was
refused. A write to a dead peer raises SIGPIPE, which nothing in the library
handles; the model is of a program that ignores it, in which the write fails, and no
property rests on that. `ReadStart` and `ReadMiddle` are the first read of a call, aligned or not;
`stuck` is the search loop that increments the wrong variable. `Complete`,
`WrongDevice`, `WrongId`, `WrongProtocol` and `Accept` follow the order of the
checks at 123-153. A number is kept unwrapped and compared modulo `IdMod`.

**ModbusHandles.** An assignment is two steps, `AssignRelease` and `AssignLock`,
because a bus that overrides `release` runs between them.

**KepcoExchange.** `phase` is the loop the driver is in: the two drains of `open`
("drain", "wake"), then "echo", "response", "prompt" of an exchange; `op` is the
operation that asked for it. A byte has a character, which the code sees, and the
exchange it belongs to, which it does not. `wire` is what is on its way: the
supply hears a byte when it is written, and when its answer arrives is when `getch`
takes it. `Finish` is the end of an exchange with what `open` or `close` does next.
`Interrupted` is the select of `serial.cpp:244` with a signal: `blocked`, the driver
waits for a byte and for nothing else. `world` holds what the surroundings do: it
is chosen at the start, so one run covers the eight kinds, and the supply may fall
silent at any time (`FallsMute`). `outcome` and `calls`
are history, which only the bound and the properties read. `Text` and `Answer` say
what the commands are and what answers those that ask; a setter is answered by an
empty line. `Says` is what a supply says to what it hears.

**MpptProgram.** `pc` is where main is, one place per step that may fail or talk to
a supply, `hpc` where the alarm handler is. One thread runs them: an action of main
requires that the handler is not active (`Main`), and an alarm that comes while it
is waits (`Alarm`). Every `return` of main goes to "clear", the destructor of `d`,
then to the destructors of the two global supplies. `Interrupt` is SIGINT or
SIGTERM at any time: it kills, sets the flag, or does nothing, as the signal is
handled then. What an exchange does is in `KepcoExchange`; here it is one step, and
`disturbed` records that a signal's handler ran during one. `output` is what became of
each supply's output: "on" when the program switched it on, "off", or "left on" by a
`close` whose reset was not heard; `kepco_bop::close` does not look (`kepco.h:90`),
and the supply is no longer ready, so that nothing tells it again (`Close`). Who
else switched a supply on is not followed. The `Destroyer` is the
sequence `v` with `Top`; what is modelled of it is what main does with it.

**Destroyer.** Tasks are numbered as they are added. `Call` is the call that
`clear` makes of the last one, `AddInside` and `Throw` are what the task may do,
`Return` takes off whatever is last by then. `Clear("exit")` is the destructor.

**IniText, IniStore, IniLoader.** `Do(c)` is one call of the loader; a load or a
patch puts the calls it makes in `todo`, one per line or key, and `Continue` makes
them. `currentGroup` is an index, `NoGroup`, or `Moved` after a `push_back` that may
have moved the vector; what is written through that (`Wild`) is lost or a crash.
`astray` notes that a key went to another group than its own, at line 245. `clear`
leaves `contents` as it is, so the refinement says nothing of a `clear` that had
something to remove (`ClearOfSomething`). It maps `contents` to the dictionary that `getKey` finds. `Written` and `Read`
are what `escape` and `unescape` do with one character.

**Matrix.** `mats[m]` is a matrix with the number of its block, `heap` the blocks. An
expression is the sequence of its objects as they are constructed, each with the
places of its operands, which come before it. `at`, `needs`, the sizes and the constructors' checks are those of the expression
classes. `Evaluate` is an assignment with or without the temporary, `Copy` the
assignment the compiler supplies, `resize` itself. `AssignNegated` and
`AssignInverted` end without the `return` they need: their caller goes on, or the
program runs wild (`RunsWild`), after which nothing is claimed. `Written` writes element by
element, so that a target that is read meanwhile shows.

**Lxi.** `host[a]` is who is at an address. An answer is a sequence of pieces with
the query it belongs to, which the code does not see. `Scan` and the `Scan*`
actions are the search, which goes through the same connect and message as a program.

**SerialPort.** `tty[d]` is what the driver keeps; `Connect` and the setters change
the flags the code changes, and `OthersUse` any of them while the port is closed.
`fresh` holds from `Connect` until parity is set again.

**Pexec.** `table[p][fd]` is the descriptor table of each process. One action per
system call that may fail: `Pipe`, `PipeFails`, `Fork`, `ForkFails`, then `Close` for
the ends the parent gives up. The child goes through `SetUp`, `Exec` or `ExecFails`,
and reads to the end of its input, which comes when no process holds the
other end. `Fail` is the macro, which takes descriptor 0 for none.

**StrAux, StrAuxCalls.** Each helper is a loop over a string: a step (`FloatStep`,
`SplitStep`, `CleanStep`, ...) says what one more character makes of what was kept so
far, and `After` repeats it from the first place to the last. `FloatStep` is the automaton
of `strIsFloat` with its state numbers. `StrAuxCalls` lets a text grow by one character at a time and compares
every helper with a definition by quantifiers; it also writes a time and reads it
back, again and again. What the helpers do against their own header is no part of the
properties: texts whose mantissa is a point alone, unescaping of texts with
characters that need no escape, and time stamps below ten hours and above a hundred
are exempt.

**FixedPoint.** One number goes through operations with operands of several scales.
`last` keeps what was done, and `Exact` is the fraction it should have given.
A comparison is the set of results it may return, empty where it recurses for ever.
That `<=` is `<` (205) is an exception to the property: for equal numbers nothing is
said of it.

**ArgTool.** One action per way an argument is taken (`TakeEnd`, `TakeFlag`,
`TakeParameter`, `PassOver`) or refused; the variables hold positions in the line. **Controllers.** One step per call, reset or new start. `falls` counts
the enabled steps since the error was not negative.

**MppSearch.** Three alternatives of the loop's body and its end. The powers `P` move
with the currents `I`, place by place (`Keep`), and only those in between are
computed again. The generator is a function from current to power, given at the
start.

### Abstractions

- The CRC is ideal: it holds for whole frames and for nothing else. Collisions are
  out of scope.
- In the TCP stream, a byte that is not the first of a frame is taken not to be
  0xBE. A data byte equal to 0xBE would make the code misread a frame; the model
  does not follow it there.
- Time is abstract. "1.7 ms of silence" is that nothing is waiting to be read and
  that no slave is inside a frame, unless `Gaps`. The deadline may pass at any
  time if `Late`, else only when nothing more can come.
- What the surroundings may do is in the constants `Late`, `Gaps`, `IoErrors`,
  `MaxNoise`, `PeerFails`, `Aliens`. With all of them on, nothing is excluded but
  forged frames: devices follow the protocol. `ModbusFrontEnd`, on the contrary,
  assumes nothing of the answer.
- Descriptors are not numbered, so the special case of descriptor 0 at
  `modbus_serial.cpp:32` does not show. A connection attempt is one step with
  three outcomes. Buses outlive their handles.
- An answer of the supply is one character, different for each command that asks;
  names and values are not told apart further. The run has commands of three
  characters, the theorems are about any of three or more. `getName` ("*idn?") is left out: it
  asks again what `open` asks with "*rst;*idn?", and its text is the end of that
  one. XON, XOFF and carriage returns, which are dropped,
  never come. The port is read without errors.
- The mode of a run is chosen at the start and stands for the switches that make
  it up. The simulation and the choice of trackers are one step that may fail.
  Sensors and the process-id file (not part of the repository) return. The timer
  and the time of day are exact: alarm `n` comes at `Epoch + n * Period`, and what
  is true of `Epoch` is only that no run lasts as long as 1970 is ago.
- A write that moves a vector is any `push_back`: the pointer is then `Moved`, or
  still good, as the capacity was. Strings of the INI loader are short sequences of
  the characters its text treats specially and one that it does not.
- Elements of matrices are integers modulo 3, a field in which inverses are exact,
  where a double rounds. What comes after memory was shared or overrun is not
  followed.
- `lxiMessageWithTimeout` declares its buffer inside the loop, so that the pieces
  before the last are no longer the buffer's by the language (`lxi.cpp:121`); builds
  keep it where it was, and the model takes them as kept. A peer that closes and an
  answer of 10 kB are left out.
- Of the system calls of `pexec`, those that may fail are `pipe`, `fork` and
  `execvp`. A child does nothing but read its input to the end, and may exit before.
- Fixed-point words have `Bits` bits, shifts past them give what the machine gives.
  Currents and controller values are integers. Times are milliseconds; that a
  double is cut below its millisecond is a choice between the two values.
- The three coil operations return -999 and do nothing; they are left out.

## 3. Runs

| Run | Question | Answer |
|---|---|---|
| `buses_reliable` | on lines that keep their times, with every target and a server that behaves: does each call return, with the answer to its request once that was heard, and does the serial bus keep the exact promise? | yes, noise and broadcasts included |
| `rtu_faulty` | with late, broken, garbled answers and failing system calls, who may answer, and does every call return? | only the addressed slave; a read gets an answer of its shape; every call returns |
| `buses_late` | when answers are late: can those of the serial bus overtake each other or be used twice; does the TCP bus, with closed and refused connections, reconnection and alien answers, take its own answer or none? | no; yes: a lag lasts until a new connection, and the promise is kept exactly |
| `kepco` | does `open` find out if the supply echoes, can an answer be taken for another, is a closed supply off, does every operation end? | yes; no, where nothing is late or the supply echoes; yes, where nothing is late and the supply hears; yes, unless a signal comes |
| `mppt` | whatever fails and whenever signals come, are the supplies told to go off by the end, closed undisturbed and never shared; does the run end? | yes, unless killed before its handlers are set; it ends unless a signal disturbs an exchange |
| `objects` | do handles count their bus, is the INI loader a dictionary that reads back what it saved, do clean-ups keep their order, has each block of a matrix one owner, and each assignment the value its expression had? | yes; the loader until a key is set in a group that is not selected, but for a `clear` and for keys with an equals sign; a block unless a matrix is copied or an inverse throws |
| `conversations` | can a read hand over anything but its answer; is an instrument's answer that of its query; does a port follow its settings; are children wired, is a failed call without trace, do children end? | no, whatever bytes come; yes, until a query is given up; yes, but for a stop bit; yes, where the program has its standard streams |
| `algorithms` | do the helpers agree with reference definitions, can a command line be read back, do integrators come back, does the search keep the maximum? | yes, with the exceptions section 5 names |
| `rtu_late` | is an answer on a late line the call's own? | **no** |
| `tcp_resync` | does a call that starts inside a frame return? | **no** |
| `mppt_duration` | does a run that no signal ends last as long as `-t` asks? | **no**, it ends at its first alarm |
| `objects_clear` | is a loader empty after `clear`? | **no** |

Each passing property is also run against a mutant of a definition, a plausible
bug such as a dropped comparison or a buffer not reset, which must break it.
The mutants stand next to the definitions they replace.

`CHECK_DEADLOCK FALSE` where the system may stop: when the bounds on calls are
used up nothing need happen.

### Bounds, and why they are enough

- `MaxCalls` 2 or 3. Two calls let an answer be late for the first and taken by
  the second; three let a lag be passed on, two stale answers wait at once, and
  the order of three be violated.
- `bus` of `MCBuses` is chosen at the start, so that one run asks the same of both.
- `MaxConns` 1 or 2: a second connection is what can inherit something.
- `MaxLen` 9 on the serial line, less than two answers of 7, 8 or 9 bytes, so that
  piled-up answers overflow the buffer (258 in the code: two reads of 123
  registers do the same); 16 or 22 on TCP, so that two short answers fit
  whole, or do not.
- `SplitAt` {4}, {1, 7}, {8}: a frame breaks where the code's thresholds are (more
  than three bytes; fewer than, exactly, and more than the seven of the header).
- `MaxNoise` 1: one wrong byte ruins one frame, and what matters is what the next
  call makes of the rest.
- `IdMod` 256 as in the code; the runs make fewer calls. After 256 calls on one
  connection a number is used again and a stale answer could pass: `OwnAnswer`
  and the exact promise say so in their hypothesis `IdsSuffice`.
- Supply: seven exchanges. `open` makes three, so there are up to four commands on
  a connection, or a second `open` after a first that failed or was closed. Four are
  what it takes for exchanges that time out in their echo to leave a whole line
  to the next.
- `MaxAlarms` 3: the run ends at its first alarm; a second can still be entered
  before the handlers are removed, and none after it is ever reached. `Durations`
  are two, `Epoch` is no shorter than either.
- `objects`: three handles on two buses, so that one is copied while two others
  hold; groups of up to three keys, with names that need an escape and names that
  do not; five tasks, so that tasks that are called add tasks that add tasks; two
  matrices, square or not, three operations and expressions up to
  three deep with the target on either side, and four blocks, the two matrices and
  what an assignment adds. Two operations leave a matrix in another shape than it
  started with, and the third finds it so.
- `conversations`: three addresses, two descriptors and two queries, so that
  descriptors run out in a search and one answer is late for the next; two
  children, so that the second inherits the pipes of the first, and nine
  descriptors, with or without standard input.
- `algorithms`: seventeen currents, for two or more iterations of the search; every
  curve of nine points with one maximum, with the powers that tell orders apart and
  the middles between them, and slopes to and from every current; texts of up to six characters from four alphabets, times around
  each carry; words of four bits with scales 0 to 2, on which every pair of operands
  is tried and shifts reach the width; command lines of up to four arguments for
  three tables; three kinds of controllers with errors from -2 to 2.
- Answer lengths are the real ones; targets include a broadcast and 257, whose
  address byte is that of slave 1.

### Fairness

`WF(Loop)`: the thread that called `transaction` goes on running, and its `select`
has a time limit. `WF(Slave(n))`, `WF(Server(n))`: a device that took up a request
goes on with it; it is used by `HeardIsAnswered` only under the constants that say
that devices answer in time, and by nothing the application does. `WF(Running)` in
`KepcoExchange`: an operation that has begun goes on, its bytes come or its time
passes; nothing obliges a signal to come. In `MpptProgram`, main and the
handler go on (`WF(MainStep)`, `WF(HandlerStep)`) as long as no exchange was
disturbed, for a disturbed one may wait for ever; and `WF(Alarm)`: the timer expires
again and again and the kernel delivers its signal. In `Pexec`, `WF(Call)`: a call that began goes on, for `pipe`, `fork`
and `close` do not wait; `WF(ChildRuns(c))`: a child runs, and one that waits for
its input goes on when the end of it is there. Nothing obliges the program to close
its ends. No fairness is
assumed for the application, for connections, for noise, or for `SearchWraps`,
which only some builds take.

## 4. Proofs

TLAPS checks these for every value of the constants that their assumptions allow.

| Module | Theorem | Says |
|---|---|---|
| `ModbusLemmas` | `ReadMatchesShape` | a read that returns 0 got the normal answer to a read of as many registers |
| | `OverflowCheckIsDead` | no request is refused for overflowing the address space |
| `ModbusRtuProof` | `TypeInvariant`, `AcceptedAnswerIsFromTarget`, `SuccessfulReadHasItsShape`, `AnswersKeepTheirOrder` | `[]TypeOK`, `[]AnswerFromTarget`, `[]ReadOfThatShape`, `[]AnswersInOrder` |
| | `ReliableLineAnswersOwn` | `Reliable => (Spec => []OwnAnswer)` |
| | `RtuKeepsPromise` | the refinement `Spec => KeepsPromise` |
| `ModbusTcpProof` | `TypeInvariant`, `AnswersAreOwn`, `FreshLinkHasNoLag`, `LagGoesOn` | `[]TypeOK`, `[]OwnAnswer`, `[]FreshLinkNoLag`, `[]LagPersists` |
| | `TcpKeepsPromise` | the refinement `IdsSuffice => (Spec => KeepsPromise)` |
| `KepcoProof` | `TypeInvariant`, `HandshakeKnowsEcho`, `ClosedSupplyIsOff`, `AnswersOwn` | `[]TypeOK`, `HandshakeIsRight`, `[]ClosedIsOff`, `[]OwnAnswer` |
| `MpptProgramProof` | `TypeInvariant`, `SuppliesToldOff`, `UndisturbedClose`, `OverloadIsDead`, `OneUser` | `[]TypeOK`, `[]OffAtTheEnd`, `[]CloseUndisturbed`, `[]NoOverload`, `[]OneAtATime` |
| `ConversationsProof` | `RegistersComeFromTheAnswer`, `AnswersOfInstruments`, `OpenPortFollowsSettings`, `ChildrenAreWired`, `FailedCallLeavesNothing` | `[]ReadsTheAnswer`, `[]AnswersAreRight`, `[]LineFollowsSettings`, `[]StreamsAreWired`, `FailureLeavesNothing` |
| `ObjectsProof` | `TypeInvariant`, `CountIsOfHolders` | `[]TypeOK` of the handles, `Start = {0} => (Spec => []CountsHolders)` |
| | `TasksKeepTheirOrder` | `ObjectsSpec => []LastInFirstOut` |
| | `LoaderIsAStore`, `WhatIsSavedComesBack` | the refinement `ObjectsSpec => IsAStore`, `[]SavedComesBack` |
| | `BlocksHaveOneOwner` | `[]OneOwner` |
| `AlgorithmsProof` | `Bracketed`, `IntegratorsComeBack`, `AcceptedIsRead`, `ResultsAreTheExactOnes`, `TextsAreReadBack` | `[]PeakIsBracketed`, `[]NoWindUp`, `[]CommandLineIsRead`, `[]NumbersAreExact`, `[]TextsComeBack` |

*Front end.* `ReadsTheAnswer` speaks of the end of a call. The invariant adds what
must hold before: no data is handed over early, the count is at most 123 past the
checks, and the second byte is the answer's own whenever the answer has more than
one byte. The length check then closes the gap a short answer would leave.

*Serial bus.* That an accepted answer is from its target needs to know where
collected bytes come from. `Provenance` says that every byte in the kernel and in
the buffer belongs to an answer that was given; `Unmade` that calls not yet made
have none. A whole frame is therefore an answer given to some call made before,
and the address comparison does the rest. `ReadMatchesShape` then gives the shape:
the answer to a write has five bytes, an odd number, and a read expects an even
one. The steps of the system are sorted into five kinds (`Kinds`) so that each
part of the invariant is argued per kind and not per action.

That answers are taken in their order rests on the slave and on the CRC. A slave
serves in order (`InTurn`), so when it answers a call it is done with those
before. An answer that is taken is a whole frame: its last byte was sent and read
(`Consumed`), and whatever came before it was dropped with it. What is still to be
read is therefore of answers later than all that were taken (`Ahead`), and the next
frame that is whole is one of those. On a line that keeps its times more is true:
when a call returns, nothing of it is left in the kernel, on the line or with a
slave (`Quiet`), so that the answer of a call can only be its own. With both, the
bus implements the abstract transport, exactly where the line is reliable.

*TCP bus.* Here numbers identify answers. `Numbers` relates them: each call was
sent on a connection made by then, what a server heard has a number of at least
one, on the open connection no number exceeds the current one, and the pending
call alone has it. `Provenance` says that on the open connection every byte
belongs to a call sent on that connection. If the number of a complete answer
equals the current one modulo `IdMod`, and there are at most `IdMod` calls, the
numbers are equal, hence the calls. For the refinement the same invariant maps
`CallSent` to `Ask`, `Serve` to `DeviceAnswers`, `Accept` to `Return`, a failed
call to `Fail` or to an `Ask` that does not wait, and the rest to stuttering.

A lag is a matter of how many bytes are where. `Behind` says of every byte a call
can still look at that all that was sent later is behind it. A call that drew an
older answer consumed at most that one, so at least as many bytes as were sent of
its own are left (`LeftBehind`), and the next call has them in front of its own
answer (`DrawsOlder`), which it can then not reach: it draws an older answer too,
or gets stuck.

*Handles.* The holders of a bus during an assignment exclude its target. Every
action makes one handle a holder of one bus (`Gains`) or stops it being one
(`Loses`); the lemmas `GainCounts` and `LossCounts` do the arithmetic, with the
holders fewer than the values of an unsigned, so that nothing wraps.

*Clean-up stack.* `InOrder` adds to the property how the stack is filled: tasks are
in the order they were added, below one that is called are all that the program
added before it, and what it adds while it is called is above it.

*INI loader.* The refinement maps the vector to the dictionary that `getKey` finds.
The lemmas before it say what that dictionary is when a record is put at the end
of a sequence of different names (`MapOfLonger`), and when one is changed
(`MapOfChanged`), once for keys and once for groups. The invariant `LoadsOf` says
that names of groups differ, that the selected group is the one the pointer points
to, if it points to one, and that no key is twice in its group until one went
astray. Each call then changes the dictionary as the store says, or sets `astray`, or is a
`clear` of a loader that holds something, which the store would empty.
No assumption is made about calls, files or the loaders it is patched with, but that
names and values are strings.

*Saved files.* What the passes over a text compute is defined by recursion over its
places. The solvers have no induction, so a recursive function is shown to exist
once (`RecursionExists`) and to be the only one (`RecursionIsUnique`), each time by
the least place where it would go wrong; `EscapeMore` and `ReadingMore` then say what
one more character adds. Reading what was written of a prefix gives the prefix and
leaves no backslash pending (`EscapedIsRead`), so that a text in brackets or quotes comes
back, its marks around it or not. Escaping writes an equals sign for nothing else
(`SignIsKept`), hence in a line of a key without one the first is the separator, and
what stands before and after it is found from either end (`KeyIsParsed`). `IniTexts`
adds to `Loads` that all that is in the loader, or will be put there by the file
that is being read, is text.

*Matrices.* `Owned` is the property with the sizes it needs: no block is shared, there
are no others, and each has the rows and columns its matrix has, at least one.
A block that is new is none of these, for there are more blocks than matrices
(`NewBlockIsFree`). What is written changes elements and leaves shapes alone, however
an element is computed (`WrittenKeepsShapes`), and so does an elimination
(`EliminationKeepsSquares`); that the sizes of an expression are positive follows from
its operands coming before it (`SizesArePositive`).

*Instruments.* While no query was given up, what is on its way or in the buffer is
the answer to the query that waits (`Waits`); a search has missed each host it
passed that it should have found (`Passed`), and the search that goes past the last
address, which never ends, claims nothing.

*Serial port.* Open, what the driver keeps of the device is its flags and the speed
that was set (`LineInv`); the rest is which flags each setting changes.

*Children.* `CallTable` says what the table of the program is during a call: what it
was before, but for the ends of the pipes that the call made, at descriptors that
were free. A failure gives back just those. A child on its way to run (`InSetUp`)
has the pipes it has still to copy on descriptors above 2 and apart from each
other, and those it copied on the standard ones, so that no copy overwrites a pipe
that is still needed.

*Power supply.* That the hand-shake is right takes little: a supply that does not
echo never sends a prompt (`NoPrompts`), so a driver that believes in an echo has
seen one; and to a driver that does not, a supply that echoes says the command
before its name, so that the name is not the first byte of what is read
(`NameComesLater`) and what is read is not the name alone.

Where nothing is late the invariant says which bytes are on their way in every
phase (`Punctual`). Between exchanges there are none (`Silent`) but the prompt with
which the supply answered the new line of `open` (`Woken`). In an exchange the
characters are `Stream`: the line, what is due, the prompt, of which the driver has
read `ReadSoFar` and the supply has said `Owed`, two bytes ahead of the echo until
the line is sent (`Flowing`), and what is left is exactly the difference while the
supply hears. What was read of the answer is the beginning of what is due
(`Answering`). An exchange can therefore time out, or fail in its echo, only with a
supply that fell silent, and leaves nothing behind. `TurnedOff` adds that a line
that resets was heard before its exchange ends.

Where bytes are late, any number of lines, echoes and answers may be on their way.
What still holds with a supply that echoes is that before an answer, as far as the
bytes reach back, is the line of the command that asks for it (`Announced`), and
that the line it is hearing ends as what is on its way does (`EndAlike`). This is
said of the wire together with the echo that the driver has compared already
(`Seen`), so that an answer that is read right after an echo is announced by that
echo. Since no command ends as one that asks does, it is the answer to the command
that was compared.

*Test program.* None of the properties is inductive: each speaks of one place and
depends on how main got there. `Stacked` says for every place what is on the stack
and which modes come there, `Disposed` how signals are handled (once the timer is
set none by default, once `remove_signal_handlers` is off the stack none at all),
`Handling` where main may be while the handler runs and what the semaphore then
holds, `Closed` that an output which is on is that of a supply that is still ready,
and what the exits have closed. Together with the types they are inductive, and each
property follows from one or two of them. An output that the program switched on and
that is on at the end was left on by a `close` that was not heard: the theorem says
that each was told, and `ClosedSupplyIsOff` that a supply which hears obeys.

*Search.* That the maximum stays inside needs to know that the kept power is that
of the kept current, and where the halves fall. `Ordered` says the former, that the
three currents that count are in order, and that the second is in the middle but
for a rounded half; `IterationIs` says what an iteration computes, and
`KeepKeeps` that the powers stay in step with the currents that are kept. `Slopes` says on which side of two currents a maximum cannot be.
Each branch then drops the side where it cannot be. While the interval is longer
than `eMax`, at least three units, the quarters differ from the middle
(`Quarters`); with a closer `eMax` the search would stand still.

*Command line.* `ReadTo` is the property for a line of which a part has been looked
up; an argument extends that part by one position or by two (`Parsed`). That the
first option that ends the line is where the reading stops needs that such an
option shares its variable with no other.

*Fixed point.* Beside the property `FixedInv` says that the number is a word of a known
scale. Wrapping changes a number by a multiple of the modulus, so a result that is a
word comes out whatever overflowed before (`WrapOf`, `WrapAdds`).
A shift to the right is a division by a power of two, one to the left comes back if
nothing was lost, and a comparison of two scales is one of multiples of a common
unit; of `<=` it is one where the numbers differ. The quotient is cut twice, towards zero and by a shift; each loses less than
a unit, and the first a part of one only.

*Strings.* The loop of a helper is a recursion over the places of its string. It is
shown once that there is a function that follows it (`FollowedTo`), that a longer
text continues a shorter one (`OneMore`, `PrefixIs`), and that what holds of the empty
text and survives one more character holds of every text (`TextsGrow`, by the
first prefix that would be an exception); each helper then has one lemma that says what a
character adds (`FloatGoesOn`, `SplitGoesOn`, ...). The rest are statements about every
text, proved along its growth. For each state of an automaton there is a set of texts that lead
there (`FloatGrows`, `StatesAre`), for the cleaning what is kept and what waits
(`CleanKeeps`), for the escapes a text without a pending backslash
(`MeantIsKept`), for the digits the value so far and how long it is
(`DigitsReadBack`). Of the states of the module only those of a time need an
invariant, `StringsInv`: the time is within the second of the first one, and the text is empty or
what is written of that second with no more milliseconds. Fields of a time
are read back one by one (`HoursAreRead`, `TwoEnd`, `ThreeEnd`), which gives the time
of a stamp (`StampReadBack`) and that it has twelve characters if its hours have two
(`StampIsOne`).

*Controllers.* For the one with feedback, where `Ki * kaw = -1`, so that exactly what
was cut off is taken away (with integers both gains are one unit), the invariant `Returns` bounds the sum of
the integrator and of what is to be taken away, rather than the integrator: the
output that was wanted is out of its limits by what one error adds at most. Of other gains nothing is claimed: with `Ki = 3` and
`kaw = -1` the integrator runs away.

Only model-checked:

- the liveness properties (`CallReturns`, `HeardIsAnswered` and
  `SerialHeardIsAnswered`, `OperationEnds`, `RunEnds`, `ChildrenEnd`): liveness under fairness is out of the prover's reach;
- `AssignmentIsRight` of `Matrix`: that the elimination gives the one inverse is
  linear algebra, with sums over rows and columns, which the libraries have no
  lemmas for.

Assumed: requests are within the types of the arguments, slaves have addresses 1
to 255, no duration is longer than the time since 1970, the search has a
close-enough distance of at least three units of its currents, and for the handles that
there are finitely many, fewer than an unsigned can count, and that `None` is
neither a bus nor a handle. There are more blocks than matrices, these start with an
element at least, and the operands of an expression are matrices or come before it
in their order of construction; names, keys, values and lines are strings. Of the supply: commands have at least three characters,
none of them a new line or an answer, no two are the same, answers differ from each
other, from a new line and from the prompt, and no command ends as one that asks
does, as is true of those in `kepco.h` but `getName`. In `MCConversations`: there is an address, the bounds
are natural numbers, a table has room for the three standard descriptors, and the
empty name is no device. In `MCAlgorithms`: gains are not negative, errors are
bounded on both sides by the largest of them, and the controller with feedback has
its limits in order and starts between them, which its constructor does not
enforce; texts are of characters, none of them the character 0, which ends a C string, times are whole
milliseconds and bases from 2 to 16; words have a bit at least, scales are below their width, and operands are words; no option is in a table twice, and one that ends the line shares its
variable with none that does not.

## 5. What the code does otherwise than it says

With a run that shows it:

- `modbus_serial_rtu.cpp:66`: what the kernel still holds is not flushed before a
  request; a late answer is taken by the next call (`rtu_late`).
- `modbus_tcp.cpp:105`: the search for 0xBE increments `i` instead of `off`. Built
  without optimisation it ends when `i` overflows, with optimisation it was seen
  never to end (`tcp_resync`).
- `mppt.cpp:113`: nothing assigns `startTime`, so the time of the test (672, 678) is
  the time since 1970, and a run ends at its first alarm whatever `-t` says
  (`mppt_duration`).
- `iniloader.cpp:93`: `clear` leaves every group and key where it was, where line 92
  and `iniloader.h:56` promise a "full reinitialization" (`objects_clear`).

Noted while modelling, without a run of its own; the models have them unless said
otherwise, and the properties name them as exceptions:

*Buses, supplies and the test program.*

- `modbus_tcp.cpp:208`: `SO_ERROR` is not read; a refused connection is reported as
  a success and the first write fails (also seen on the loopback).

- `modbus_tcp.cpp:50`: a write to a peer that is gone raises SIGPIPE and ends a program
  that does not handle it. The model is of one that ignores it.
- `modbus_tcp.cpp:58`: `device & 0xFF == 0` is always 0; a broadcast waits for two
  minutes and fails. `ModbusTcp` has it: `CallSent` makes no exception.
- `mppt.cpp:666`: the overload check cannot fire, a signal is held back while its
  handler runs (theorem `OverloadIsDead`).
- `mppt.cpp:647`: `sem_timedwait` takes a time of day and is given 0.1 s after the
  start of 1970; the loop never waits.
- `mppt.cpp:250-594`: SIGINT before its handler is installed leaves the supplies
  on, which is why `OffAtTheEnd` speaks of a kill only after the timer is set. In
  the supply test no handler is ever installed.
- `modbus.cpp:45`: `address+count < address` is never true, both are promoted to
  int. `MBE_ADDRESS_OVERFLOW` is never returned and a range past 65535 is sent to
  the device (theorem `OverflowCheckIsDead`).
- `kepco.h:90`: `close` does not look whether its reset was heard, and closes the port:
  a supply that fails then stays on, with nobody to tell it again. `OffAtTheEnd` says
  "told to go off", `ClosedIsOff` "off", of a supply that hears.
- A supply that does not echo: an answer after its timeout is returned for the next
  command (`kepco.cpp:33`), which is why `OwnAnswer` of `KepcoExchange` speaks of
  supplies that echo or are prompt. A second `open` may take the name for which an
  earlier one gave up, and with it be wrong about the echo.
- A supply that echoes: once an echo fails the driver is two bytes behind and its
  commands go on failing; repeating the same command with further timeouts can
  bring it back into step, with a response that begins with left-over characters
  ("mixed"), which the setters report as an error.
- `serial.cpp:246`: `errno = EINTR` assigns, and `continue` leaves the
  `do ... while (false)`: after a signal the 0.5 s limit is gone. `serial.cpp:258`
  takes -1 from `read` for success.
- An exception with code 0 is returned as 0, success (`modbus.cpp:67`).
- A serial broadcast returns `MBE_TIMED_OUT` (`modbus_serial_rtu.cpp:116`), and so
  does a response that overflows; `MBE_RESPONSE_TOO_LONG` comes only if the read
  that drops it fails. Silence over TCP comes back as `MBE_RECEIVE_FAILED` (88).
- A target above 255 is sent to its low byte and its answer is never accepted.
- `refcount` is not initialised (`modbus.h:58`); assignment releases before it
  locks (143), so the count of a bus in use touches zero.
- `operator bool` of the TCP bus stays true after the peer closed; `reconnect`
  needs the peer's address from the old socket and loses it when it fails.
- `modbus_serial.cpp:32` closes the old port only if its descriptor is above 0
  (descriptors are not numbered in the model).
- `kepco.cpp:7`: `clearError` repeats until a prompt comes, which a supply that does
  not echo never sends. Nothing calls it, and it is not modelled.

*Objects.*

- `iniloader.cpp:245`: `setKey(group, key, value)` puts a new key into the selected
  group, or through a null or dangling pointer, when its own group exists.
- `currentGroup` is not renewed when a group is added by line 238, and a new file
  leaves the old contents in place. `saveOnQuit` never saves, for no file
  name is kept.
- What is saved and loaded gains a layer of quotes each time; keys with an equals
  sign are cut at it.
- `destroyer.h:61`: a task that adds another is called a second time, or has the new
  one removed in its place; one that throws is called again.
- `matrix.cpp:109`: assignment takes width for height, so that a non-square result
  is turned or read outside its operands. Assigning the negation or the inverse
  of another matrix calls itself for ever, and of the matrix itself ends without the
  `return` it needs (125-146). Assigning one matrix to another takes the
  assignment the compiler supplies, which shares the block of memory. Inverting a
  singular matrix throws, with the temporary lost or the matrix half eliminated. `matrix.cpp:65` says `resize` loses the
  elements; it keeps those in common.

*Conversations.*

- `lxi.cpp:150`: a search leaves every descriptor open, whether it matches or not,
  ignores the port it is given, takes "TIMED_OUT" for a name, and never ends for a
  range up to the last address.
- An instrument's answer that comes after its time is read by the next query.
- `serial.cpp:163` and `173`: RTS and DTR are read with TIOCMGET and not written, so
  that `lines` never changes. `Connect` takes away the second stop bit by which
  `prHigh` stands for a parity bit.
- `pexec.cpp:11`: 0 stands for no pipe, so that with descriptor 0 closed a failure
  leaks a pipe whose reading end is descriptor 0. The next child that is given no
  input inherits both ends and never sees the end of what it reads, which is why
  `ChildrenEnd` asks for a standard input.
- A child holds the pipes of those before it: no end of file reaches a child while
  a later one runs and holds its writing end. The last to start ends first.

*Algorithms.*

- `fixed.h:205`: `a <= b` is `b > a`, false for equal numbers, which `NumbersAreExact`
  exempts. Operands of different scales make `>` and `<`
  call each other for ever (180, 199). `fixed.h:109` returns nothing. A negative
  whole number of units read from a double comes out one too large, for 0.5 is added
  and the sum is cut towards zero (38).
- `straux.cpp:285`: the millisecond is cut and not rounded, so that a time may lose
  one whenever it is written and read; it stays within its second.
  `strIsTimestamp` wants two digits for the hour, which are not written below ten
  hours and above a hundred; `TextsComeBack` asks for a stamp in between only
  (`straux.h:51`, `58`). `straux.h:52` shows a point where the code wants a comma.
- `strIsFloat` accepts ".e5", no "valid floating point value" (`straux.h:30`); a mantissa
  that is a point alone is exempt. `strToInt` has no sign, and reads before its table for
  characters above 127; `intToString` of the smallest long reads before `conv`.
  `strUnescape` keeps escaped characters only, against
  `straux.h:68`, so that `EscapedComesBack` speaks of texts in which each character
  needs an escape.
- `stdctl.h:101`: the initial value, documented as the output, is divided by `Ki`.
  Neither constructor nor `reset` applies the limits. With a positive `kaw` the
  feedback of the third controller has the wrong sign and winds up; with a negative one
  it may take away too much and diverge (`Ki = 3`, `kaw = -1`). `NoWindUp` speaks of
  `Ki * kaw = -1`.
- `arg_tool.cpp`: an option without a variable is passed over, and a parameter may
  look like an option.
- `pvgen_mpp_I.cpp`: a generator with several maxima is searched for one of them; an
  `eMax` below what a double can tell apart is never reached.

## 6. Plan

1. Inverses of matrices, from a theory of finite sums.
2. Larger instances where time allows: three children, three queries, words of five
   bits.
