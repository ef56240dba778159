# xy1en1om in TLA+

xy1en1om turns a Red Pitaya board (Xilinx Zynq) into a hash accelerator: an
FPGA image with a SHA-256 engine behind a FIFO and a DMA engine, and a driver
that runs on the board's ARM cores.  The repository also carries RadioBox, a web
application for another FPGA image, with which the driver shares its shape, and
the Red Pitaya ecosystem around both: the web server that loads applications as
shared libraries, and the oscilloscope, whose worker the other applications copy.

This directory holds TLA+ modules for the parts with state and concurrency of
their own, TLC configurations that check them, and proofs that TLAPS checks.
`PROJECT.json` lists runs, mutants, hazards, findings and theorems, and maps
every definition to the lines it stands for.

    tlc -config engine_stream.cfg MCSha256Engine     # one run
    tlc -config bazaar.cfg MCBazaarApp
    tlc -config scope.cfg MCScopeWorker
    tlapm Sha256Engine_proofs.tla                    # the proofs of a module

## Inventory

| Part | State | Operations | Interacts through |
|---|---|---|---|
| SHA-256 engine, `fpga/rtl/sha256_engine.sv` | state machine, loop counter, 64 message words, working variables, chaining value, stretched `dma_in_progress` | load a block, expand, 64 rounds, next block / double hash / finish, trap until reset | `fifo_rd_en/vld/dat`, `fifo_empty`, `start`, `ready`, `valid` |
| Register file, `fpga/rtl/regs.sv` | CTRL, SHA256_CTRL with one-shot bits, DMA registers, push register, hash registers, `sha256_start` | bus write and read, start, latch of the hash, FIFO multiplexer | system bus; all SHA-256 parts |
| DMA engine, `fpga/rtl/dma_engine.sv` | `cmd_running`, command registers, `tready`, FIFO write register | start, transfer, stop at the last word, abort | DataMover (AXI stream), FIFO, `sha256_rdy` |
| Reset cell, `fpga/rtl/red_pitaya_rst_clken.sv` | last enable bit, two-bit counter, reset, clock enable | enable, disable, settle | one instance per clock: 125 MHz and 62.5 MHz |
| Bus bridge, `fpga/rtl/axi_slave.v` | request in hand, acknowledge counter | accept, acknowledge, time out | AXI, system bus |
| Driver, `apps-free/xy1en1om/src` | mapping of the registers, DMA buffer | init (disable, enable, run a test), reset, exit | stores and loads of the registers |
| RadioBox worker, `apps-free/radiobox/src/worker.c` | worker state, its parameter list, copy of the posted one | take, purge, update the FPGA, export, quit | two mutex-protected lists, `g_transport_pktIdx`, registers |
| RadioBox callbacks, `cb_http.c` | none of its own | `rp_set_params`, `rp_get_params`, `rp_app_init`, `rp_app_exit` | called by the web server, see above |
| RadioBox FPGA access, `fpga_rb.c`, `fpga.c` | mapping, static copies of the last settings | enable, calibrate, update, read back, unmap | registers |
| RadioBox lists, `main.c` | arrays of name and value ended by a null name | copy, overlay, filter, quad encoding | worker, callbacks |
| Web server module, `Bazaar/nginx/.../ngx_http_rp_module` | the loaded application (`rp_module_ctx.app`: handle, id, `initialized`), the FPGA image | `start`, `stop`, `apps` (listing), POST = set then get, GET | callbacks of the application; one request at a time |
| Web socket server, `.../ws_server` | the server, its thread, its clients | start, timers and messages that call the application, stop | functions of the application; ends the process |
| Oscilloscope, `apps-free/scope/src` | `rp_main_params`, the worker's copy with its dirty flag, `rp_osc_ctrl`, signals | `rp_set_params`, read of signals, program, arm, poll, publish, long and single acquisition, auto-set | three mutexes; `rp_update_main_params` from the worker back into `rp_set_params` |
| Keccak round, AXI master, API, SCPI server, other applications, tools, OS | | | not modelled, see below |

What is hard here:

* Two clocks and no handshake between them.  Control bits that last 8 ns are
  sampled every 16 ns; a FIFO crosses the clocks with some lag.
* Timing as protocol.  The engine knows the end of a message by an empty FIFO,
  gives up its read enable one word ahead, and is started by a level that is a
  clock late.  The driver relies on the time between its stores.
* A program that can be killed and run again while the hardware goes on.
* Two threads of the web application with four shared variables, three locks
  and one variable without a lock; one list in flight; a state variable
  written by both.
* Libraries that are loaded and closed in a process in which other threads call them,
  with failures at each step of a start, and a process that may end at any point.
* Three copies of the parameters of the oscilloscope, two threads that both run
  `rp_set_params`, locks around its parts only, and waits for a trigger that may never come.

## Plan

In order of importance; 1 to 6 are done, modelled, checked and proved; the others are left.

1. `Sha256Engine` with `HashService` as its abstract specification: every word
   hashed once, in order (safety and refinement proved, liveness checked).
2. `RstClken`, the reset cell (proved), and `Sha256Reset`, which composes
   two instances with the driver, the registers, the DMA engine and a coarse
   accelerator (every property proved).
3. `RadioBoxWorker`, callbacks, worker and FPGA access (every invariant and the action property proved).
4. `AxiSlave`, the bus bridge: acknowledge, time-out, late write data (checked, every invariant proved).
5. `BazaarApp`, the life of an application in the web server (checked, every property proved).
6. `ScopeWorker`, the oscilloscope: parameters, acquisition, auto-set (every invariant proved).
7. `DmaEngine`: the AXI stream with `tlast`, `tready` and the FIFO write
   register as processes of their own, and the DataMover's readiness, which `Sha256Reset` takes for a bound.
8. `ParamLists` (terminators, growth, quad values, frames) as pure operators with
   a reference definition.

## Modules

### Sha256Engine

A step (`Clock`) is one edge of the 62.5 MHz engine clock.  All registers change
together, as non-blocking assignments do: `Clock` is the conjunction of the
feeder, the FIFO, the stretch counter, the start register, the result registers
and one branch of the state machine.  `Reset` is the reset of both halves
with a new job, at any time.

* A word is its position in the message.  `w` holds the words of the block in
  hand, `ha` the words the chaining value covers, `inner` the words of the
  first digest of a double hash.  The arithmetic is thus symbolic: a
  digest is correct if it covers the right words.
* The FIFO is its memory `mem` and the pointers `wr_ptr`, `rd_ptr`; `wr_sync` is the write pointer
  on its way to the reading side, `SyncLag` clocks long.  It holds `Depth` words: of what is offered (`sent`) it takes
  what there is room for (`Write`), the full flag being as late for reads, and the rest is lost.  This is how the generated
  core (`fpga/ip/fifo_32i_32o_512d.xcix`: independent clocks, standard FIFO with a
  read latency of one, two synchroniser stages) behaves, as far as `regs.sv`
  can see it; `Occupancy`, `Write`, `fifo_empty` and `pop` are marked external.
* The feeder is the DMA engine (`DmaIdle`, `DmaTransfer`, `DmaTail`, `DmaDone`)
  or the CPU (`CpuPush`, `CpuElsewhere`).  The FIFO has two write clocks per step
  (`Burst`).  The DMA compares a fill level that is late with `Throttle` and its `tready` is a register: between `MustWrite`
  and `MayWrite` it may still write or not.  `Stalls` says whether the source may pause inside a message; for
  the CPU this is preemption, for the DMA a busy memory bus.

`HashService` is what the accelerator promises: it takes the words of a message and publishes one
digest, of words it has taken, that stays until the job is given up (`Serve`, `Abandon`).  Which
digests may answer a job is its parameter `Answers`.  For the DMA, and for a CPU that pushes a word at every clock, it is
the digest of the whole message and nothing else (`Uncut`).  For a CPU that pauses between two pushes it is what the code can do: an
empty FIFO is the only sign of the end, so the answer covers some whole blocks of those pushed so far (`Cuts`).  The driver's tests
expect more: they have messages of one and of two blocks and print the hash beside that of the whole message.  That is `PortDigest`, which
the code violates (finding 1).  The mapping takes `sent` for the words taken and the
hash registers for what is published.

### RstClken and Sha256Reset

`RstClken` has one action per branch of the cell.  `Sha256Reset` uses two instances
of its `Edge`, one per clock, fed by the same enable signal.  A step (`Tick`) is
an edge of the 125 MHz bus clock; every second one (`phase = 1`) is an edge of the engine
clock, too, and `Init` chooses the phase, so that both are checked.  `todo` is what the
driver still stores, `wait` the least time until the next store; a store may come later
at any time.  `Rerun` starts the program again, after its end or after a kill at any
point; the hardware keeps its state.  The engine is
reduced to `reset`, `ready`, `busy`, `done`, and a hash is the set of the jobs whose
words went into it.  The DataMover, a vendor's core that is reset with the DMA engine (`dma_engine.sv:145`, `201`) and whose
`s_axis_mm2s_cmd_tready_o` is part of the guard of the start (`:287`), is `mover`: the clocks it still needs at most, any number up to
`MoverLag` after its reset.

### RadioBoxWorker

One action per critical section (or per access of `g_transport_pktIdx`, which has no
lock) of the web server's thread (`http`) and of the worker (`worker`).  There is
one web thread: nginx runs with one worker process (`patches/nginx.conf`) and calls the
callbacks synchronously, a POST as set and then get.  Four parameters
stand for 24: the switch, the single-shot request, a routing value, a frequency; two
frames stand for four.  Lists are functions, a missing list is `NoList`.
`posted`, `before`, `calibAsked`, `calibDone` are history variables.  `mapped` says whether the registers are there and `pointer`
whether `g_fpga_rb_reg_mem` is set: `fpga_exit` takes them away in this order (`ExitUnmap`, `ExitClear`; `fpga.c:99-103`), and `Init` has both kinds
of `fpga_init`, since `rp_app_init` ignores that it failed (`cb_http.c:56`).  An access to registers that are not mapped is `Crash`, which
ends the process.  It may happen at the three places where the worker accesses them: in `fpga_rb_enable`, which checks the pointer
at its entry, in `fpga_rb_set_ctrl`, which does not, and in the read back, which checks it at `fpga_rb.c:499` and reads at `548`;
because `rp_app_exit` unmaps (`cb_http.c:106`) before it joins the worker (line 110).

### AxiSlave

A step (`Clock`) is an edge of the bus clock.  It is the conjunction of the master's write
channels (`Writer`) and read channels (`Reader`), the five registered processes of
`axi_slave.v` (`WriteRequest`, `ReadRequest`, `Answers`, `Protection`, `Strobes`), the bus
side of `regs.sv` (`Regs`) and the history variables (`Watch`).  `wr_errorw` and `rd_errorw` are made of the burst lines as they
are (`axi_slave.v:131-132`), not of latched ones: that the master holds them until the answer is an assumption.  The
wires keep the names of the code.  The master is external: it has one write and one read
under way, since the registers are mapped as device memory, and holds an offer until
it was accepted.  How much later than the address the data of a write comes is
`Lags`.  The port "mute" is a module that does not acknowledge: no such module is in this image, but it is
what the acknowledge counter is meant for.

### BazaarApp

One action per step of a command of the web server (`nginx` is the step it is at): `Start`, then
`UnloadServer` and `UnloadLibrary` if an application runs, `LoadImage`, `LoadLibrary`, `InitApp`, `ServeApp`,
each with its failures; `Stop`; `List` with `LookOpen` and `LookClose` twice for each library, as
`is_controller_ok` and `is_registered` do.  There is one worker process of nginx
(`patches/nginx.conf:3`), so that one command runs at a time; a POST comes in two halves (`PostHead`,
`PostBody`) between which other commands may run.  The web socket server is a thread that is or is not in
a call of the application (`WsCall`, `WsReturn`); its `stop` joins it.  The process ends by `TimerExit`
(the thread that `stop` detaches, one second later), `ClientCloses` (`on_close`) or `BodyCrash`
(a body for an application that is gone) or `StrayCrash`, and starts again with nothing loaded, but with the FPGA as it
is, perhaps half written (`Broken`).  `opened` counts what `dlopen` gave out.

`threads` are the applications whose `rp_app_init` succeeded and started threads; `strays` are those whose `rp_app_init` failed halfway and
left a thread, as that of the oscilloscope does when `generate_init` or `pid_init` fails (`apps-free/scope/src/main.c:328-337`).  A stray goes on for
as long as the process lives, or faults in its closed library (`StrayCrash`).  The comment "Here we do not have application
running anymore - load new FPGA" (`rp_bazaar_cmd.c:462`) is the property `ImageUnderNobody`, which strays violate (finding 5);
for started applications and the server it is `ImageUnderNoApp`, which holds.

### ScopeWorker

One action per critical section of the web thread and of the worker.  `SetParams(t)` is
`rp_set_params` in thread `t`, since after auto-set the worker calls it, too; `call[t]` is where the thread is in it.
The worker's loop is `Take...` (with the mutex of `rp_osc_ctrl`), `Started`, `Poll`, `Decimate`,
`Again`, `ShotDone`, `Publish`; auto-set is `ProbeBegin`, `ProbeEnd`, `Search`, and then `Adopt`, `Adopted` and
`SetParams("worker")`.  Of 81 parameters the model keeps `auto_flag`, `single_btn` and, as one *setting*, what an
acquisition depends on: the mode of the trigger, whether the window of time is so long that signals are published in parts, and
whatever else tells two settings apart.  Samples are the settings they were acquired with (`tmp`, `signals.of`),
and a published signal says which setting its axes stand for (`signals.as`).  The FPGA keeps what it was programmed with and whether it is armed;
`signal`, chosen at the start, says whether the input ever triggers it.

Copying `rp_main_params` without its lock in `rp_osc_worker_update_params` is one step here; a copy that is torn by the other thread's
merge in the same instant is not modelled.  Two error paths have no step because they cannot be taken: `osc_fpga_update_params` fails only for values
outside the limits (`worker.c:327-330`), and the default of the switch and a negative `dec_factor` only for such (`main.c:752-754`, `849`),
to which `rp_set_params` clamps what is posted.

## Runs

| Run | Checks | Shows |
|---|---|---|
| `engine_stream` | `TypeOK`, `StreamIntact`, `WholeBlocks`, `NoOverflow`, `ImplementsService`, `SteadyDelivered` | both feeders, one, two and four blocks, pauses anywhere or nowhere, reset at any clock: no word lost in a full FIFO or behind it, doubled, reordered; no short or long block; the abstract service is implemented; a feeder that keeps up gets its digest |
| `engine_port` | `PortDigest` violated | two blocks pushed by a CPU that may pause, see finding 1 |
| `sha_reset` | `TypeOK`, `HalvesOrdered`, `CommandTaken`, `PushLands`, `OwnHash` | three program runs, each killed anywhere or not, any combination of the two tests, a DataMover that is ready at any clock up to 22 after its reset |
| `radiobox` | `TypeOK`, `NothingLost`, `CalibOnce`, `RegistersFollow`, `ReplyOneBehind`, `SetReturns` | three posts, any number of reads, an exit, against the worker, with the registers mapped or not.  `RegistersFollow` speaks of the time up to the beginning of the exit; `ReplyOneBehind` of the values of a reply, not of the index of the frame it is sent as |
| `radiobox_get` | `GetReturns` violated | see finding 2 |
| `radiobox_quit` | `QuitHonoured` violated | see finding 3 |
| `radiobox_route` | `RoutingFollows` violated | see finding 4 |
| `axi_slave` | `TypeOK`, `OwnData`, `AnswerTrue`, `ReadFresh`, `Answered` | reads beside writes, late data, bursts, silent modules: each access done once, with its own data, answered truly and at last |
| `bazaar` | `TypeOK`, `ServerInsideApp`, `ThreadsInsideApp`, `HandlesHeld`, `LoadedIsReady`, `ImageUnderNoApp` | three kinds of applications started, listed, stopped and posted to, with failures at each step, threads that a failed `rp_app_init` leaves, and ends of the process: no started application and no server runs in a closed library or under a change of the image, no handle is lost, what is loaded is ready |
| `bazaar_halfway` | `ImageUnderNobody` violated | see finding 5 |
| `scope` | `TypeOK`, `ParamsAgree`, `AcquiredAsProgrammed`, `ParamsTaken`, `AutoSetEnds` | two posts of any settings, reads and an exit, against the worker: copies agree (in the setting: `ParamsAgree` does not compare the buttons), pictures are labelled as they were taken, posts are seen in every wait, auto-set ends |
| `scope_single` | `ShotsAskedFor` violated | see finding 6 |

The `radiobox` runs switch the deadlock check off: the program really ends, by
`rp_app_exit` or by a crash.  So do the `scope` runs: `rp_app_exit` is the end of the application, and
a bounded number of posts may be followed by nothing but a wait for a trigger.

### Bounds, and why they are enough

* Engine: block size 16, 64 rounds and the stretch of 7 are the hardware's.  Messages have one, two and
  four blocks: the first, a middle one and the last differ, and nothing in
  the engine counts blocks.  Two jobs (`MaxJobs`) show that nothing survives a reset.
  The FIFO holds 34 words instead of 512 and the DMA pauses at 8 instead of 480, so that four blocks make it pause, and
  would overflow the FIFO if it did not.  A job is of either kind, with pauses at every clock or with none; the real driver, which stores
  every 27 bus clocks, is one that pauses.  `engine_port` has the two blocks of the driver's test and one job.
* Reset: 27 bus clocks between stores are the driver's own measurement (16 stores in
  3.5 us, `test_sha256_fifo.c:90`), 125 are the microsecond of `usleep(1)`; real
  gaps are longer and are allowed.  `CommandTaken` holds from 12 clocks
  between stores on and fails at 11, if the DataMover is ready
  by then: `MoverLag` is 22, five less than the gap, and `CommandTaken` fails at 23.  How long the vendor's core needs is
  not in the repository, so this is an assumption and the run its limit.  `PushLands` holds from a `usleep(1)` of 10 clocks on and fails at 9.  Two runs of the program
  would do, as a run disables everything at its start; there are three.  Two pushes stand for 16 to 32.
* Bus bridge: the time-out is 8 clocks instead of 32, and the latest data comes 4 clocks before
  it.  That is the limit: at 3 clocks before it the acknowledge meets the time-out, and a write
  that was done is answered as failed (`AnswerTrue`).  With 32 clocks the limit is 28,
  also 4 before it.  Two numbers tell a write from the one before it.  An unused port
  acknowledges all the time, so that a write there is answered before late data comes; the run
  offers its data with the address.
* RadioBox: three posts let one meet the first pass, one wait in the queue and one
  meet a finished pass.  Two values per parameter tell old from new; the preset route
  is a third value.
* Web server: three applications, one of each kind the code tells apart: with an image and without web sockets,
  with both, and with web sockets and an empty `fpga.conf`, which runs on the image it finds.  At most
  one is loaded and one looked at, so a fourth adds nothing; the proofs hold for any number.  The run is
  not bounded otherwise.
* Oscilloscope: four settings, one of each kind the worker treats in a way of its own (free, normal, long, idle).
  Two posts: the second may come at any point of what the first has set off, the ten seconds of waiting for
  auto-set included.  With three posts ten million states without a violation of the invariants were seen.  A client posts
  one button at a time (`MC_Posted`).  Two acquisitions in the first loop of auto-set and two time
  ranges in the second stand for 10 and 5: first and last differ, and the loops count nothing else.
  `Lingers` is the set of the worker's steps at which the ten seconds may run out: all of them in `scope`.
  `scope_single` needs none of that: its input triggers and no wait ends early, so that nothing but the code's own order of steps
  is left.

### Fairness

* Engine: the clock runs (`WF_vars(Clock)`), and a feeder that has words writes one
  some time (`WF_vars(FeedClock)`): the DataMover completes a command, and a preempted
  driver runs again.  `SteadyDelivered` asks for a digest of the jobs whose feeder does not pause inside
  the message (`stalls` is FALSE), since at a pause in front of the last word of a
  block the engine hangs for the DMA just as for the CPU.  A run of 16 words at 62.5 MHz is
  what the memory bus delivers in one burst, but the hardware does not promise it.
* Bus bridge: the clock runs (`WF_vars(Clock)`), and the master is ready for an answer
  (`Patient`).  The second matters: an answer lasts one clock, and a master that is not
  ready at that clock never gets it (`axi_slave.v:186`), whatever the comment at lines 47-48 says of
  lockups.  A processor core that waits for a register access is ready.
* RadioBox: the worker thread runs, and a call that the web server has made goes on; both are
  scheduled threads that poll with `usleep`.  Nothing says that the user asks for anything:
  `Asks` has no fairness.
* Oscilloscope: the worker runs, a call of `rp_set_params` goes on (its wait has a limit of ten seconds), and an armed
  trigger fires if the input has a signal or the trigger is immediate.  Nobody need post
  or read.  `ParamsTaken` has no condition on the signal; `AutoSetEnds` has: without one the second loop of
  auto-set waits for ever.
* Web server: none.  All its properties are about safety.

## Findings

1. **What the CPU pushes need not come to its hash** (`engine_port`), in two ways.
   * *A message is cut.*  When the rounds of a block end, an empty FIFO is the end of the message (`sha256_engine.sv:287`); `dma_in_progress` protects
     the DMA only.  `test_sha256_fifo_56x_A` and `test_sha256_fifo_119x_A`, of which the latter is the test that runs, push two blocks and compare with
     the hash of both (`test_sha256_fifo.c:301`, `376`).  A process that is preempted between two pushes reads the hash of the first block.  This is the run's trace.
   * *The engine hangs.*  `sha256_engine.sv:234` drops the read enable when
     word 14 arrives, counting on word 15 leaving the FIFO at that edge.  If it is not there
     yet, it is never read, and the test's loop does not end.  Messages of one block suffice: with `MsgLens = {16}` this is the trace.
2. **A read can wait for ever** (`radiobox_get`): `cb_http.c:153` raises the busy flag after the
   list was queued; the worker may be done with it by then.
3. **A quit can be lost** (`radiobox_quit`): `worker.c:200` and `268` overwrite the state.
4. **Routing can be stale** (`radiobox_route`): the cache of `fpga_rb_set_ctrl` survives an enable,
   which presets the register.
5. **A failed start leaves a thread at work** (`bazaar_halfway`).  When `rp_app_init` fails, `exit_func` is not called, since `initialized` is not set
   (`rp_bazaar_cmd.c:501-507`, `rp_bazaar_app.c:605-607`).  The oscilloscope may fail with its worker running (`main.c:328-337`).
   The worker goes on in a library that is closed, and unless that ends the process first, the next start writes its image under it,
   where the comment says that no application is running (`rp_bazaar_cmd.c:462`).
6. **A single acquisition comes back** (`scope_single`).  `rp_set_params` copies the parameters to the worker while
   `single_btn` is set and clears it afterwards, in its own copy only (`main.c:831` and `854`).  A later
   auto-set returns the worker's copy, and with it the request: the oscilloscope takes one picture
   in the settings that auto-set has found, and stops.

More observations, not claimed as findings:

* The `RESET` bit alone may miss the engine.  It lasts one 8 ns clock of the bus, and the reset cell on the 16 ns engine clock (`regs.sv:386-399`) samples it in
  one of two phases, whatever `fpga_xy.c:161` and `fpga_xy.h:348` say of a reset.  The driver works because it disables and enables
  the part at its start: without that (`DisableNone`) `OwnHash` fails in `sha_reset`.
* The microsecond of `usleep(1)` after the reset is not needed if stores are as slow as measured: the gap of 27 clocks alone is enough for
  `PushLands`.  What the property needs is a gap of 10 clocks, of whatever origin.
* An exit of RadioBox that meets the worker in a pass may leave the radio on, or crash it: the registers are disabled, then unmapped,
  and then the worker is joined (`cb_http.c:106-110`, `fpga.c:85-103`).  Nothing in the repository says what an exit leaves.
* The stretch of `dma_in_progress` by 7 clocks is not what makes `ImplementsService` hold: for messages of
  whole blocks it is enough that less than a block is in the synchroniser when the FIFO looks empty, which with a lag of 2 clocks it always is.
  `StretchCovers` says how lag, stretch and burst play together.
* `rp_websocket_server::stop` ends the whole process a second later.  As `apps` stops the server, a listing
  ends an application with web sockets, and a start right after it is lost as well.
* The worker of the oscilloscope stores idle after a single acquisition without another look at the state (`worker.c:549`), and so
  loses a request to quit, as RadioBox does.

## Proofs

For all values of the constants that satisfy the named assumptions (`EngineConstants`: block size of
at least 3, more rounds than words, messages of whole blocks, positive lag, and
`Throttle + 2 * Burst + SyncLag <= Depth`: 480 + 4 + 2 and 512 in the hardware).

`Sha256Engine_proofs`: `TypeCorrect`, `StreamPreserved`, `BlocksWhole`, `FifoKeepsAll`, `HandshakeKept` and `Refinement`.
Neither `StreamIntact` nor `WholeBlocks` is inductive.  That a word is not lost depends on whether the
state machine is in a state that takes it when it comes out of the FIFO, one clock after the
enable.  So the invariant is `IInv`, the conjunction of

* `TypeOK`;
* `Handshake`: while waiting, `rd_vld` implies `start` and `rd_en` implies `ready`; while loading, the read enable is on
  exactly while `loop` is below the last index; in the other states there is neither a read nor a
  valid word; what is on the output is the last word popped;
* `Blocks`: how many words `w` holds in each state, in terms of `loop`;
* `InOrder`: the pointers through the synchroniser, from what was read to what was written;
* `NoOverflow`, `StreamIntact` and `WholeBlocks`.

Each conjunct has a lemma for a step (`NextTyped`, `NextHandshake`, `NextBlocks`, `NextStream`,
`NextWhole`) with a case per action; `InitIInv`, `NextIInv` and `Invariance` put them together.  `ChainStep` and the
lemmas on `Positions` carry the sequence arithmetic.

The second half of the module is `Refinement`, `Spec => ImplementsService`, under `StretchCovers`:
`(SyncLag - Stretch - 1) * Burst < BlockWords - 1`.  The hardware is far from that bound (2, 7, 2 and 16), and it
would still be with no stretch at all.  It is the right bound: with blocks of 4 words, no stretch and one word at a clock a lag of 3 satisfies the
service, and for a lag of 4 TLC finds a digest of a part of the message.  `FairSpec`, which the run uses, adds fairness only.  `ServiceInv` adds to `IInv`

* `Feeding`: `dma_in_progress` covers `cmd_running` from the first word on; when `cmd_running` is dropped all words but one were written;
  and how far behind the pointer is in each stage of the synchroniser, for as long as the stretch counts;
* `Ahead`: a CPU that pushes at every clock is a word ahead in each stage of the synchroniser, so that the FIFO is not empty after the rounds;
* `Passes`: which of the two hashes is being computed; if `Uncut`, the first one covers the message, and nothing is left for the second;
* `Answered`: `valid` is on in the last state only, what is then in `hash_o` is an answer, and it is latched once.

`AllFed` is the heart: an empty FIFO after a whole block with `dma_in_progress` off means that all was read.  `AtEnd` and `Split` say which
words the two digests cover, `FinishAnswers` that they make an answer, and `StepServes` maps each step to one of the service.

`RstClken_proofs`: `TypeCorrect`, `ResetOrdered`, and the action property `ReleaseSettled`: the reset is released
only by `Settle`, with the enable bit on and the clock running.  The invariant is `TypeOK /\ Ordered`.

`BazaarApp_proofs`: all six properties of the run `bazaar`, for any sets of applications, with and without web sockets and
images (`AppConstants`), and whatever a failed `rp_app_init` leaves behind.
The invariant adds two parts to what is checked:

* `Ready`: `LoadedIsReady` also while applications are listed;
* `Course`: what each step of a start may rely on.  From the image on nothing of an application is left; from `init` on the
  handle and the id are those of the wanted application, and its image is in the FPGA; from
  `serve` on it is initialised.  And `threads` are those of the initialised application.

`InitHolds` and `StepHolds` establish it, the second with a case per action; `NothingTyped` is the typing of the empty process.
`ImageReplacedUnderNoApp` is an action property that follows from `Course` at the two steps that write the FPGA.

`AxiSlave_proofs`: all four invariants of the run `axi_slave`, for any time-out, ports, numbers and lags.  The theorems assume
`Timely`: the master is ready for the answer it waits for, and the data of a write comes with its address for an unused port and
at least four clocks before the time-out for any other.  Without it they are false, and the two hazards at `axi_slave.v:186` and `top.sv:666` say how.
A write is passed on by a strobe one clock after its data is taken, and the acknowledge arrives two clocks later, so
`AnswerTrue` needs to know that the counter cannot run out in between.  The invariant adds

* `WriteCourse`, `ReadCourse`: an access is at one place, offered, at the bridge, or answered; and what `regs.sv` has ready for a read;
* `DataCourse`: the data is taken once, before the answer, and `stored` says so;
* `InTime`: how many clocks are left at each of these places, from which the acknowledge is the module's own;
* `OnBus`: the strobes and the acknowledge belong to the access at the bridge;
* `Counter`: the bridge answers itself before its six bits overflow.

There is a lemma per part for a step, and `Later` for the arithmetic of the clocks.

`Sha256Reset_proofs`: `TypeOK`, `HalvesOrdered` and `OwnHash`, for any `StoreGap` and `SleepGap`, modes and number of runs (`ResetConstants`).
The two halves are instances of the cell, and so are their proofs: `BusCell` and `ShaCell` are instances of `RstClken_proofs`, whose
`NextIInv` covers an edge of either clock (`NextBusHalf`, `NextShaHalf`).  What is to be shown here is that the signals fed to the cells are
inputs in its sense, for which `PoweringUp` says that nothing is enabled before the fabric leaves its reset, and that nothing is lost at the bus edges
without an engine edge.  `OwnHash` rests on `OwnInv`, which adds

* `Program`: what is left to store is the end of `Begin(mode)`, so that the stores made (`Stored`) tell which one is next;
* `Drained`: between the first store, which takes the enable bit away, and the fifth, which gives it back, there are at least four edges of the
  bus clock, two of the engine clock among them; one after the other they reset both halves (`EdgeResets`), stop the DMA engine, empty
  the FIFO and clear the hash.  After that whatever is fetched, waits or was hashed is of the run's own job.

No time between stores is needed for this.  `CommandTaken` and `PushLands` do need it, and are proved under `Timely`: stores are at least
12 bus clocks apart, `usleep(1)` lasts at least 10 (measured: 27 and 125), and the DataMover is ready `MoverLag <= StoreGap - 5`
clocks after its reset.  The last is an assumption on the vendor's core, which `CommandTaken` cannot do without.  These are the times the hardware takes: six engine clocks from the
store of `RESET` to a ready engine, five to a FIFO out of reset, two bus clocks each.  With one clock less TLC finds each property violated.  `TimeInv` adds

* `SwitchedOn`, `Pulses`, `Closing`: which control bits the stores made so far have set, and that a bit that lasts one clock is of the last store;
* `Idle`: what the DMA engine and the accelerator do before they are commanded;
* `InTime`: how many edges each half is still away from its release (`BusLeft`, `ShaLeft`), the engine from being ready (`EngineLeft`), and
  that these fit into what is left of the time to the next store.  `LeftIs`, `ReleaseNears` and `ReadyNears` show that every edge brings them nearer.

`RadioBoxWorker_proofs`: all four invariants of the run `radiobox` and its action property `ReplyOneBehind`, for any routes, carriers and
number of posts (`WorkerConstants`); the program may crash or exit at any point.  None of the four is inductive.  `NothingLost`
is about three lists, and whether a step that merges two of them keeps the sum depends on what the third can be.  The invariant adds

* `WorkerLists`: at which steps the worker has a copy, that a list in the hands of a callback is one frame, and that the worker's own
  list holds every name as long as the thread lives;
* `FirstPass`: before the first export the copy is the whole of the worker's list, the defaults that the first pass pushes;
* `Shutdown`: until the exit the pointer is set exactly if the registers are mapped, then they are not, and a request to quit comes after that;
* `CalibCleared`: the single-shot tag never gets into the worker's own list, and leaves the copy where the radio is enabled.  From this
  `CalibOnce` follows, which counts the tags of the other two;
* `RegistersInStep`: the registers follow the old list up to `Enable` and the new one from there on;
* `ExportInStep`: an exported list is the worker's, and is withdrawn before the next pass may change that list; what waits is the last
  post and nothing before it is missing from the worker's list.

Five steps move a list, and each has a lemma of its own (`SetQueueHolds`, `TakeHolds`, `SkipUpdateHolds`, `EnableHolds`,
`ExportHolds`); the others are the cases of `StepHolds`.  `UpdateAt`, `PartAt`, `ClearedAt` say what the operators on lists return.
`RepliesOneBehind` follows from `InfoOneBehind`: the exported list is `posted` or `before`, by `NothingLost` and `ExportInStep`.

`ScopeWorker_proofs`: all three invariants of the run `scope`, for any settings, inputs, number of posts and length of auto-set
(`ScopeConstants`).  The invariant adds

* `WorkerCalls`: the worker is in `rp_set_params` only at the end of auto-set;
* `CopyUnderWay`: where the worker's copy differs from the parameters of the clients, some thread has its copying before it, or
  auto-set is to replace both.  With two threads in `rp_set_params` this is what makes `ParamsAgree` true: the second merge is
  always followed by a copy of its own;
* `StepKept`: only auto-set leaves the FPGA out of step with the worker's parameters.  Whoever leaves `auto_set` or idle for a
  state that acquires has made the parameters dirty first, and if the worker took them since then, it keeps in `todo` what is to be programmed;
* `RunsAsProgrammed`: while it acquires, the FPGA has the worker's setting, and so have the samples that are published next.

Most steps touch one of these parts; the merge, the take of parameters and the end of auto-set touch all.

Every safety property of the passing runs, action properties and the refinement included, is proved.
Model-checked only: the liveness properties `SteadyDelivered`, `SetReturns`, `Answered`, `ParamsTaken` and `AutoSetEnds`, as TLAPS does no liveness under fairness.

## Not modelled

* The arithmetic of SHA-256 and of the gains and oscillators: wide integers without control of their own.
* The STS channel of the DMA engine, debug registers and clock counters: nothing reads them back into control.
* The processors' AXI port, DataMover and FIFO cores: generated, seen through the signals that `fpga/rtl` uses.  Of the
  DataMover that is a bound on when it takes a command, which the run and the proofs assume.
* The memory of the parameter lists: planned.
* In `BazaarApp`: JSON and its parsing, installation and removal of packages, licences, the timers' intervals and
  compression of the web socket server, the contents of the parameters.
* In `ScopeWorker`: units, measurements, conversion of samples, limits of the time window, generator and PID parameters (sent after the
  modelled part, with no shared state), `forcex_state` and `auto_in_progress` (they change what clients are told of the axis), torn copies.
* `patches/rtl8192cu`: the vendored driver of a wireless adapter.  Together with other vendored code it is most of the
  lines of the repository, which is why the share of all lines that is modelled is small.
* The Keccak round, whose registers are commented out; the AXI master and write FIFO, which the accelerator
  does not use; the Red Pitaya API, SCPI server, other applications, tools and OS image.
* In `RadioBoxWorker`: the automatic frequency counters that `fpga_rb_get_fpga_params` reads back
  (`qrg_inc_s` is at its default, for which they are not) and calibration arithmetic.
