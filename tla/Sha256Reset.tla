---------------------------- MODULE Sha256Reset ----------------------------
(***************************************************************************)
(* How the driver (fpga_xy.c and the two tests of apps-free/xy1en1om) gets *)
(* a fresh accelerator for each job.  It stores to the CTRL registers of   *)
(* regs.sv, whose one-shot bits RESET and DMA_START fall back after one    *)
(* clock of the bus (125 MHz).  The reset of the DMA engine is made on the *)
(* clock of the bus, the one of the SHA-256 engine and of the FIFO on the  *)
(* engine clock, which has an edge at every second edge of the bus clock:  *)
(* two instances of RstClken.  A step is one edge of the bus clock.        *)
(*                                                                         *)
(* The engine is coarse (Sha256Engine has its detail): a hash is the set   *)
(* of the jobs whose words went into it.                                   *)
(***************************************************************************)
EXTENDS Naturals, Sequences

CONSTANTS StoreGap,      \* least bus clocks between two stores of the CPU
          SleepGap,      \* the same for usleep(1)
          MoverLag,      \* most bus clocks from the DataMover's reset to ready
          Modes,         \* which of the tests is run: "dma", "port"
          MaxJobs        \* bound on the number of program runs

ASSUME ResetConstants ==
  /\ StoreGap \in Nat /\ SleepGap \in Nat /\ MoverLag \in Nat
  /\ Modes \subseteq {"dma", "port"} /\ MaxJobs \in Nat \ {0}

VARIABLES job, mode,     \* the program run, and which test it runs
          step,          \* "begin" until the hash was read, then "closing"
          todo, wait,    \* stores still to do, clocks until the next
          result,        \* what was read from the hash registers
          rstn,          \* frstn: reset of the FPGA's fabric clocks
          phase,         \* 1: the engine clock has an edge with the next
          x11_enable, sha_ctrl,  \* CTRL, and the bits set in SHA256_CTRL
          push,          \* sha256_port_fifo_wr_en
          bus_last, bus_ctr, bus_reset_n, bus_clk_en,
          sha_last, sha_ctr, sha_reset_n, sha_clk_en,
          cmd_running, cmd_job,  \* DMA engine, and the job it fetches for
          mover,         \* clocks until the DataMover takes a command
          words,         \* jobs with words in the FIFO or in the engine
          engine,        \* "reset", "ready", "busy" or "done" (valid)
          hash_regs      \* hash registers

driverVars == <<job, mode, step, todo, wait, result>>
ctrlVars   == <<x11_enable, sha_ctrl, push>>
busVars    == <<bus_last, bus_ctr, bus_reset_n, bus_clk_en>>
shaVars    == <<sha_last, sha_ctr, sha_reset_n, sha_clk_en>>
dmaVars    == <<cmd_running, cmd_job>>
engVars    == <<engine, hash_regs>>
vars == <<driverVars, rstn, phase, ctrlVars, busVars, shaVars, dmaVars,
          mover, words, engVars>>

----------------------------------------------------------------------------
(* What the driver stores, in order. *)
Ctrl(on)   == [reg |-> "ctrl", bits |-> IF on THEN {"ENABLE"} ELSE {}]
Sha(bits)  == [reg |-> "sha256_ctrl", bits |-> bits]
Other      == [reg |-> "other", bits |-> {}]
Push       == [reg |-> "sha256_data_push", bits |-> {}]

(* mutant: the driver trusts the RESET bit and disables nothing *)
DisableNone == <<>>

Disable   == <<Sha({}), Other, Ctrl(FALSE)>>
Activate  == <<Ctrl(TRUE), Sha({"ENABLE"})>>
ResetShot == <<Sha({"ENABLE", "RESET"})>>

(* The job: words, or the DMA's registers, another reset and the start. *)
Feed(m) ==
  IF m = "port" THEN <<Push, Push>>
  ELSE <<Other, Other, Other, Sha({"ENABLE", "RESET", "DMA_MODE"}),
         Sha({"ENABLE", "DMA_MODE", "DMA_START"})>>

Begin(m) == Disable \o Activate \o ResetShot \o Feed(m)

(* mutant: no pause after the reset *)
DelayNone(s) == 0

(* fpga_xy_reset sleeps after its store. *)
Delay(s) == IF s = ResetShot[1] THEN SleepGap ELSE StoreGap

----------------------------------------------------------------------------
sha_enable == x11_enable /\ "ENABLE" \in sha_ctrl /\ "RESET" \notin sha_ctrl

BusHalf == INSTANCE RstClken WITH
  enable <- sha_enable, enable_last <- bus_last, enable_ctr <- bus_ctr,
  reset_n <- bus_reset_n, clk_en <- bus_clk_en
ShaHalf == INSTANCE RstClken WITH
  enable <- sha_enable, enable_last <- sha_last, enable_ctr <- sha_ctr,
  reset_n <- sha_reset_n, clk_en <- sha_clk_en

(* The FPGA was configured and is in reset; the program starts. *)
Init ==
  /\ job = 1 /\ mode \in Modes /\ step = "begin"
  /\ todo = Begin(mode) /\ wait = 0 /\ result = {}
  /\ rstn = FALSE /\ phase \in 0..1
  /\ x11_enable = FALSE /\ sha_ctrl = {} /\ push = FALSE
  /\ BusHalf!Cleared /\ ShaHalf!Cleared
  /\ cmd_running = FALSE /\ cmd_job = 0 /\ mover = MoverLag
  /\ words = {} /\ engine = "reset" /\ hash_regs = {}

----------------------------------------------------------------------------
(* regs.sv: the write access.  The one-shot bits last for one clock. *)
OneShot == {"RESET", "DMA_START"}

(* mutant: the one-shot bits stay until they are overwritten *)
NoStoreSticky ==
  /\ push' = FALSE
  /\ UNCHANGED <<x11_enable, sha_ctrl>>

NoStore ==
  /\ sha_ctrl' = sha_ctrl \ OneShot
  /\ push' = FALSE
  /\ UNCHANGED x11_enable

StoreTo(s) ==
  /\ x11_enable' = IF s.reg = "ctrl" THEN "ENABLE" \in s.bits ELSE x11_enable
  /\ sha_ctrl' = IF s.reg = "sha256_ctrl" THEN s.bits ELSE sha_ctrl \ OneShot
  /\ push' = (s.reg = "sha256_data_push")

----------------------------------------------------------------------------
(* The driver's program. *)
Store ==
  /\ rstn /\ wait = 0 /\ todo # <<>>
  /\ StoreTo(Head(todo))
  /\ todo' = Tail(todo) /\ wait' = Delay(Head(todo))
  /\ UNCHANGED <<job, mode, step, result>>

(* The hash is read when it is valid; the DMA test gives up some time. *)
ReadHash ==
  /\ step = "begin" /\ todo = <<>> /\ wait = 0
  /\ engine = "done" \/ mode = "dma"
  /\ result' = hash_regs /\ step' = "closing" /\ todo' = Disable
  /\ NoStore
  /\ UNCHANGED <<job, mode, wait>>

(* The program is run again, when it has ended or after it was killed. *)
Rerun ==
  /\ job < MaxJobs
  /\ job' = job + 1 /\ mode' \in Modes /\ step' = "begin"
  /\ todo' = Begin(mode') /\ wait' = StoreGap /\ result' = {}
  /\ NoStore

Elsewhere ==
  /\ wait' = IF wait > 0 THEN wait - 1 ELSE 0
  /\ NoStore
  /\ UNCHANGED <<job, mode, step, todo, result>>

Driver == Store \/ ReadHash \/ Rerun \/ Elsewhere

----------------------------------------------------------------------------
(* dma_engine.sv: the command state machine, on the clock of the bus.  The
   end of the transfer (tlast) may come at any time. *)
DmaReset == ~bus_reset_n /\ cmd_running' = FALSE /\ UNCHANGED cmd_job

Starts ==
  /\ "DMA_START" \in sha_ctrl /\ "DMA_MODE" \in sha_ctrl
  /\ engine = "ready" /\ mover = 0

(* mutant: the command is issued before its registers are taken over *)
DmaStartBlind ==
  /\ bus_reset_n /\ ~cmd_running /\ Starts
  /\ cmd_running' = TRUE /\ UNCHANGED cmd_job

DmaStart ==
  /\ bus_reset_n /\ ~cmd_running /\ Starts
  /\ cmd_running' = TRUE /\ cmd_job' = job

DmaStop ==
  /\ bus_reset_n /\ cmd_running
  /\ "DMA_START" \notin sha_ctrl \/ "DMA_MODE" \notin sha_ctrl
  /\ cmd_running' = FALSE /\ UNCHANGED cmd_job

DmaStay ==
  /\ bus_reset_n
  /\ IF cmd_running THEN "DMA_MODE" \in sha_ctrl ELSE ~Starts
  /\ UNCHANGED dmaVars

DmaClock == DmaReset \/ DmaStart \/ DmaStop \/ DmaStay

(* The DataMover (a vendor core) is reset with the DMA engine, and is ready
   for a command at any clock after that: how many it needs at the most is
   an assumption, MoverLag. *)
MoverClock ==
  \/ ~bus_reset_n /\ mover' = MoverLag
  \/ bus_reset_n /\ mover' = IF mover > 0 THEN mover - 1 ELSE 0
  \/ bus_reset_n /\ mover' = 0

(* Words come from what the mode selects, and the FIFO is emptied as long
   as the reset of the engine's half lasts. *)
Offered == IF "DMA_MODE" \in sha_ctrl
           THEN IF cmd_running THEN {cmd_job} ELSE {}
           ELSE IF push THEN {job} ELSE {}

FifoClock ==
  \/ ~sha_reset_n /\ words' = {}
  \/ sha_reset_n /\ words' = words \cup Offered
  \/ sha_reset_n /\ cmd_running /\ UNCHANGED words

----------------------------------------------------------------------------
(* The engine, on its own clock. *)
EngineReset ==
  /\ ~sha_reset_n
  /\ engine' = "reset" /\ hash_regs' = {}

EngineReady ==
  /\ sha_reset_n /\ engine = "reset"
  /\ engine' = "ready" /\ UNCHANGED hash_regs

EngineBusy ==
  /\ sha_reset_n /\ engine = "ready" /\ words # {}
  /\ engine' = "busy" /\ UNCHANGED hash_regs

EngineDone ==
  /\ sha_reset_n /\ engine = "busy"
  /\ engine' = "done" /\ hash_regs' = words

EngineStay ==
  /\ sha_reset_n /\ engine # "reset"
  /\ UNCHANGED engVars

EngineClock ==
  EngineReset \/ EngineReady \/ EngineBusy \/ EngineDone \/ EngineStay

----------------------------------------------------------------------------
BusEdge == Driver /\ BusHalf!Edge /\ DmaClock /\ MoverClock /\ FifoClock

(* The fabric is in reset for some clocks, while nobody stores. *)
PowerUp == ~rstn /\ rstn' \in BOOLEAN

Tick ==
  /\ BusEdge
  /\ PowerUp \/ (rstn /\ UNCHANGED rstn)
  /\ phase' = 1 - phase
  /\ \/ phase = 1 /\ ShaHalf!Edge /\ EngineClock
     \/ phase = 0 /\ UNCHANGED <<shaVars, engVars>>

Next == Tick
Spec == Init /\ [][Next]_vars

----------------------------------------------------------------------------
Bits == {"ENABLE", "RESET", "DMA_MODE", "DMA_START"}

(* Every variable holds a value of its type. *)
TypeOK ==
  /\ job \in 1..MaxJobs /\ mode \in Modes /\ step \in {"begin", "closing"}
  /\ wait \in Nat
  /\ phase \in 0..1 /\ sha_ctrl \subseteq Bits
  /\ {x11_enable, push, cmd_running} \subseteq BOOLEAN
  /\ BusHalf!TypeOK /\ ShaHalf!TypeOK
  /\ cmd_job \in 0..MaxJobs /\ mover \in 0..MoverLag
  /\ words \subseteq 1..MaxJobs /\ hash_regs \subseteq 1..MaxJobs
  /\ result \subseteq 1..MaxJobs
  /\ engine \in {"reset", "ready", "busy", "done"}

(* Both halves come out of a reset only through the whole of it. *)
HalvesOrdered == BusHalf!Ordered /\ ShaHalf!Ordered

(* The one clock that DMA_START lasts finds the DMA engine out of reset, the
   SHA-256 engine ready and the DataMover too, although the store before it
   reset all three: the job is started and not silently dropped, provided
   that the DataMover is ready MoverLag clocks after its reset. *)
CommandTaken ==
  "DMA_START" \in sha_ctrl => bus_reset_n /\ ~cmd_running /\ Starts

(* A pushed word meets a FIFO that is not held in reset, and no DMA. *)
PushLands == push => sha_reset_n /\ "DMA_MODE" \notin sha_ctrl

(* What the driver reads is the hash of its own job or nothing: no words of
   an earlier run, which may have been killed with the DMA at work, and no
   hash that an earlier run left. *)
OwnHash == result \subseteq {job}
============================================================================
