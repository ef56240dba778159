---------------------------- MODULE Sha256Engine ----------------------------
(***************************************************************************)
(* The SHA-256 accelerator of the xy1en1om FPGA on its engine clock        *)
(* (62.5 MHz): the state machine of fpga/rtl/sha256_engine.sv, the read    *)
(* side of the word FIFO, and the start and result registers of            *)
(* fpga/rtl/regs.sv.  A step of the model is one rising edge of the clock: *)
(* every register gets its next value from the values before the edge, as  *)
(* the non-blocking assignments do.                                        *)
(*                                                                         *)
(* A word of the message is its position, 1, 2, 3, ...  The arithmetic of  *)
(* the rounds is abstracted: the chaining value ha is the sequence of the  *)
(* words it was computed from.  The FIFO is its memory and its pointers:   *)
(* a write reaches the reading side SyncLag clocks later, a read reaches   *)
(* the writing side as late, and a word that meets a full FIFO is lost.    *)
(*                                                                         *)
(* The feeder is what writes the FIFO: the DMA engine (dma_engine.sv,      *)
(* seen here through dma_in_progress and its words), or the CPU that       *)
(* pushes words through the register port and can be preempted anywhere.   *)
(***************************************************************************)
EXTENDS Integers, Sequences

CONSTANTS BlockWords,    \* words of a message block: 16
          Rounds,        \* rounds of the compression: 64
          Stretch,       \* what the dma_in_progress counter starts from: 7
          SyncLag,       \* engine clocks for a write to reach the read side
          Burst,         \* words the feeder can write in an engine clock: 2
          Depth,         \* capacity of the FIFO: 512
          Throttle,      \* fill level at which the DMA pauses: 0x1E0
          MsgLens,       \* message lengths, in words
          Modes,         \* ways to feed: a subset of {"dma", "port"}
          Stalls,        \* whether a feeder pauses inside a message: {FALSE},
                         \* {TRUE}, or both kinds of jobs
          MaxJobs        \* bound on the number of jobs of a run

ASSUME EngineConstants ==
  /\ BlockWords \in Nat /\ BlockWords >= 3
  /\ Rounds \in Nat /\ Rounds > BlockWords
  /\ Stretch \in Nat
  /\ SyncLag \in Nat \ {0}
  /\ Burst \in Nat \ {0}
  /\ Depth \in Nat /\ Throttle \in Nat \ {0}
  /\ Throttle + 2 * Burst + SyncLag <= Depth
  /\ MsgLens \subseteq {n \in Nat : n > 0 /\ n % BlockWords = 0}
  /\ Modes \subseteq {"dma", "port"}
  /\ Stalls \subseteq BOOLEAN
  /\ MaxJobs \in Nat \ {0}

(* A job: a padded message of whole blocks, fed one way, with one digest
   or the digest of the digest.  What the CPU pushes fits the FIFO: the
   driver pushes at most two blocks and never looks at the fill level. *)
Jobs == {j \in [len : MsgLens, mode : Modes, dbl : BOOLEAN, stalls : Stalls] :
           j.mode = "port" => j.len + SyncLag <= Depth}

VARIABLES job,           \* the job in hand: configuration registers
          jobs,          \* number of jobs begun (bounded by MaxJobs)
          sent,          \* words the feeder has offered to the FIFO
          mem, wr_ptr,   \* words the FIFO has taken, and how many
          wr_sync,       \* wr_ptr on its way through the synchroniser
          rd_ptr,        \* words read from the FIFO
          rd_vld, rd_dat,           \* FIFO read port: valid and dout
          running,       \* cmd_running of the DMA engine
          dma_cnt, dma_prog,        \* stretched dma_in_progress
          start,         \* sha256_start
          state, loop,   \* the state machine and its counter
          rd_en, ready, valid, dbl_op,
          w,             \* message words of the block in hand
          ha,            \* words the chaining value covers
          inner,         \* first digest of a double hash, or NoDigest
          valid_d, hash_regs        \* result registers of regs.sv

NoDigest == [inner |-> <<>>, words |-> <<>>]
NoInner  == <<>>

feedVars   == <<job, jobs, sent, mem, wr_ptr, running>>
fifoVars   == <<wr_sync, rd_ptr, rd_vld, rd_dat>>
engineVars == <<state, loop, rd_en, ready, valid, dbl_op, w, ha, inner>>
regsVars   == <<start, valid_d, hash_regs>>
vars == <<feedVars, fifoVars, dma_cnt, dma_prog, engineVars, regsVars>>

(* hash_o: the chaining value; for a double hash the chain began with a
   block that holds the first digest. *)
hash_o == [inner |-> inner, words |-> ha]

fifo_empty == rd_ptr = wr_sync[SyncLag]
Occupancy  == wr_ptr - rd_ptr

----------------------------------------------------------------------------
(* Reset: both halves of the accelerator are held in reset, then released
   with the configuration registers of the next job. *)
Init ==
  /\ job \in Jobs /\ jobs = 1
  /\ sent = 0 /\ mem = <<>> /\ wr_ptr = 0 /\ running = FALSE
  /\ wr_sync = [i \in 1..SyncLag |-> 0]
  /\ rd_ptr = 0 /\ rd_vld = FALSE /\ rd_dat = 0
  /\ dma_cnt = 0 /\ dma_prog = FALSE
  /\ state = "wait" /\ loop = 0
  /\ rd_en = FALSE /\ ready = FALSE /\ valid = FALSE /\ dbl_op = FALSE
  /\ w = <<>> /\ ha = <<>> /\ inner = NoInner
  /\ start = FALSE /\ valid_d = FALSE /\ hash_regs = NoDigest

Reset ==
  /\ jobs < MaxJobs
  /\ job' \in Jobs /\ jobs' = jobs + 1
  /\ sent' = 0 /\ mem' = <<>> /\ wr_ptr' = 0 /\ running' = FALSE
  /\ wr_sync' = [i \in 1..SyncLag |-> 0]
  /\ rd_ptr' = 0 /\ rd_vld' = FALSE /\ rd_dat' = 0
  /\ dma_cnt' = 0 /\ dma_prog' = FALSE
  /\ state' = "wait" /\ loop' = 0
  /\ rd_en' = FALSE /\ ready' = FALSE /\ valid' = FALSE /\ dbl_op' = FALSE
  /\ w' = <<>> /\ ha' = <<>> /\ inner' = NoInner
  /\ start' = FALSE /\ valid_d' = FALSE /\ hash_regs' = NoDigest

----------------------------------------------------------------------------
(* n words are offered to the FIFO.  It takes them all, unless it is full:
   of what comes then it takes none.  Its full flag sees a read up to SyncLag
   clocks late, so that it may be up with as many free places. *)
Write(n) ==
  /\ sent' = sent + n
  /\ \E k \in 0..n :
       /\ k <= Depth - Occupancy
       /\ k < n => Occupancy + k + SyncLag >= Depth
       /\ mem' = mem \o [i \in 1..k |-> sent + i]
       /\ wr_ptr' = wr_ptr + k

(* The fill level that the DMA compares with Throttle sees the reads up to
   SyncLag clocks late, and its tready is registered: between MustWrite and
   MayWrite it may do either. *)
MustWrite == Occupancy + SyncLag < Throttle

(* mutant: the fill level is not compared with anything *)
MayWriteAlways == TRUE

MayWrite == Occupancy < Throttle + Burst

(* n words are written.  tlast is not qualified by tready, so the DMA may
   drop cmd_running while its last word still waits for room. *)
DmaWrites(n) ==
  /\ Write(n)
  /\ n > 0 => MayWrite
  /\ running' \in (IF sent' = job.len THEN {FALSE}
                   ELSE IF sent' = job.len - 1 THEN {running, FALSE}
                   ELSE {running})

(* The DMA command is issued when the engine is ready. *)
DmaIdle ==
  /\ job.mode = "dma" /\ ~running /\ sent = 0
  /\ running' \in {ready} \cup (IF job.stalls THEN {FALSE} ELSE {})
  /\ UNCHANGED <<sent, mem, wr_ptr>>

DmaTransfer ==
  /\ job.mode = "dma" /\ running
  /\ \E n \in 0..Burst :
       /\ sent + n <= job.len
       /\ MustWrite /\ ~job.stalls => n > 0
       /\ DmaWrites(n)

DmaTail ==
  /\ job.mode = "dma" /\ ~running /\ sent \in 1..job.len - 1
  /\ \E n \in 0..1 : (MustWrite => n = 1) /\ DmaWrites(n)

DmaDone ==
  /\ job.mode = "dma" /\ ~running /\ sent = job.len
  /\ UNCHANGED <<sent, mem, wr_ptr, running>>

(* A store to the push register, at any time or none. *)
CpuPush ==
  /\ job.mode = "port" /\ sent < job.len
  /\ Write(1)
  /\ UNCHANGED running

CpuElsewhere ==
  /\ job.mode = "port" /\ (sent < job.len => job.stalls)
  /\ UNCHANGED <<sent, mem, wr_ptr, running>>

Feeder == DmaIdle \/ DmaTransfer \/ DmaTail \/ DmaDone \/ CpuPush \/ CpuElsewhere

----------------------------------------------------------------------------
(* The read side of the FIFO: a word leaves it when rd_en meets a FIFO that
   is not empty, and is on dout, with valid, after the edge. *)
pop == rd_en /\ ~fifo_empty

FifoClock ==
  /\ wr_sync' = [i \in 1..SyncLag |-> IF i = 1 THEN wr_ptr ELSE wr_sync[i - 1]]
  /\ rd_vld' = pop
  /\ rd_ptr' = IF pop THEN rd_ptr + 1 ELSE rd_ptr
  /\ rd_dat' = IF pop THEN mem[rd_ptr + 1] ELSE rd_dat

(* dma_in_progress outlives cmd_running for the words in the pipeline. *)
StretchClock ==
  \/ /\ running
     /\ dma_prog' = TRUE /\ dma_cnt' = Stretch
  \/ /\ ~running /\ dma_cnt > 0
     /\ dma_cnt' = dma_cnt - 1 /\ UNCHANGED dma_prog
  \/ /\ ~running /\ dma_cnt = 0
     /\ dma_prog' = FALSE /\ UNCHANGED dma_cnt

StartClock == start' = (~fifo_empty /\ ready)

LatchClock ==
  /\ valid_d' = valid
  /\ hash_regs' = IF valid /\ ~valid_d THEN hash_o ELSE hash_regs

----------------------------------------------------------------------------
(* mutant: ready is never raised *)
WaitIdleMute ==
  /\ state = "wait" /\ ~start
  /\ dbl_op' = job.dbl
  /\ UNCHANGED <<state, loop, rd_en, ready, valid, w, ha, inner>>

(* The state machine, one action per branch. *)
WaitIdle ==
  /\ state = "wait" /\ ~start
  /\ dbl_op' = job.dbl /\ ready' = TRUE
  /\ UNCHANGED <<state, loop, rd_en, valid, w, ha, inner>>

WaitWord ==
  /\ state = "wait" /\ start /\ ~rd_vld
  /\ rd_en' = TRUE
  /\ UNCHANGED <<state, loop, ready, valid, dbl_op, w, ha, inner>>

FirstWord ==
  /\ state = "wait" /\ start /\ rd_vld
  /\ rd_en' = TRUE /\ ready' = FALSE
  /\ w' = <<rd_dat>> /\ loop' = 1 /\ state' = "load"
  /\ UNCHANGED <<valid, dbl_op, ha, inner>>

(* mutant: rd_en is dropped with the last word instead of one before it *)
LoadWordLate ==
  /\ state = "load" /\ rd_vld
  /\ w' = Append(w, rd_dat)
  /\ loop' = loop + 1
  /\ rd_en' = (rd_en /\ loop # BlockWords - 1)
  /\ state' = IF loop = BlockWords - 1 THEN "expand" ELSE "load"
  /\ UNCHANGED <<ready, valid, dbl_op, ha, inner>>

(* mutant: the load state is left one word early *)
LoadWordShort ==
  /\ state = "load" /\ rd_vld
  /\ w' = Append(w, rd_dat)
  /\ loop' = loop + 1
  /\ rd_en' = (rd_en /\ loop # BlockWords - 2)
  /\ state' = IF loop = BlockWords - 2 THEN "expand" ELSE "load"
  /\ UNCHANGED <<ready, valid, dbl_op, ha, inner>>

LoadWord ==
  /\ state = "load" /\ rd_vld
  /\ w' = Append(w, rd_dat)
  /\ loop' = loop + 1
  /\ rd_en' = (rd_en /\ loop # BlockWords - 2)
  /\ state' = IF loop = BlockWords - 1 THEN "expand" ELSE "load"
  /\ UNCHANGED <<ready, valid, dbl_op, ha, inner>>

LoadGap ==
  /\ state = "load" /\ ~rd_vld
  /\ UNCHANGED engineVars

Expand ==
  /\ state = "expand"
  /\ IF loop < Rounds - 1
     THEN loop' = loop + 1 /\ UNCHANGED state
     ELSE loop' = 0 /\ state' = "rounds"
  /\ UNCHANGED <<rd_en, ready, valid, dbl_op, w, ha, inner>>

(* mutant: one round too many *)
RoundOver ==
  /\ state = "rounds" /\ loop <= Rounds
  /\ loop' = loop + 1
  /\ UNCHANGED <<state, rd_en, ready, valid, dbl_op, w, ha, inner>>

Round ==
  /\ state = "rounds" /\ loop < Rounds
  /\ loop' = loop + 1
  /\ UNCHANGED <<state, rd_en, ready, valid, dbl_op, w, ha, inner>>

(* mutant: an empty FIFO is taken for the end of the message *)
MoreInFifo == ~fifo_empty

MoreToCome == ~fifo_empty \/ dma_prog

NextBlock ==
  /\ state = "rounds" /\ loop = Rounds /\ MoreToCome
  /\ ha' = ha \o w /\ w' = <<>>
  /\ rd_en' = TRUE /\ loop' = 0 /\ state' = "load"
  /\ UNCHANGED <<ready, valid, dbl_op, inner>>

(* The digest is padded into a block of its own and hashed again. *)
DoubleHash ==
  /\ state = "rounds" /\ loop = Rounds /\ ~MoreToCome /\ dbl_op
  /\ dbl_op' = FALSE
  /\ inner' = ha \o w /\ ha' = <<>> /\ w' = <<>>
  /\ loop' = BlockWords /\ state' = "expand"
  /\ UNCHANGED <<rd_en, ready, valid>>

Finish ==
  /\ state = "rounds" /\ loop = Rounds /\ ~MoreToCome /\ ~dbl_op
  /\ ha' = ha \o w /\ w' = <<>>
  /\ valid' = TRUE /\ state' = "done"
  /\ UNCHANGED <<loop, rd_en, ready, dbl_op, inner>>

Trapped == state = "done" /\ UNCHANGED engineVars

EngineClock ==
  \/ WaitIdle \/ WaitWord \/ FirstWord \/ LoadWord \/ LoadGap
  \/ Expand \/ Round \/ NextBlock \/ DoubleHash \/ Finish \/ Trapped

Clock ==
  /\ Feeder /\ FifoClock /\ StretchClock /\ StartClock /\ LatchClock
  /\ EngineClock
  /\ UNCHANGED <<job, jobs>>

Next == Clock \/ Reset
Spec == Init /\ [][Next]_vars

(* The clock runs, and whatever feeds the FIFO goes on feeding it. *)
FeedClock == Clock /\ sent' > sent
FairSpec  == Spec /\ WF_vars(Clock) /\ WF_vars(FeedClock)

----------------------------------------------------------------------------
(* Properties. *)
MsgLength(j) == j.len
Positions(k) == [i \in 1..k |-> i]
Wholes(k) == {n \in 1..k : n % BlockWords = 0}
Digest(j) == IF j.dbl THEN [inner |-> Positions(j.len), words |-> <<>>]
                      ELSE [inner |-> <<>>, words |-> Positions(j.len)]

(* Every register holds a value of its type. *)
TypeOK ==
  /\ job \in Jobs /\ jobs \in 1..MaxJobs
  /\ sent \in Nat /\ mem \in Seq(Nat) /\ wr_ptr \in Nat
  /\ rd_ptr \in Nat /\ rd_dat \in Nat
  /\ wr_sync \in [1..SyncLag -> Nat]
  /\ dma_cnt \in 0..Stretch
  /\ state \in {"wait", "load", "expand", "rounds", "done"}
  /\ loop \in 0..Rounds
  /\ {rd_vld, running, dma_prog, start, rd_en, ready, valid, dbl_op, valid_d}
       \subseteq BOOLEAN
  /\ w \in Seq(Nat) /\ ha \in Seq(Nat) /\ inner \in Seq(Nat)
  /\ hash_regs \in [inner : Seq(Nat), words : Seq(Nat)]

(* No word is lost, doubled or reordered between the FIFO and the hash:
   the words the engine has covered are the words read so far, in order,
   but for the one that is on the FIFO's output.  The handshake of
   sha256_engine.sv between rd_en (raised with start, dropped one word
   before the block is full) and rd_vld, one clock later, makes it so. *)
StreamIntact ==
  inner \o ha \o w = Positions(IF rd_vld THEN rd_ptr - 1 ELSE rd_ptr)

(* A block is compressed only when it is full: the engine leaves the load
   state with BlockWords new words and never with a short or a long block. *)
WholeBlocks ==
  /\ state \in {"expand", "rounds"} => Len(w) \in {0, BlockWords}
  /\ Len(ha) % BlockWords = 0 /\ Len(inner) % BlockWords = 0

(* The FIFO takes every word that it is offered, in order: between the fill
   level at which tready falls (dma_engine.sv:256) and the capacity there is
   room for the words that are still written because the level is seen late. *)
NoOverflow == wr_ptr = sent /\ mem = Positions(sent)

(* The accelerator is the abstract hash service: its registers show one
   digest, and only of words that were written.  It is the digest of the
   whole message, not published before all of it was written, for the DMA,
   because dma_in_progress makes the engine wait for words that are still on
   their way when the FIFO runs empty between two blocks, and for a CPU that
   pushes a word at every clock, because the FIFO does not run empty then.
   For a CPU that pauses between two words nothing tells an empty FIFO from
   the end of the message: its digest covers the whole blocks pushed so far
   (what that breaks is PortDigest), and the words that come after the first
   hash of a double one are hashed into the second. *)
Uncut(j) == j.mode = "dma" \/ ~j.stalls
Cuts(j, k) ==
  {[inner |-> Positions(i), words |-> [n \in 1..l - i |-> i + n]] :
     i \in IF j.dbl THEN Wholes(k) ELSE {0}, l \in Wholes(k)}
Answers(j, k) ==
  IF Uncut(j) THEN {Digest(j) : x \in {k} \cap {j.len}}
              ELSE Cuts(j, k)
Service == INSTANCE HashService WITH
  Length <- MsgLength, task <- job, taken <- sent, published <- hash_regs

ImplementsService == Service!ServiceSpec

(* Words that are pushed through the port, at whatever pace, come to the
   digest of all of them: what the two-block tests of test_sha256_fifo.c
   (lines 234-382) read from the result registers and compare. *)
PortDigest ==
  /\ [](valid_d => hash_regs = Digest(job))
  /\ []<>valid_d

(* Every job comes to its end whose feeder keeps up with the engine: no
   handshake between ready, the command, start, rd_en and dma_in_progress
   waits for another for ever. *)
SteadyDelivered == []<>(valid_d \/ job.stalls)
============================================================================
