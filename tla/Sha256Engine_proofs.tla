------------------------- MODULE Sha256Engine_proofs -------------------------
(***************************************************************************)
(* Proofs about Sha256Engine, for every block size, number of rounds, FIFO *)
(* and message length that EngineConstants allows, and for a feeder that   *)
(* stalls wherever it likes: first that no word is lost or read twice, in  *)
(* the FIFO or behind it; then that the accelerator is HashService.        *)
(***************************************************************************)
EXTENDS Sha256Engine, SequenceTheorems, TLAPS

(* The handshake of the engine with the FIFO.  A word on the FIFO's output
   stays there for one clock only, so in every state that may meet one the
   engine takes it: rd_en is up only where the next clock still reads. *)
Handshake ==
  /\ state = "wait" => /\ start => ready
                       /\ rd_en => ready
                       /\ rd_vld => start
  /\ state = "load" => (rd_en <=> loop < BlockWords - 1)
  /\ state \in {"expand", "rounds", "done"} => ~rd_en /\ ~rd_vld
  /\ rd_vld => rd_ptr > 0 /\ rd_dat = rd_ptr

(* What the chain of words looks like in each state. *)
Blocks ==
  /\ state = "wait" => w = <<>> /\ ha = <<>> /\ inner = <<>>
  /\ state = "load" => loop < BlockWords /\ Len(w) = loop
  /\ state \in {"expand", "rounds"} => Len(w) \in {0, BlockWords}
  /\ state = "done" => w = <<>>
  /\ dbl_op => inner = <<>>

(* The pointers of the FIFO: what was read was seen, what was seen was
   written, and what was written belongs to the message. *)
InOrder ==
  /\ wr_ptr <= job.len
  /\ \A i \in 1..SyncLag : rd_ptr <= wr_sync[i] /\ wr_sync[i] <= wr_ptr
  /\ \A i, j \in 1..SyncLag : i <= j => wr_sync[j] <= wr_sync[i]

IInv == /\ TypeOK /\ NoOverflow /\ InOrder /\ Handshake /\ Blocks
        /\ StreamIntact /\ WholeBlocks

----------------------------------------------------------------------------
(* Lemmas about the sequences the model is built from. *)

(* The words read so far, and one more. *)
LEMMA PositionsNext ==
  ASSUME NEW k \in Nat
  PROVE  /\ Positions(k) \in Seq(Nat) /\ Len(Positions(k)) = k
         /\ Append(Positions(k), k + 1) = Positions(k + 1)
<1>1. \A n \in Nat : Positions(n) \in Seq(Nat) /\ Len(Positions(n)) = n
  BY DEF Positions
<1>2. Append(Positions(k), k + 1) \in Seq(Nat)
  BY <1>1
<1>3. Len(Append(Positions(k), k + 1)) = k + 1
  BY <1>1
<1>4. \A i \in 1..k + 1 : Append(Positions(k), k + 1)[i] = Positions(k + 1)[i]
  BY <1>1 DEF Positions
<1>5. k + 1 \in Nat
  OBVIOUS
<1>6. Append(Positions(k), k + 1) = Positions(k + 1)
  BY <1>1, <1>2, <1>3, <1>4, <1>5, SeqEqual
<1> QED BY <1>1, <1>6

(* The words written so far, and some more. *)
LEMMA PositionsMore ==
  ASSUME NEW k \in Nat, NEW n \in Nat
  PROVE  Positions(k) \o [i \in 1..n |-> k + i] = Positions(k + n)
<1> DEFINE s == [i \in 1..n |-> k + i]
<1>1. Positions(k) \in Seq(Nat) /\ Len(Positions(k)) = k
  BY PositionsNext
<1>2. Positions(k + n) \in Seq(Nat) /\ Len(Positions(k + n)) = k + n
  BY PositionsNext
<1>3. s \in Seq(Nat) /\ Len(s) = n
  OBVIOUS
<1>4. Positions(k) \o s \in Seq(Nat) /\ Len(Positions(k) \o s) = k + n
  BY <1>1, <1>3, ConcatProperties
<1>5. ASSUME NEW i \in 1..k + n
      PROVE  (Positions(k) \o s)[i] = Positions(k + n)[i]
  <2>1. CASE i \in 1..k
    BY <1>1, <1>3, <2>1 DEF Positions
  <2>2. CASE i \in k + 1..k + n
    <3>1. (Positions(k) \o s)[i] = s[i - k] /\ i - k \in 1..n
      BY <1>1, <1>3, <2>2
    <3> QED BY <3>1, <2>2 DEF Positions
  <2>3. i \in 1..k \/ i \in k + 1..k + n
    OBVIOUS
  <2> QED BY <2>1, <2>2, <2>3
<1> QED BY <1>2, <1>4, <1>5, SeqEqual

(* Nothing was read if and only if there are no words. *)
LEMMA PositionsNone ==
  /\ Positions(0) = <<>>
  /\ \A k \in Nat : Positions(k) = <<>> => k = 0
<1>1. Positions(0) = <<>>
  BY PositionsNext, EmptySeq
<1>2. ASSUME NEW k \in Nat, Positions(k) = <<>> PROVE k = 0
  BY <1>2, PositionsNext, EmptySeq
<1> QED BY <1>1, <1>2

(* Blocks may be put together in any order. *)
LEMMA Regroup ==
  ASSUME NEW s \in Seq(Nat), NEW t \in Seq(Nat), NEW u \in Seq(Nat)
  PROVE  (s \o t) \o u = s \o (t \o u)
<1> DEFINE l == (s \o t) \o u
           r == s \o (t \o u)
<1>1. s \o t \in Seq(Nat) /\ t \o u \in Seq(Nat)
  BY ConcatProperties
<1>2. l \in Seq(Nat) /\ Len(l) = Len(s) + Len(t) + Len(u)
  BY <1>1, ConcatProperties
<1>3. r \in Seq(Nat) /\ Len(r) = Len(s) + Len(t) + Len(u)
  BY <1>1, ConcatProperties
<1>4. ASSUME NEW i \in 1..Len(s) + Len(t) + Len(u) PROVE l[i] = r[i]
  BY <1>1
<1> QED BY <1>2, <1>3, <1>4, SeqEqual

(* A word appended to the block in hand is appended to the whole. *)
LEMMA AppendLast ==
  ASSUME NEW s \in Seq(Nat), NEW t \in Seq(Nat), NEW x \in Nat
  PROVE  s \o Append(t, x) = Append(s \o t, x)
<1> DEFINE l == s \o Append(t, x)
           r == Append(s \o t, x)
<1>1. Append(t, x) \in Seq(Nat) /\ Len(Append(t, x)) = Len(t) + 1
  OBVIOUS
<1>2. s \o t \in Seq(Nat) /\ Len(s \o t) = Len(s) + Len(t)
  BY ConcatProperties
<1>3. l \in Seq(Nat) /\ Len(l) = Len(s) + Len(t) + 1
  BY <1>1, ConcatProperties
<1>4. r \in Seq(Nat) /\ Len(r) = Len(s) + Len(t) + 1
  BY <1>2
<1>5. ASSUME NEW i \in 1..Len(s) + Len(t) + 1 PROVE l[i] = r[i]
  BY <1>1, <1>2
<1> QED BY <1>3, <1>4, <1>5, SeqEqual

----------------------------------------------------------------------------
(* Type correctness, one part of the clock edge at a time. *)
EngineType ==
  /\ state \in {"wait", "load", "expand", "rounds", "done"}
  /\ loop \in 0..Rounds
  /\ rd_en \in BOOLEAN /\ ready \in BOOLEAN /\ valid \in BOOLEAN
  /\ dbl_op \in BOOLEAN
  /\ w \in Seq(Nat) /\ ha \in Seq(Nat) /\ inner \in Seq(Nat)

LEMMA InitTyped == Init => TypeOK
<1> SUFFICES ASSUME Init PROVE TypeOK
  OBVIOUS
<1>1. <<>> \in Seq(Nat)
  BY EmptySeq
<1>2. wr_sync \in [1..SyncLag -> Nat]
  BY DEF Init
<1>3. hash_regs \in [inner : Seq(Nat), words : Seq(Nat)]
  BY <1>1 DEF Init, NoDigest
<1>4. jobs \in 1..MaxJobs /\ dma_cnt \in 0..Stretch /\ loop \in 0..Rounds
  BY EngineConstants DEF Init
<1> QED BY <1>1, <1>2, <1>3, <1>4 DEF Init, NoInner, TypeOK

LEMMA ResetTyped == TypeOK /\ Reset => TypeOK'
<1> SUFFICES ASSUME TypeOK, Reset PROVE TypeOK'
  OBVIOUS
<1>1. <<>> \in Seq(Nat)
  BY EmptySeq
<1>2. wr_sync' \in [1..SyncLag -> Nat]
  BY DEF Reset
<1>3. hash_regs' \in [inner : Seq(Nat), words : Seq(Nat)]
  BY <1>1 DEF Reset, NoDigest
<1>4. jobs' \in 1..MaxJobs /\ dma_cnt' \in 0..Stretch /\ loop' \in 0..Rounds
  BY EngineConstants DEF Reset, TypeOK
<1> QED BY <1>1, <1>2, <1>3, <1>4 DEF Reset, NoInner, TypeOK

(* A job has a message of whole blocks and is fed one of two ways. *)
LEMMA JobIs ==
  ASSUME NEW j \in Jobs
  PROVE  /\ j.len \in Nat /\ j.len > 0 /\ j.len % BlockWords = 0
         /\ j.mode \in {"dma", "port"} /\ j.dbl \in BOOLEAN
         /\ j.stalls \in BOOLEAN
         /\ j.mode = "port" => j.len + SyncLag <= Depth
<1>1. /\ j.len \in MsgLens /\ j.mode \in Modes /\ j.dbl \in BOOLEAN
      /\ j.stalls \in Stalls
  BY DEF Jobs
<1>2. j.mode = "port" => j.len + SyncLag <= Depth
  BY DEF Jobs
<1>3. j.len \in {n \in Nat : n > 0 /\ n % BlockWords = 0}
  BY <1>1, EngineConstants, Zenon
<1> QED BY <1>1, <1>2, <1>3, EngineConstants, Zenon

(* A FIFO with room for them takes all the words it is offered. *)
LEMMA WritesAll ==
  ASSUME TypeOK, NoOverflow, NEW n \in Nat, Write(n),
         Occupancy + n + SyncLag <= Depth
  PROVE  /\ sent' \in Nat /\ mem' \in Seq(Nat) /\ wr_ptr' \in Nat
         /\ wr_ptr' = wr_ptr + n /\ NoOverflow'
<1>1. /\ sent \in Nat /\ mem \in Seq(Nat) /\ wr_ptr = sent
      /\ mem = Positions(sent) /\ Occupancy \in Int
      /\ Depth \in Nat /\ SyncLag \in Nat
  BY EngineConstants DEF TypeOK, NoOverflow, Occupancy
<1>2. PICK k \in 0..n : /\ k < n => Occupancy + k + SyncLag >= Depth
                        /\ mem' = mem \o [i \in 1..k |-> sent + i]
                        /\ wr_ptr' = wr_ptr + k
  BY DEF Write
<1>3. k = n
  BY <1>1, <1>2
<1>4. sent' = sent + n
  BY DEF Write
<1>5. mem' = Positions(sent + n)
  BY <1>1, <1>2, <1>3, PositionsMore
<1>6. Positions(sent + n) \in Seq(Nat)
  <2>1. sent + n \in Nat
    BY <1>1
  <2> QED BY <2>1, PositionsNext
<1>7. wr_ptr' = sent + n
  BY <1>1, <1>2, <1>3
<1>8. NoOverflow'
  BY <1>4, <1>5, <1>7 DEF NoOverflow
<1> QED BY <1>1, <1>4, <1>5, <1>6, <1>7, <1>8

(* What the feeder does to cmd_running. *)
LEMMA FeederRuns == TypeOK /\ Feeder => running' \in BOOLEAN
<1> SUFFICES ASSUME TypeOK, Feeder PROVE running' \in BOOLEAN
  OBVIOUS
<1>1. running \in BOOLEAN /\ ready \in BOOLEAN
  BY DEF TypeOK
<1>2. ASSUME NEW n, DmaWrites(n) PROVE running' \in {running, FALSE}
  BY <1>2 DEF DmaWrites
<1>3. DmaIdle => running' \in {ready, FALSE}
  BY DEF DmaIdle
<1>4. DmaDone \/ CpuElsewhere \/ CpuPush => running' = running
  BY DEF DmaDone, CpuElsewhere, CpuPush
<1>5. DmaTransfer \/ DmaTail => running' \in {running, FALSE}
  BY <1>2, Zenon DEF DmaTransfer, DmaTail
<1> QED BY <1>1, <1>3, <1>4, <1>5 DEF Feeder

(* n words are offered, and all of them are taken: the DMA stops early enough,
   what the CPU pushes fits. *)
Stays(n) ==
  /\ sent' \in Nat /\ mem' \in Seq(Nat) /\ wr_ptr' \in Nat
  /\ wr_ptr' = wr_ptr + n /\ NoOverflow'

LEMMA FeederStays ==
  ASSUME TypeOK, NoOverflow, Feeder
  PROVE  \E n \in 0..Burst : Stays(n) /\ (n > 0 => sent + n <= job.len)
<1>1. /\ sent \in Nat /\ mem \in Seq(Nat) /\ wr_ptr \in Nat /\ wr_ptr = sent
      /\ mem = Positions(sent) /\ rd_ptr \in Nat
  BY DEF TypeOK, NoOverflow
<1>2. job.len \in Nat /\ (job.mode = "port" => job.len + SyncLag <= Depth)
  BY JobIs DEF TypeOK
<1>3. /\ Burst \in Nat /\ Burst >= 1 /\ SyncLag \in Nat /\ Depth \in Nat
      /\ Throttle \in Nat /\ Throttle + 2 * Burst + SyncLag <= Depth
  BY EngineConstants
<1>4. Stays(0) <=> /\ sent' \in Nat /\ mem' \in Seq(Nat) /\ wr_ptr' = wr_ptr
                   /\ NoOverflow'
  BY <1>1 DEF Stays
<1>5. UNCHANGED <<sent, mem, wr_ptr>> => Stays(0)
  BY <1>1, <1>4 DEF NoOverflow
<1>6. ASSUME NEW n \in 0..Burst, DmaWrites(n) PROVE Stays(n)
  <2>1. Write(n) /\ n \in Nat /\ (n > 0 => Occupancy < Throttle + Burst)
    BY <1>3, <1>6 DEF DmaWrites, MayWrite
  <2>2. CASE n = 0
    <3>1. PICK k \in 0..n : /\ mem' = mem \o [i \in 1..k |-> sent + i]
                            /\ wr_ptr' = wr_ptr + k
      BY <2>1 DEF Write
    <3>2. k = 0
      BY <2>2
    <3>3. sent' = sent /\ wr_ptr' = wr_ptr
      BY <1>1, <2>1, <2>2, <3>1, <3>2 DEF Write
    <3>4. mem' = mem \o [i \in 1..0 |-> sent + i]
      BY <3>1, <3>2
    <3>5. Positions(sent) \o [i \in 1..0 |-> sent + i] = Positions(sent + 0)
      BY <1>1, PositionsMore
    <3>6. mem' = mem
      BY <1>1, <3>4, <3>5
    <3> QED BY <1>5, <2>2, <3>3, <3>6
  <2>3. CASE n > 0
    <3>1. Occupancy + n + SyncLag <= Depth
      BY <1>1, <1>3, <2>1, <2>3 DEF Occupancy
    <3> QED BY <2>1, <3>1, WritesAll DEF Stays
  <2> QED BY <1>3, <2>2, <2>3
<1>7. CASE DmaIdle \/ DmaDone \/ CpuElsewhere
  <2>1. UNCHANGED <<sent, mem, wr_ptr>>
    BY <1>7, Zenon DEF DmaIdle, DmaDone, CpuElsewhere
  <2> QED BY <1>3, <1>5, <2>1
<1>8. CASE DmaTransfer
  <2>1. PICK n \in 0..Burst : sent + n <= job.len /\ DmaWrites(n)
    BY <1>8 DEF DmaTransfer
  <2> QED BY <1>6, <2>1
<1>9. CASE DmaTail
  <2>1. PICK n \in 0..1 : DmaWrites(n)
    BY <1>9 DEF DmaTail
  <2>2. sent \in 1..job.len - 1
    BY <1>9 DEF DmaTail
  <2>3. n \in 0..Burst /\ sent + n <= job.len
    BY <1>1, <1>2, <1>3, <2>1, <2>2
  <2> QED BY <1>6, <2>1, <2>3
<1>10. CASE CpuPush
  <2>1. Write(1) /\ sent < job.len /\ job.mode = "port"
    BY <1>10 DEF CpuPush
  <2>2. Occupancy + 1 + SyncLag <= Depth
    BY <1>1, <1>2, <1>3, <2>1 DEF Occupancy
  <2>3. Stays(1)
    BY <2>1, <2>2, WritesAll DEF Stays
  <2> QED BY <1>1, <1>2, <1>3, <2>1, <2>3
<1> QED BY <1>7, <1>8, <1>9, <1>10 DEF Feeder

(* The feeder writes words of the message, at most a burst at a clock, and
   none is lost. *)
LEMMA FeederKeeps ==
  ASSUME TypeOK, NoOverflow, wr_ptr <= job.len, Feeder
  PROVE  /\ sent' \in Nat /\ mem' \in Seq(Nat) /\ wr_ptr' \in Nat
         /\ NoOverflow' /\ running' \in BOOLEAN
         /\ wr_ptr <= wr_ptr' /\ wr_ptr' <= job.len /\ wr_ptr' <= wr_ptr + Burst
<1>1. running' \in BOOLEAN
  BY FeederRuns
<1>2. PICK n \in 0..Burst : Stays(n) /\ (n > 0 => sent + n <= job.len)
  BY FeederStays
<1>3. wr_ptr \in Nat /\ wr_ptr = sent /\ Burst \in Nat /\ job.len \in Nat
  BY JobIs, EngineConstants DEF TypeOK, NoOverflow
<1>4. wr_ptr' = wr_ptr + n
  BY <1>2 DEF Stays
<1>5. wr_ptr <= wr_ptr' /\ wr_ptr' <= job.len /\ wr_ptr' <= wr_ptr + Burst
  BY <1>2, <1>3, <1>4
<1> QED BY <1>1, <1>2, <1>5 DEF Stays

(* A word that is popped was written, and is the next one. *)
LEMMA PopReads ==
  ASSUME TypeOK, NoOverflow, InOrder, pop
  PROVE  rd_ptr + 1 \in 1..Len(mem) /\ mem[rd_ptr + 1] = rd_ptr + 1
<1>1. SyncLag \in 1..SyncLag
  BY EngineConstants
<1>2. /\ rd_ptr \in Nat /\ wr_sync[SyncLag] \in Nat /\ sent \in Nat
      /\ wr_ptr = sent /\ mem = Positions(sent) /\ Len(mem) = sent
  BY <1>1, PositionsNext DEF TypeOK, NoOverflow
<1>3. rd_ptr <= wr_sync[SyncLag] /\ wr_sync[SyncLag] <= wr_ptr
  BY <1>1 DEF InOrder
<1>4. rd_ptr # wr_sync[SyncLag]
  BY DEF pop, fifo_empty
<1>5. rd_ptr + 1 \in 1..sent
  BY <1>2, <1>3, <1>4
<1> QED BY <1>2, <1>5 DEF Positions

LEMMA FifoTyped ==
  TypeOK /\ NoOverflow /\ InOrder /\ FifoClock =>
    /\ wr_sync' \in [1..SyncLag -> Nat] /\ rd_vld' \in BOOLEAN
    /\ rd_ptr' \in Nat /\ rd_dat' \in Nat
    /\ rd_vld' => rd_ptr' > 0 /\ rd_dat' = rd_ptr'
<1> SUFFICES ASSUME TypeOK, NoOverflow, InOrder, FifoClock
             PROVE  /\ wr_sync' \in [1..SyncLag -> Nat] /\ rd_vld' \in BOOLEAN
                    /\ rd_ptr' \in Nat /\ rd_dat' \in Nat
                    /\ rd_vld' => rd_ptr' > 0 /\ rd_dat' = rd_ptr'
  OBVIOUS
<1>1. wr_sync' \in [1..SyncLag -> Nat]
  <2>0. wr_ptr \in Nat
    BY DEF TypeOK
  <2>1. ASSUME NEW i \in 1..SyncLag
        PROVE  (IF i = 1 THEN wr_ptr ELSE wr_sync[i - 1]) \in Nat
    BY EngineConstants, <2>0 DEF TypeOK
  <2> QED BY <2>1 DEF FifoClock
<1>2. rd_ptr \in Nat /\ rd_dat \in Nat /\ rd_vld' = pop
  BY DEF FifoClock, TypeOK
<1>3. rd_vld' \in BOOLEAN
  BY DEF FifoClock, pop
<1>4. CASE pop
  <2>1. rd_ptr' = rd_ptr + 1 /\ rd_dat' = mem[rd_ptr + 1]
    BY <1>4 DEF FifoClock
  <2>2. rd_dat' = rd_ptr + 1
    BY <1>4, <2>1, PopReads
  <2> QED BY <1>1, <1>2, <1>3, <2>1, <2>2
<1>5. CASE ~pop
  <2>1. rd_ptr' = rd_ptr /\ rd_dat' = rd_dat
    BY <1>5 DEF FifoClock
  <2> QED BY <1>1, <1>2, <1>3, <1>5, <2>1
<1> QED BY <1>4, <1>5

LEMMA RegistersTyped ==
  TypeOK /\ StretchClock /\ StartClock /\ LatchClock =>
    /\ dma_cnt' \in 0..Stretch /\ dma_prog' \in BOOLEAN
    /\ start' \in BOOLEAN /\ valid_d' \in BOOLEAN
    /\ hash_regs' \in [inner : Seq(Nat), words : Seq(Nat)]
<1> SUFFICES ASSUME TypeOK, StretchClock, StartClock, LatchClock
             PROVE  /\ dma_cnt' \in 0..Stretch /\ dma_prog' \in BOOLEAN
                    /\ start' \in BOOLEAN /\ valid_d' \in BOOLEAN
                    /\ hash_regs' \in [inner : Seq(Nat), words : Seq(Nat)]
  OBVIOUS
<1>1. dma_cnt' \in 0..Stretch
  BY EngineConstants DEF StretchClock, TypeOK
<1>2. dma_prog' \in BOOLEAN
  BY DEF StretchClock, TypeOK
<1>3. start' \in BOOLEAN /\ valid_d' \in BOOLEAN
  BY DEF StartClock, LatchClock, TypeOK
<1>4. hash_o \in [inner : Seq(Nat), words : Seq(Nat)]
  BY DEF hash_o, TypeOK
<1>5. hash_regs' \in [inner : Seq(Nat), words : Seq(Nat)]
  BY <1>4 DEF LatchClock, TypeOK
<1> QED BY <1>1, <1>2, <1>3, <1>5

LEMMA EngineTyped == TypeOK /\ Blocks /\ EngineClock => EngineType'
<1> SUFFICES ASSUME TypeOK, Blocks, EngineClock PROVE EngineType'
  OBVIOUS
<1>1. EngineType /\ rd_dat \in Nat /\ job.dbl \in BOOLEAN
  BY DEF TypeOK, EngineType, Jobs
<1>2. <<>> \in Seq(Nat)
  BY EmptySeq
<1>3. ha \o w \in Seq(Nat)
  BY <1>1, ConcatProperties DEF EngineType
<1>4. BlockWords \in 0..Rounds /\ 0 \in 0..Rounds /\ 1 \in 0..Rounds
  BY EngineConstants
<1> USE DEF EngineType
<1>5. CASE WaitIdle
  BY <1>1, <1>5 DEF WaitIdle
<1>6. CASE WaitWord
  BY <1>1, <1>6 DEF WaitWord
<1>7. CASE FirstWord
  <2>1. <<rd_dat>> \in Seq(Nat)
    BY <1>1
  <2> QED BY <1>1, <1>4, <1>7, <2>1 DEF FirstWord
<1>8. CASE LoadWord
  <2>1. loop' \in 0..Rounds
    BY <1>1, <1>8, EngineConstants DEF LoadWord, Blocks
  <2>2. w' \in Seq(Nat)
    BY <1>1, <1>8 DEF LoadWord
  <2>3. rd_en' \in BOOLEAN /\ state' \in {"load", "expand"}
    BY <1>1, <1>8 DEF LoadWord
  <2> QED BY <1>1, <1>8, <2>1, <2>2, <2>3 DEF LoadWord
<1>9. CASE LoadGap \/ Trapped
  BY <1>1, <1>9 DEF LoadGap, Trapped, engineVars
<1>10. CASE Expand
  <2>1. loop' \in 0..Rounds
    BY <1>1, <1>4, <1>10, EngineConstants DEF Expand
  <2>2. state' \in {"expand", "rounds"}
    BY <1>10 DEF Expand
  <2> QED BY <1>1, <1>10, <2>1, <2>2 DEF Expand
<1>11. CASE Round
  <2>1. loop' \in 0..Rounds
    BY <1>1, <1>11, EngineConstants DEF Round
  <2> QED BY <1>1, <1>11, <2>1 DEF Round
<1>12. CASE NextBlock
  BY <1>1, <1>2, <1>3, <1>4, <1>12 DEF NextBlock
<1>13. CASE DoubleHash
  BY <1>1, <1>2, <1>3, <1>4, <1>13 DEF DoubleHash
<1>14. CASE Finish
  BY <1>1, <1>2, <1>3, <1>14 DEF Finish
<1> QED BY <1>5, <1>6, <1>7, <1>8, <1>9, <1>10, <1>11, <1>12, <1>13, <1>14
        DEF EngineClock

LEMMA NextTyped ==
  TypeOK /\ NoOverflow /\ InOrder /\ Blocks /\ [Next]_vars => TypeOK'
<1> SUFFICES ASSUME TypeOK, NoOverflow, InOrder, Blocks, [Next]_vars PROVE TypeOK'
  OBVIOUS
<1>1. CASE Reset
  BY <1>1, ResetTyped
<1>2. CASE Clock
  <2>1. /\ sent' \in Nat /\ mem' \in Seq(Nat) /\ wr_ptr' \in Nat
        /\ running' \in BOOLEAN
    BY <1>2, FeederKeeps DEF Clock, InOrder
  <2>2. /\ wr_sync' \in [1..SyncLag -> Nat] /\ rd_vld' \in BOOLEAN
        /\ rd_ptr' \in Nat /\ rd_dat' \in Nat
    BY <1>2, FifoTyped DEF Clock
  <2>3. /\ dma_cnt' \in 0..Stretch /\ dma_prog' \in BOOLEAN
        /\ start' \in BOOLEAN /\ valid_d' \in BOOLEAN
        /\ hash_regs' \in [inner : Seq(Nat), words : Seq(Nat)]
    BY <1>2, RegistersTyped DEF Clock
  <2>4. EngineType'
    BY <1>2, EngineTyped DEF Clock
  <2>5. job' \in Jobs /\ jobs' \in 1..MaxJobs
    BY <1>2 DEF Clock, TypeOK
  <2> QED BY <2>1, <2>2, <2>3, <2>4, <2>5 DEF EngineType, TypeOK
<1>3. CASE UNCHANGED vars
  BY <1>3 DEF vars, feedVars, fifoVars, engineVars, regsVars, TypeOK, Jobs
<1> QED BY <1>1, <1>2, <1>3 DEF Next

----------------------------------------------------------------------------
(* The handshake. *)
LEMMA NextHandshake ==
  TypeOK /\ NoOverflow /\ InOrder /\ Blocks /\ Handshake /\ [Next]_vars => Handshake'
<1> SUFFICES ASSUME TypeOK, NoOverflow, InOrder, Blocks, Handshake, [Next]_vars
             PROVE  Handshake'
  OBVIOUS
<1>1. CASE Reset
  BY <1>1 DEF Reset, Handshake
<1>2. CASE Clock
  <2>1. rd_vld' => rd_ptr' > 0 /\ rd_dat' = rd_ptr'
    BY <1>2, FifoTyped DEF Clock
  <2>2. rd_vld' => rd_en /\ ~fifo_empty
    BY <1>2 DEF Clock, FifoClock, pop
  <2>3. start' <=> ~fifo_empty /\ ready
    BY <1>2 DEF Clock, StartClock
  <2>4. BlockWords \in Nat /\ BlockWords >= 3 /\ loop \in Nat
    BY EngineConstants DEF TypeOK
  <2>5. CASE WaitIdle \/ WaitWord
    <3>1. state = "wait" /\ state' = "wait"
      BY <2>5 DEF WaitIdle, WaitWord
    <3>2. rd_en' => ready'
      BY <2>5, <3>1 DEF WaitIdle, WaitWord, Handshake
    <3>3. start' => ready'
      BY <2>3, <2>5 DEF WaitIdle, WaitWord
    <3>4. rd_vld' => start'
      BY <2>2, <2>3, <3>1 DEF Handshake
    <3> QED BY <2>1, <3>1, <3>2, <3>3, <3>4 DEF Handshake
  <2>6. CASE FirstWord
    <3>1. state' = "load" /\ rd_en' /\ loop' < BlockWords - 1
      BY <2>4, <2>6 DEF FirstWord
    <3> QED BY <2>1, <3>1 DEF Handshake
  <2>7. CASE LoadWord
    <3>1. state = "load" /\ loop < BlockWords /\ (rd_en <=> loop < BlockWords - 1)
      BY <2>7 DEF LoadWord, Handshake, Blocks
    <3>2. CASE loop = BlockWords - 1
      <4>1. ~rd_en
        BY <2>4, <3>1, <3>2
      <4>2. ~rd_en' /\ ~rd_vld'
        BY <2>2, <2>7, <4>1, Zenon DEF LoadWord
      <4>3. state' = "expand"
        BY <2>7, <3>2 DEF LoadWord
      <4> QED BY <2>1, <4>2, <4>3 DEF Handshake
    <3>3. CASE loop < BlockWords - 1
      <4>1. rd_en' <=> loop # BlockWords - 2
        BY <2>7, <3>1, <3>3, Zenon DEF LoadWord
      <4>2. loop' = loop + 1 /\ state' = "load"
        BY <2>4, <2>7, <3>3 DEF LoadWord
      <4>3. rd_en' <=> loop' < BlockWords - 1
        BY <2>4, <3>3, <4>1, <4>2
      <4> QED BY <2>1, <4>2, <4>3 DEF Handshake
    <3> QED BY <2>4, <3>1, <3>2, <3>3
  <2>8. CASE LoadGap
    <3>1. state' = "load" /\ (rd_en' <=> loop' < BlockWords - 1)
      BY <2>8 DEF LoadGap, engineVars, Handshake
    <3> QED BY <2>1, <3>1 DEF Handshake
  <2>9. CASE Expand \/ Round \/ DoubleHash \/ Finish \/ Trapped
    <3>1. /\ state \in {"expand", "rounds", "done"}
          /\ state' \in {"expand", "rounds", "done"} /\ rd_en' = rd_en
      BY <2>9 DEF Expand, Round, DoubleHash, Finish, Trapped, engineVars
    <3>2. ~rd_en' /\ ~rd_vld'
      BY <2>2, <3>1 DEF Handshake
    <3> QED BY <2>1, <3>1, <3>2 DEF Handshake
  <2>10. CASE NextBlock
    <3>1. state' = "load" /\ rd_en' /\ loop' < BlockWords - 1
      BY <2>4, <2>10 DEF NextBlock
    <3> QED BY <2>1, <3>1 DEF Handshake
  <2> QED BY <1>2, <2>5, <2>6, <2>7, <2>8, <2>9, <2>10 DEF Clock, EngineClock
<1>3. CASE UNCHANGED vars
  BY <1>3 DEF vars, fifoVars, engineVars, regsVars, Handshake
<1> QED BY <1>1, <1>2, <1>3 DEF Next

(* The shape of the chain. *)
LEMMA NextBlocks == TypeOK /\ Blocks /\ [Next]_vars => Blocks'
<1> SUFFICES ASSUME TypeOK, Blocks, [Next]_vars PROVE Blocks'
  OBVIOUS
<1>1. CASE Reset
  BY <1>1 DEF Reset, NoInner, Blocks
<1>2. CASE Clock
  <2>1. BlockWords \in Nat /\ BlockWords >= 3 /\ loop \in Nat /\ w \in Seq(Nat)
    BY EngineConstants DEF TypeOK
  <2>2. Len(<<>>) = 0
    OBVIOUS
  <2>3. CASE WaitIdle \/ WaitWord
    BY <2>3 DEF WaitIdle, WaitWord, Blocks
  <2>4. CASE FirstWord
    <3>1. state' = "load" /\ loop' < BlockWords /\ Len(w') = loop'
      BY <2>1, <2>4 DEF FirstWord
    <3> QED BY <2>4, <3>1 DEF FirstWord, Blocks
  <2>5. CASE LoadWord
    <3>1. Len(w') = loop + 1
      BY <2>1, <2>5 DEF LoadWord, Blocks, TypeOK
    <3>2. loop < BlockWords
      BY <2>5 DEF LoadWord, Blocks
    <3>3. CASE loop = BlockWords - 1
      <4>1. state' = "expand" /\ Len(w') = BlockWords
        BY <2>1, <2>5, <3>1, <3>3 DEF LoadWord
      <4> QED BY <2>5, <4>1 DEF LoadWord, Blocks
    <3>4. CASE loop # BlockWords - 1
      <4>1. state' = "load" /\ loop' < BlockWords /\ Len(w') = loop'
        BY <2>1, <2>5, <3>1, <3>2, <3>4 DEF LoadWord
      <4> QED BY <2>5, <4>1 DEF LoadWord, Blocks
    <3> QED BY <3>3, <3>4
  <2>6. CASE LoadGap \/ Trapped
    BY <2>6 DEF LoadGap, Trapped, engineVars, Blocks
  <2>7. CASE Expand \/ Round
    <3>1. state \in {"expand", "rounds"} /\ state' \in {"expand", "rounds"}
      BY <2>7 DEF Expand, Round
    <3> QED BY <2>7, <3>1 DEF Expand, Round, Blocks
  <2>8. CASE NextBlock
    <3>1. state' = "load" /\ loop' < BlockWords /\ Len(w') = loop'
      BY <2>1, <2>2, <2>8 DEF NextBlock
    <3> QED BY <2>8, <3>1 DEF NextBlock, Blocks
  <2>9. CASE DoubleHash
    BY <2>2, <2>9 DEF DoubleHash, Blocks
  <2>10. CASE Finish
    BY <2>10 DEF Finish, Blocks
  <2> QED BY <1>2, <2>3, <2>4, <2>5, <2>6, <2>7, <2>8, <2>9, <2>10
          DEF Clock, EngineClock
<1>3. CASE UNCHANGED vars
  BY <1>3 DEF vars, engineVars, Blocks
<1> QED BY <1>1, <1>2, <1>3 DEF Next

----------------------------------------------------------------------------
(* The words covered so far.  A clock edge either takes the word that is on
   the FIFO's output, or there is none and the chain stays as long as it is,
   however it is regrouped into blocks. *)
chain == inner \o ha \o w

LEMMA ChainStep ==
  TypeOK /\ Blocks /\ Handshake /\ EngineClock =>
    chain' = IF rd_vld THEN Append(chain, rd_dat) ELSE chain
<1> SUFFICES ASSUME TypeOK, Blocks, Handshake, EngineClock
             PROVE  chain' = IF rd_vld THEN Append(chain, rd_dat) ELSE chain
  OBVIOUS
<1>1. /\ w \in Seq(Nat) /\ ha \in Seq(Nat) /\ inner \in Seq(Nat)
      /\ rd_dat \in Nat /\ <<>> \in Seq(Nat)
  BY EmptySeq DEF TypeOK
<1>2. inner \o ha \in Seq(Nat) /\ ha \o w \in Seq(Nat)
  BY <1>1, ConcatProperties
<1>3. CASE WaitIdle \/ WaitWord \/ LoadGap
  <2>1. ~rd_vld
    BY <1>3 DEF WaitIdle, WaitWord, LoadGap, Handshake
  <2> QED BY <1>3, <2>1
          DEF WaitIdle, WaitWord, LoadGap, engineVars, chain
<1>4. CASE FirstWord
  <2>1. rd_vld /\ w = <<>> /\ w' = Append(<<>>, rd_dat)
    BY <1>1, <1>4 DEF FirstWord, Blocks
  <2>2. chain' = inner \o ha \o Append(w, rd_dat)
    BY <1>4, <2>1 DEF FirstWord, chain
  <2> QED BY <1>1, <1>2, <2>1, <2>2, AppendLast DEF chain
<1>5. CASE LoadWord
  <2>1. rd_vld /\ chain' = inner \o ha \o Append(w, rd_dat)
    BY <1>5 DEF LoadWord, chain
  <2> QED BY <1>1, <1>2, <2>1, AppendLast DEF chain
<1>6. CASE Expand \/ Round \/ NextBlock \/ DoubleHash \/ Finish \/ Trapped
  <2>1. ~rd_vld
    BY <1>6 DEF Expand, Round, NextBlock, DoubleHash, Finish, Trapped, Handshake
  <2>2. CASE Expand \/ Round \/ Trapped
    BY <2>1, <2>2 DEF Expand, Round, Trapped, engineVars, chain
  <2>3. CASE NextBlock \/ Finish
    <3>1. chain' = inner \o (ha \o w) \o <<>>
      BY <2>3 DEF NextBlock, Finish, chain
    <3>2. inner \o (ha \o w) \o <<>> = inner \o (ha \o w)
      <4>1. inner \o (ha \o w) \in Seq(Nat)
        BY <1>1, <1>2, ConcatProperties
      <4> QED BY <4>1, ConcatEmptySeq, Zenon
    <3>3. (inner \o ha) \o w = inner \o (ha \o w)
      BY <1>1, Regroup
    <3>4. chain' = chain
      BY <3>1, <3>2, <3>3 DEF chain
    <3> QED BY <2>1, <3>4
  <2>4. CASE DoubleHash
    <3>1. inner = <<>> /\ chain' = (ha \o w) \o <<>> \o <<>>
      BY <2>4 DEF DoubleHash, Blocks, chain
    <3>2. (ha \o w) \o <<>> \o <<>> = ha \o w
      BY <1>2, ConcatEmptySeq
    <3>3. inner \o ha \o w = ha \o w
      BY <1>1, <3>1, ConcatEmptySeq
    <3>4. chain' = chain
      BY <3>1, <3>2, <3>3 DEF chain
    <3> QED BY <2>1, <3>4
  <2> QED BY <1>6, <2>2, <2>3, <2>4
<1> QED BY <1>3, <1>4, <1>5, <1>6 DEF EngineClock

LEMMA NextStream ==
  TypeOK /\ Blocks /\ Handshake /\ StreamIntact /\ [Next]_vars => StreamIntact'
<1> SUFFICES ASSUME TypeOK, Blocks, Handshake, StreamIntact, [Next]_vars
             PROVE  StreamIntact'
  OBVIOUS
<1>1. CASE Reset
  <2>1. chain' = <<>> /\ rd_ptr' = 0 /\ ~rd_vld'
    <3>1. <<>> \o <<>> \o <<>> = <<>>
      BY EmptySeq, ConcatEmptySeq
    <3> QED BY <1>1, <3>1 DEF Reset, NoInner, chain
  <2> QED BY <2>1, PositionsNone DEF StreamIntact, chain
<1>2. CASE Clock
  <2>1. rd_ptr \in Nat
    BY DEF TypeOK
  <2>2. rd_ptr' = IF rd_vld' THEN rd_ptr + 1 ELSE rd_ptr
    BY <1>2 DEF Clock, FifoClock
  <2>3. StreamIntact' <=> chain' = Positions(rd_ptr)
    BY <2>1, <2>2 DEF StreamIntact, chain
  <2>4. chain' = IF rd_vld THEN Append(chain, rd_dat) ELSE chain
    BY <1>2, ChainStep DEF Clock
  <2>5. CASE ~rd_vld
    BY <2>3, <2>4, <2>5 DEF StreamIntact, chain
  <2>6. CASE rd_vld
    <3>1. rd_ptr - 1 \in Nat /\ rd_dat = (rd_ptr - 1) + 1
      BY <2>1, <2>6 DEF Handshake
    <3>2. chain = Positions(rd_ptr - 1)
      BY <2>6 DEF StreamIntact, chain
    <3>3. Append(Positions(rd_ptr - 1), rd_dat) = Positions(rd_dat)
      BY <3>1, PositionsNext
    <3> QED BY <2>1, <2>3, <2>4, <2>6, <3>1, <3>2, <3>3
  <2> QED BY <2>5, <2>6
<1>3. CASE UNCHANGED vars
  BY <1>3 DEF vars, fifoVars, engineVars, StreamIntact
<1> QED BY <1>1, <1>2, <1>3 DEF Next

----------------------------------------------------------------------------
(* Whole blocks. *)
LEMMA Multiple ==
  ASSUME NEW n \in Nat, NEW B \in Nat, B > 0
  PROVE  (n * B) % B = 0
  BY SMTT(60)

LEMMA OneMore ==
  ASSUME NEW B \in Nat, B > 0, NEW a \in Nat, a % B = 0
  PROVE  (a + B) % B = 0
<1>1. PICK k \in Nat : a = k * B
  BY SMTT(60)
<1>2. a + B = (k + 1) * B /\ k + 1 \in Nat
  BY <1>1
<1>3. ((k + 1) * B) % B = 0
  BY <1>2, Multiple
<1> QED BY <1>2, <1>3

LEMMA NextWhole == TypeOK /\ Blocks /\ WholeBlocks /\ [Next]_vars => WholeBlocks'
<1> SUFFICES ASSUME TypeOK, Blocks, WholeBlocks, [Next]_vars PROVE WholeBlocks'
  OBVIOUS
<1>1. state' \in {"expand", "rounds"} => Len(w') \in {0, BlockWords}
  BY NextBlocks DEF Blocks
<1>2. BlockWords \in Nat /\ BlockWords > 0 /\ Len(<<>>) = 0 /\ 0 % BlockWords = 0
  BY EngineConstants
<1>3. w \in Seq(Nat) /\ ha \in Seq(Nat) /\ inner \in Seq(Nat)
  BY DEF TypeOK
<1>4. Len(ha') % BlockWords = 0 /\ Len(inner') % BlockWords = 0
  <2>1. CASE Reset
    BY <1>2, <2>1 DEF Reset, NoInner
  <2>2. CASE Clock
    <3>1. CASE NextBlock \/ DoubleHash \/ Finish
      <4>1. state = "rounds"
        BY <3>1 DEF NextBlock, DoubleHash, Finish
      <4>2. Len(ha \o w) = Len(ha) + Len(w) /\ Len(ha) \in Nat
        BY <1>3, ConcatProperties
      <4>3. Len(ha \o w) % BlockWords = 0
        <5>1. CASE Len(w) = 0
          BY <4>2, <5>1 DEF WholeBlocks
        <5>2. CASE Len(w) = BlockWords
          BY <1>2, <4>2, <5>2, OneMore DEF WholeBlocks
        <5> QED BY <4>1, <5>1, <5>2 DEF WholeBlocks
      <4>4. CASE NextBlock \/ Finish
        BY <4>3, <4>4 DEF NextBlock, Finish, WholeBlocks
      <4>5. CASE DoubleHash
        BY <1>2, <4>3, <4>5 DEF DoubleHash
      <4> QED BY <3>1, <4>4, <4>5
    <3>2. CASE UNCHANGED <<ha, inner>>
      BY <3>2 DEF WholeBlocks
    <3>3. CASE WaitIdle \/ WaitWord \/ FirstWord \/ LoadWord
      BY <3>2, <3>3 DEF WaitIdle, WaitWord, FirstWord, LoadWord
    <3>4. CASE LoadGap \/ Expand \/ Round \/ Trapped
      BY <3>2, <3>4 DEF LoadGap, Expand, Round, Trapped, engineVars
    <3> QED BY <2>2, <3>1, <3>3, <3>4 DEF Clock, EngineClock
  <2>3. CASE UNCHANGED vars
    BY <2>3 DEF vars, engineVars, WholeBlocks
  <2> QED BY <2>1, <2>2, <2>3 DEF Next
<1> QED BY <1>1, <1>4 DEF WholeBlocks

----------------------------------------------------------------------------
(* What a clock does to the synchroniser. *)
LEMMA SyncMoves ==
  ASSUME TypeOK, FifoClock
  PROVE  /\ wr_sync'[1] = wr_ptr
         /\ \A i \in 2..SyncLag : i - 1 \in 1..SyncLag /\ wr_sync'[i] = wr_sync[i - 1]
<1> QED BY EngineConstants DEF FifoClock

(* The pointers stay in order. *)
LEMMA NextInOrder ==
  TypeOK /\ NoOverflow /\ InOrder /\ [Next]_vars => NoOverflow' /\ InOrder'
<1> SUFFICES ASSUME TypeOK, NoOverflow, InOrder, [Next]_vars
             PROVE  NoOverflow' /\ InOrder'
  OBVIOUS
<1>0. SyncLag \in Nat /\ SyncLag > 0
  BY EngineConstants
<1>1. CASE Reset
  <2>1. job'.len \in Nat
    BY <1>1, JobIs DEF Reset
  <2>2. NoOverflow'
    BY <1>1, PositionsNone DEF Reset, NoOverflow
  <2> QED BY <1>1, <2>1, <2>2 DEF Reset, InOrder
<1>2. CASE Clock
  <2>1. /\ wr_ptr \in Nat /\ rd_ptr \in Nat /\ job' = job
        /\ \A i \in 1..SyncLag : wr_sync[i] \in Nat
    BY <1>2 DEF TypeOK, Clock
  <2>2. /\ wr_ptr <= wr_ptr' /\ wr_ptr' <= job.len
        /\ NoOverflow'
    BY <1>2, FeederKeeps DEF Clock, InOrder
  <2>3. wr_ptr' \in Nat
    BY <1>2, FeederKeeps DEF Clock, InOrder
  <2>4. /\ wr_sync'[1] = wr_ptr
        /\ \A i \in 2..SyncLag : i - 1 \in 1..SyncLag /\ wr_sync'[i] = wr_sync[i - 1]
    BY <1>2, SyncMoves DEF Clock
  <2>5. \A i \in 1..SyncLag : i = 1 \/ i \in 2..SyncLag
    BY <1>0
  <2>6. \A i \in 1..SyncLag : wr_sync'[i] <= wr_ptr'
    BY <2>1, <2>2, <2>3, <2>4, <2>5 DEF InOrder
  <2>7. SyncLag \in 1..SyncLag /\ wr_sync[SyncLag] <= wr_ptr
    BY <1>0 DEF InOrder
  <2>8. rd_ptr' \in Nat /\ rd_ptr' <= wr_sync[SyncLag]
    BY <1>2, <2>1, <2>7 DEF Clock, FifoClock, pop, fifo_empty, InOrder
  <2>9. \A i \in 1..SyncLag : rd_ptr' <= wr_sync'[i]
    <3>1. TAKE i \in 1..SyncLag
    <3>2. CASE i = 1
      BY <2>1, <2>4, <2>7, <2>8, <3>2
    <3>3. CASE i \in 2..SyncLag
      <4>1. wr_sync[SyncLag] <= wr_sync[i - 1]
        BY <1>0, <2>4, <2>7, <3>3 DEF InOrder
      <4> QED BY <2>1, <2>4, <2>7, <2>8, <3>3, <4>1
    <3> QED BY <2>5, <3>2, <3>3
  <2>10. ASSUME NEW i \in 1..SyncLag, NEW j \in 1..SyncLag, i <= j
         PROVE  wr_sync'[j] <= wr_sync'[i]
    <3>1. CASE i = 1 /\ j = 1
      BY <2>1, <2>4, <3>1
    <3>2. CASE i = 1 /\ j \in 2..SyncLag
      BY <2>1, <2>4, <3>2 DEF InOrder
    <3>3. CASE i \in 2..SyncLag /\ j \in 2..SyncLag
      <4>1. i - 1 <= j - 1
        BY <2>10
      <4> QED BY <2>4, <3>3, <4>1 DEF InOrder
    <3> QED BY <1>0, <2>10, <3>1, <3>2, <3>3
  <2> QED BY <2>1, <2>2, <2>6, <2>9, <2>10 DEF InOrder
<1>3. CASE UNCHANGED vars
  BY <1>3 DEF vars, feedVars, fifoVars, InOrder, NoOverflow
<1> QED BY <1>1, <1>2, <1>3 DEF Next

----------------------------------------------------------------------------
LEMMA InitIInv == Init => IInv
<1> SUFFICES ASSUME Init PROVE IInv
  OBVIOUS
<1>1. TypeOK
  BY InitTyped
<1>2. Handshake /\ Blocks
  BY DEF Init, NoInner, Handshake, Blocks
<1>3. StreamIntact
  <2>1. <<>> \o <<>> \o <<>> = <<>>
    BY EmptySeq, ConcatEmptySeq
  <2> QED BY <2>1, PositionsNone DEF Init, NoInner, StreamIntact
<1>4. WholeBlocks
  BY EngineConstants DEF Init, NoInner, WholeBlocks
<1>5. NoOverflow
  BY PositionsNone DEF Init, NoOverflow
<1>6. InOrder
  <2>1. job.len \in Nat
    BY JobIs DEF Init
  <2> QED BY <2>1 DEF Init, InOrder
<1> QED BY <1>1, <1>2, <1>3, <1>4, <1>5, <1>6 DEF IInv

LEMMA NextIInv == IInv /\ [Next]_vars => IInv'
  BY NextTyped, NextInOrder, NextHandshake, NextBlocks, NextStream, NextWhole DEF IInv

LEMMA Invariance == Spec => []IInv
  BY InitIInv, NextIInv, PTL DEF Spec

(* Every register of the accelerator keeps to its type; the counter of the
   state machine never leaves 0..Rounds. *)
THEOREM TypeCorrect == Spec => []TypeOK
<1>1. IInv => TypeOK
  BY DEF IInv
<1> QED BY Invariance, <1>1, PTL

(* Whatever the feeder does, no word is lost, doubled or reordered between
   the FIFO and the hash. *)
THEOREM StreamPreserved == Spec => []StreamIntact
<1>1. IInv => StreamIntact
  BY DEF IInv
<1> QED BY Invariance, <1>1, PTL

(* No short and no long block is ever compressed. *)
THEOREM BlocksWhole == Spec => []WholeBlocks
<1>1. IInv => WholeBlocks
  BY DEF IInv
<1> QED BY Invariance, <1>1, PTL

(* The FIFO never overflows, for any capacity that leaves room for the words
   that are written after the limit and for the lag of the fill level. *)
THEOREM FifoKeepsAll == Spec => []NoOverflow
<1>1. IInv => NoOverflow
  BY DEF IInv
<1> QED BY Invariance, <1>1, PTL

(* The engine never asks the FIFO for a word it has no place for: where a
   word can be on the FIFO's output, the state machine takes it. *)
THEOREM HandshakeKept == Spec => []Handshake
<1>1. IInv => Handshake
  BY DEF IInv
<1> QED BY Invariance, <1>1, PTL

----------------------------------------------------------------------------
(* The refinement of the abstract hash service.  What is published must be an
   answer in the sense of Answers: the digest of the whole message for the DMA
   and for a CPU that pushes at every clock, so that the engine must not take
   an empty FIFO for its end.

   For the DMA it does not if less than a block is still out of its sight, in the
   synchroniser or in the DMA engine, when the stretch of dma_in_progress is
   over.  In the hardware nothing is but the last word, if that: SyncLag is 2
   and Stretch is 7. *)
StretchCovers == (SyncLag - Stretch - 1) * Burst < BlockWords - 1

(* Clocks for which the DMA engine is known to have been idle. *)
Quiet == Stretch - dma_cnt + (IF dma_prog THEN 0 ELSE 1)

(* The DMA engine has all but one word behind it when it drops cmd_running,
   and the longer that is ago the further they got in the synchroniser. *)
Feeding ==
  job.mode = "dma" =>
    /\ dma_cnt > 0 => dma_prog
    /\ wr_ptr > 0 /\ running => dma_prog
    /\ wr_ptr > 0 /\ ~running => wr_ptr >= job.len - 1
    /\ \A i \in 1..SyncLag :
         /\ wr_ptr <= wr_sync[i] + i * Burst
         /\ wr_ptr > 0 /\ ~running =>
              /\ i <= Quiet => job.len - 1 <= wr_sync[i]
              /\ i > Quiet => job.len - 1 <= wr_sync[i] + (i - Quiet) * Burst

(* A CPU that pushes at every clock keeps ahead of the engine: a register of
   the synchroniser holds one word less than the one before it or the end of
   the message, so that what is seen grows with the rounds, which read none. *)
Before(i) == IF i = 1 THEN wr_ptr ELSE wr_sync[i - 1]
Ahead ==
  job.mode = "port" /\ ~job.stalls =>
    /\ \A i \in 1..SyncLag :
         wr_sync[i] > 0 => \/ Before(i) = wr_sync[i] + 1
                          \/ wr_sync[i] = job.len
    /\ state = "rounds" => \/ wr_sync[SyncLag] >= rd_ptr + loop
                           \/ wr_sync[SyncLag] = job.len

(* Which of the two hashes is being computed. *)
Passes ==
  /\ state = "wait" /\ ready => dbl_op = job.dbl
  /\ state # "wait" => rd_ptr > 0
  /\ dbl_op => job.dbl
  /\ ~job.dbl => inner = <<>>
  /\ state # "wait" /\ job.dbl /\ ~dbl_op =>
       /\ inner # <<>>
       /\ Uncut(job) => inner = Positions(job.len) /\ rd_ptr = job.len

(* What is published, and when. *)
Answered ==
  /\ valid <=> state = "done"
  /\ valid_d => valid
  /\ ~valid_d => hash_regs = NoDigest
  /\ valid => hash_o \in Answers(job, wr_ptr)

ServiceInv == IInv /\ Feeding /\ Ahead /\ Passes /\ Answered

----------------------------------------------------------------------------
(* Products of a larger factor are larger. *)
LEMMA Larger ==
  ASSUME NEW a \in Int, NEW b \in Int, a <= b, NEW n \in Nat
  PROVE  a * n <= b * n
<1>1. b - a \in Nat
  OBVIOUS
<1>2. (b - a) * n >= 0
  BY <1>1
<1>3. (b - a) * n = b * n - a * n
  BY SMT
<1> QED BY <1>2, <1>3

(* A multiple is a product. *)
LEMMA Factor ==
  ASSUME NEW B \in Nat, B > 0, NEW n \in Nat, n % B = 0
  PROVE  \E k \in Nat : n = k * B
BY SMTT(60)

(* A bound of so many bursts for each clock holds with more of them, and one
   clock later. *)
LEMMA MoreBursts ==
  ASSUME NEW l \in Nat, NEW x \in Nat, NEW i \in Int, NEW q \in Int, i > q, l - 1 <= x
  PROVE  l - 1 <= x + (i - q) * Burst
<1>1. (i - q) \in Nat /\ Burst \in Nat
  BY EngineConstants
<1>2. (i - q) * Burst \in Nat
  BY <1>1
<1> QED BY <1>2

LEMMA NextBurst ==
  ASSUME NEW l \in Nat, NEW x \in Nat, NEW i \in Int, NEW q \in Int, NEW p \in Int,
         p <= q + 1, i - 1 > q, l - 1 <= x + (i - 1 - q) * Burst
  PROVE  i > p /\ l - 1 <= x + (i - p) * Burst
<1>1. i - 1 - q \in Int /\ i - p \in Int /\ i - 1 - q <= i - p /\ Burst \in Nat
  BY EngineConstants
<1>2. (i - 1 - q) * Burst <= (i - p) * Burst
  BY <1>1, Larger
<1>3. (i - 1 - q) * Burst \in Int /\ (i - p) * Burst \in Int
  BY <1>1
<1> QED BY <1>2, <1>3

(* Two multiples that are less than a block apart are equal. *)
LEMMA SameBlock ==
  ASSUME NEW B \in Nat, B > 0, NEW a \in Nat, NEW b \in Nat,
         a % B = 0, b % B = 0, a <= b, b < a + B
  PROVE  a = b
<1>1. PICK k \in Nat : a = k * B
  BY Factor
<1>2. PICK l \in Nat : b = l * B
  BY Factor
<1>3. ASSUME l > k PROVE FALSE
  <2>1. (k + 1) * B <= l * B
    BY <1>3, Larger
  <2>2. (k + 1) * B = k * B + B
    OBVIOUS
  <2> QED BY <1>1, <1>2, <2>1, <2>2
<1>4. ASSUME l < k PROVE FALSE
  <2>1. (l + 1) * B <= k * B
    BY <1>4, Larger
  <2>2. (l + 1) * B = l * B + B
    OBVIOUS
  <2> QED BY <1>1, <1>2, <2>1, <2>2
<1> QED BY <1>1, <1>2, <1>3, <1>4

(* The words read so far, cut in two. *)
LEMMA Split ==
  ASSUME NEW s \in Seq(Nat), NEW t \in Seq(Nat), NEW k \in Nat,
         s \o t = Positions(k)
  PROVE  /\ Len(s) + Len(t) = k
         /\ s = Positions(Len(s))
         /\ t = [n \in 1..k - Len(s) |-> Len(s) + n]
<1>0. Len(Positions(k)) = k /\ Len(s \o t) = Len(s) + Len(t)
  BY PositionsNext, ConcatProperties
<1>1. Len(s) + Len(t) = k
  BY <1>0
<1>2. \A i \in 1..k : (s \o t)[i] = i
  BY DEF Positions
<1>3. Len(s) \in Nat /\ Len(t) \in Nat
  OBVIOUS
<1>4. s = Positions(Len(s))
  <2>1. \A i \in 1..Len(s) : s[i] = i
    BY <1>1, <1>2, <1>3
  <2>2. Positions(Len(s)) \in Seq(Nat) /\ Len(Positions(Len(s))) = Len(s)
    BY <1>3, PositionsNext
  <2>3. \A i \in 1..Len(s) : Positions(Len(s))[i] = i
    BY DEF Positions
  <2> QED BY <2>1, <2>2, <2>3, SeqEqual
<1>5. t = [n \in 1..k - Len(s) |-> Len(s) + n]
  <2> DEFINE r == [n \in 1..k - Len(s) |-> Len(s) + n]
  <2>1. k - Len(s) = Len(t)
    BY <1>1, <1>3
  <2>2. r \in Seq(Nat) /\ Len(r) = Len(t)
    BY <1>3, <2>1
  <2>3. ASSUME NEW i \in 1..Len(t) PROVE t[i] = r[i]
    <3>1. Len(s) + i \in 1..k /\ (s \o t)[Len(s) + i] = t[i]
      BY <1>1, <1>3
    <3> QED BY <1>2, <1>3, <2>1, <3>1
  <2> QED BY <2>2, <2>3, SeqEqual
<1> QED BY <1>1, <1>4, <1>5

----------------------------------------------------------------------------
(* Whole blocks and whole blocks are whole blocks. *)
LEMMA SumOfBlocks ==
  ASSUME NEW B \in Nat, B > 0, NEW a \in Nat, NEW b \in Nat, a % B = 0, b % B = 0
  PROVE  (a + b) % B = 0
<1>1. PICK k \in Nat : a = k * B
  BY Factor
<1>2. PICK l \in Nat : b = l * B
  BY Factor
<1>3. a + b = (k + l) * B /\ k + l \in Nat
  BY <1>1, <1>2
<1> QED BY <1>3, Multiple

(* The DMA engine: it starts once, before the first word, and stops within
   one word of the end of the message. *)
LEMMA DmaMoves ==
  ASSUME TypeOK, NoOverflow, InOrder, Feeding, job.mode = "dma", Feeder, StretchClock
  PROVE  /\ dma_cnt' > 0 => dma_prog'
         /\ wr_ptr' > 0 /\ running' => dma_prog'
         /\ wr_ptr' > 0 /\ ~running' => wr_ptr' >= job.len - 1
         /\ wr_ptr' > 0 /\ ~running => wr_ptr > 0 /\ ~running'
<1>0. wr_ptr = sent /\ wr_ptr' = sent'
  BY FeederKeeps DEF InOrder, NoOverflow
<1>1. wr_ptr \in Nat /\ job.len \in Nat /\ dma_cnt \in Nat /\ Stretch \in Nat
  BY <1>0, JobIs, EngineConstants DEF TypeOK
<1>2. dma_cnt' > 0 => dma_prog'
  <2>1. CASE running
    BY <2>1 DEF StretchClock
  <2>2. CASE ~running /\ dma_cnt > 0
    <3>1. dma_cnt # 0
      BY <1>1, <2>2
    <3>2. UNCHANGED dma_prog
      BY <2>2, <3>1, Zenon DEF StretchClock
    <3>3. dma_prog
      BY <2>2, Zenon DEF Feeding
    <3> QED BY <3>2, <3>3, Zenon
  <2>3. CASE ~running /\ dma_cnt = 0
    BY <2>3 DEF StretchClock
  <2> QED BY <1>1, <2>1, <2>2, <2>3
<1>3. running => dma_prog'
  BY DEF StretchClock
<1>4. ASSUME NEW n \in Nat, wr_ptr + n <= job.len, DmaWrites(n)
      PROVE  /\ wr_ptr' = wr_ptr + n
             /\ running /\ ~running' => wr_ptr' >= job.len - 1
             /\ ~running => ~running'
  <2>1. wr_ptr' = wr_ptr + n
    BY <1>0, <1>4 DEF DmaWrites, Write
  <2>2. \/ wr_ptr' = job.len /\ running' = FALSE
        \/ wr_ptr' = job.len - 1 /\ running' \in {running, FALSE}
        \/ running' = running
    BY <1>0, <1>4, Zenon DEF DmaWrites
  <2>3. ASSUME wr_ptr' \in {job.len - 1, job.len} PROVE wr_ptr' >= job.len - 1
    BY <1>1, <2>3
  <2>4. CASE running' = running
    BY <2>1, <2>4, Zenon
  <2>5. CASE wr_ptr' = job.len /\ running' = FALSE
    BY <2>1, <2>3, <2>5
  <2>6. CASE wr_ptr' = job.len - 1 /\ running' \in {running, FALSE}
    <3>1. wr_ptr' >= job.len - 1
      BY <2>3, <2>6
    <3>2. ~running => ~running'
      BY <2>6, Zenon
    <3> QED BY <2>1, <3>1, <3>2, Zenon
  <2> QED BY <2>2, <2>4, <2>5, <2>6, Zenon
<1>5. CASE DmaIdle
  <2>1. ~running /\ wr_ptr' = 0
    BY <1>0, <1>5, Zenon DEF DmaIdle
  <2>2. ~(wr_ptr' > 0)
    BY <2>1
  <2> QED BY <1>2, <2>2
<1>6. CASE DmaTransfer
  <2>1. PICK n \in 0..Burst : wr_ptr + n <= job.len /\ DmaWrites(n)
    BY <1>0, <1>6 DEF DmaTransfer
  <2>2. n \in Nat /\ running
    BY <1>6, EngineConstants DEF DmaTransfer
  <2> QED BY <1>2, <1>3, <1>4, <2>1, <2>2
<1>7. CASE DmaTail
  <2>1. PICK n \in 0..1 : DmaWrites(n)
    BY <1>7 DEF DmaTail
  <2>2. n \in Nat /\ ~running /\ wr_ptr \in 1..job.len - 1
    BY <1>0, <1>7 DEF DmaTail
  <2>3. wr_ptr + n <= job.len /\ wr_ptr > 0
    BY <1>1, <2>1, <2>2
  <2>4. wr_ptr' = wr_ptr + n /\ ~running'
    BY <1>4, <2>1, <2>2, <2>3
  <2>5. wr_ptr >= job.len - 1
    BY <2>2, <2>3 DEF Feeding
  <2> QED BY <1>1, <1>2, <2>2, <2>3, <2>4, <2>5
<1>8. CASE DmaDone
  <2>1. ~running /\ wr_ptr' = wr_ptr /\ running' = running /\ wr_ptr = job.len
    BY <1>0, <1>8 DEF DmaDone
  <2> QED BY <1>1, <1>2, <2>1
<1>9. ~CpuPush /\ ~CpuElsewhere
  BY DEF CpuPush, CpuElsewhere
<1> QED BY <1>5, <1>6, <1>7, <1>8, <1>9 DEF Feeder

(* The longer the DMA engine is quiet, the more clocks are counted. *)
LEMMA QuietMoves ==
  ASSUME TypeOK, dma_cnt > 0 => dma_prog, StretchClock
  PROVE  /\ Quiet \in Int /\ Quiet' \in Int
         /\ running => Quiet' = 0
         /\ ~running => Quiet' <= Quiet + 1
<1>1. dma_cnt \in Nat /\ Stretch \in Nat
  BY EngineConstants DEF TypeOK
<1>2. CASE running
  <2>1. dma_prog' /\ dma_cnt' = Stretch
    BY <1>2 DEF StretchClock
  <2>2. Quiet' = 0
    BY <1>1, <2>1 DEF Quiet
  <2> QED BY <1>1, <1>2, <2>2 DEF Quiet
<1>3. CASE ~running /\ dma_cnt > 0
  <2>1. dma_cnt # 0
    BY <1>1, <1>3
  <2>2. dma_prog' = dma_prog /\ dma_cnt' = dma_cnt - 1
    BY <1>3, <2>1, Zenon DEF StretchClock
  <2> QED BY <1>1, <1>3, <2>2 DEF Quiet
<1>4. CASE ~running /\ dma_cnt = 0
  <2>1. ~dma_prog' /\ dma_cnt' = 0
    BY <1>4 DEF StretchClock
  <2> QED BY <1>1, <1>4, <2>1 DEF Quiet
<1> QED BY <1>1, <1>2, <1>3, <1>4

(* Feeding is kept: what was true of one register of the synchroniser is true
   of the one after it a clock later. *)
LEMMA NextFeeding ==
  TypeOK /\ NoOverflow /\ InOrder /\ Feeding /\ [Next]_vars => Feeding'
<1> SUFFICES ASSUME TypeOK, NoOverflow, InOrder, Feeding, [Next]_vars PROVE Feeding'
  OBVIOUS
<1>0. SyncLag \in Nat /\ SyncLag > 0 /\ Burst \in Nat /\ Burst > 0
  BY EngineConstants
<1>1. CASE Reset
  <2>1. \A i \in 1..SyncLag : wr_ptr' <= wr_sync'[i] + i * Burst
    <3>1. TAKE i \in 1..SyncLag
    <3>2. i * Burst \in Nat
      BY <1>0
    <3>3. wr_ptr' = 0 /\ wr_sync'[i] = 0
      BY <1>1 DEF Reset
    <3> QED BY <3>2, <3>3
  <2> QED BY <1>1, <2>1 DEF Reset, Feeding
<1>2. CASE Clock /\ job.mode = "dma"
  <2>1. /\ wr_ptr \in Nat /\ job' = job /\ job.len \in Nat
        /\ \A i \in 1..SyncLag : wr_sync[i] \in Nat
    BY <1>2, JobIs DEF TypeOK, Clock
  <2>2. wr_ptr' \in Nat /\ wr_ptr' <= wr_ptr + Burst
    BY <1>2, FeederKeeps DEF Clock, InOrder
  <2>3. /\ wr_sync'[1] = wr_ptr
        /\ \A i \in 2..SyncLag : i - 1 \in 1..SyncLag /\ wr_sync'[i] = wr_sync[i - 1]
    BY <1>2, SyncMoves DEF Clock
  <2>4. /\ dma_cnt' > 0 => dma_prog'
        /\ wr_ptr' > 0 /\ running' => dma_prog'
        /\ wr_ptr' > 0 /\ ~running' => wr_ptr' >= job.len - 1
        /\ wr_ptr' > 0 /\ ~running => wr_ptr > 0 /\ ~running'
    BY <1>2, DmaMoves DEF Clock
  <2>5. /\ Quiet \in Int /\ Quiet' \in Int
        /\ running => Quiet' = 0
        /\ ~running => Quiet' <= Quiet + 1
    BY <1>2, QuietMoves DEF Clock, Feeding
  <2>6. ASSUME NEW i \in 1..SyncLag
        PROVE  /\ wr_sync'[i] \in Nat
               /\ wr_ptr' <= wr_sync'[i] + i * Burst
    <3>1. CASE i = 1
      <4>1. i * Burst = Burst
        BY <1>0, <3>1
      <4> QED BY <1>0, <2>1, <2>2, <2>3, <3>1, <4>1
    <3>2. CASE i \in 2..SyncLag
      <4>1. i * Burst = (i - 1) * Burst + Burst
        BY <1>0, SMT
      <4>2. (i - 1) * Burst \in Nat
        BY <1>0, <3>2
      <4>3. wr_ptr <= wr_sync[i - 1] + (i - 1) * Burst
        BY <1>2, <2>3, <3>2 DEF Feeding
      <4>4. wr_sync'[i] = wr_sync[i - 1] /\ wr_sync[i - 1] \in Nat
        BY <2>1, <2>3, <3>2
      <4> QED BY <1>0, <2>1, <2>2, <4>1, <4>2, <4>3, <4>4
    <3> QED BY <1>0, <3>1, <3>2
  <2>7. ASSUME NEW i \in 1..SyncLag, wr_ptr' > 0, ~running'
        PROVE  /\ i <= Quiet' => job.len - 1 <= wr_sync'[i]
               /\ i > Quiet' => job.len - 1 <= wr_sync'[i] + (i - Quiet') * Burst
    <3>0. i \in Int
      BY <1>0
    <3>1. CASE running
      <4>1. ~(i <= Quiet') /\ i - Quiet' = i
        BY <2>5, <3>1
      <4>2. i * Burst \in Nat
        BY <1>0
      <4>3. job.len - 1 <= wr_sync'[i] + i * Burst
        BY <2>1, <2>2, <2>4, <2>6, <2>7, <4>2
      <4> QED BY <4>1, <4>3
    <3>2. CASE ~running
      <4>1. wr_ptr > 0 /\ job.len - 1 <= wr_ptr
        BY <1>2, <2>1, <2>4, <2>7, <3>2 DEF Feeding
      <4>2. ASSUME job.len - 1 <= wr_sync'[i] 
            PROVE  i > Quiet' => job.len - 1 <= wr_sync'[i] + (i - Quiet') * Burst
        BY <2>1, <2>5, <2>6, <3>0, <4>2, MoreBursts
      <4>3. CASE i = 1
        <5>1. job.len - 1 <= wr_sync'[i]
          BY <2>3, <4>1, <4>3
        <5> QED BY <4>2, <5>1
      <4>4. CASE i \in 2..SyncLag /\ i - 1 <= Quiet
        <5>1. job.len - 1 <= wr_sync[i - 1]
          BY <1>2, <2>3, <3>2, <4>1, <4>4 DEF Feeding
        <5>2. job.len - 1 <= wr_sync'[i]
          BY <2>3, <4>4, <5>1
        <5> QED BY <4>2, <5>2
      <4>5. CASE i \in 2..SyncLag /\ i - 1 > Quiet
        <5>1. job.len - 1 <= wr_sync[i - 1] + (i - 1 - Quiet) * Burst
          BY <1>2, <2>3, <3>2, <4>1, <4>5 DEF Feeding
        <5>2. wr_sync'[i] = wr_sync[i - 1] /\ wr_sync[i - 1] \in Nat
          BY <2>1, <2>3, <4>5
        <5>3. i > Quiet' /\ job.len - 1 <= wr_sync'[i] + (i - Quiet') * Burst
          <6>1. PICK p, q \in Int : q = Quiet /\ p = Quiet'
            BY <2>5
          <6>2. p <= q + 1
            BY <2>5, <3>2, <6>1
          <6>3. i - 1 > q /\ job.len - 1 <= wr_sync'[i] + (i - 1 - q) * Burst
            BY <4>5, <5>1, <5>2, <6>1
          <6>4. i > p /\ job.len - 1 <= wr_sync'[i] + (i - p) * Burst
            BY <2>1, <2>6, <3>0, <6>2, <6>3, NextBurst
          <6> QED BY <6>1, <6>4
        <5>4. ~(i <= Quiet')
          BY <2>5, <3>0, <5>3
        <5> QED BY <5>3, <5>4
      <4> QED BY <1>0, <2>5, <4>3, <4>4, <4>5
    <3> QED BY <3>1, <3>2
  <2> QED BY <2>1, <2>4, <2>6, <2>7 DEF Feeding
<1>3. CASE Clock /\ job.mode # "dma"
  <2>1. job' = job
    BY <1>3 DEF Clock
  <2> QED BY <1>3, <2>1 DEF Feeding
<1>4. CASE UNCHANGED vars
  BY <1>4 DEF vars, feedVars, fifoVars, Feeding, Quiet
<1> QED BY <1>1, <1>2, <1>3, <1>4 DEF Next

(* A FIFO found empty after a whole block, with no DMA in progress, is empty
   because all of the message was read. *)
LEMMA AllFed ==
  ASSUME StretchCovers, TypeOK, InOrder, Feeding, job.mode = "dma",
         rd_ptr > 0, rd_ptr % BlockWords = 0, ~MoreToCome
  PROVE  rd_ptr = job.len /\ wr_ptr = job.len
<1>1. /\ SyncLag \in Nat /\ SyncLag > 0 /\ Burst \in Nat
      /\ BlockWords \in Nat /\ BlockWords > 0 /\ Stretch \in Nat
  BY EngineConstants
<1>2. /\ wr_ptr \in Nat /\ rd_ptr \in Nat /\ job.len \in Nat /\ dma_cnt \in Nat
      /\ job.len % BlockWords = 0
  BY JobIs, EngineConstants DEF TypeOK
<1>3. SyncLag \in 1..SyncLag
  BY <1>1
<1>4. /\ rd_ptr = wr_sync[SyncLag] /\ rd_ptr <= wr_ptr /\ wr_ptr <= job.len
  BY <1>3 DEF MoreToCome, fifo_empty, InOrder
<1>5. wr_ptr > 0
  BY <1>2, <1>4
<1>6. ~dma_prog /\ dma_cnt = 0 /\ ~running
  BY <1>2, <1>5 DEF MoreToCome, Feeding
<1>7. Quiet = Stretch + 1
  BY <1>1, <1>6 DEF Quiet
<1>8. job.len < rd_ptr + BlockWords
  <2>1. CASE SyncLag <= Stretch + 1
    <3>1. job.len - 1 <= rd_ptr
      BY <1>3, <1>4, <1>5, <1>6, <1>7, <2>1 DEF Feeding
    <3>2. BlockWords >= 3
      BY EngineConstants
    <3> QED BY <1>1, <1>2, <3>1, <3>2
  <2>2. CASE SyncLag > Stretch + 1
    <3>1. job.len - 1 <= rd_ptr + (SyncLag - (Stretch + 1)) * Burst
      BY <1>3, <1>4, <1>5, <1>6, <1>7, <2>2 DEF Feeding
    <3>2. SyncLag - (Stretch + 1) = SyncLag - Stretch - 1
      BY <1>1
    <3>3. (SyncLag - Stretch - 1) * Burst \in Int
      BY <1>1
    <3>4. job.len - 1 <= rd_ptr + (SyncLag - Stretch - 1) * Burst
      BY <3>1, <3>2
    <3> QED BY <1>1, <1>2, <3>3, <3>4 DEF StretchCovers
  <2> QED BY <1>1, <2>1, <2>2
<1>9. rd_ptr = job.len
  <2>1. rd_ptr <= job.len /\ rd_ptr % BlockWords = 0
    BY <1>2, <1>4
  <2> QED BY <1>1, <1>2, <1>8, <2>1, SameBlock, Zenon
<1> QED BY <1>2, <1>4, <1>9

(* Nor does the FIFO run empty at the end of a compression before the end of
   a message that is pushed at every clock. *)
LEMMA NextAhead ==
  IInv /\ Ahead /\ Passes /\ [Next]_vars => Ahead'
<1> SUFFICES ASSUME IInv, Ahead, Passes, [Next]_vars PROVE Ahead'
  OBVIOUS
<1>0. SyncLag \in Nat /\ SyncLag > 0 /\ SyncLag \in 1..SyncLag
  BY EngineConstants
<1>1. CASE Reset
  <2>1. \A i \in 1..SyncLag : wr_sync'[i] = 0
    BY <1>1 DEF Reset
  <2>2. state' = "wait"
    BY <1>1 DEF Reset
  <2> QED BY <2>1, <2>2 DEF Ahead
<1>2. CASE Clock /\ job.mode = "port" /\ ~job.stalls
  <2>1. /\ wr_ptr \in Nat /\ rd_ptr \in Nat /\ loop \in Nat /\ job' = job
        /\ job.len \in Nat /\ wr_ptr <= job.len
        /\ \A i \in 1..SyncLag : wr_sync[i] \in Nat
    <3>1. TypeOK /\ wr_ptr <= job.len /\ job' = job
      BY <1>2 DEF IInv, InOrder, Clock
    <3>2. job.len \in Nat /\ loop \in Nat
      BY <3>1, JobIs, EngineConstants DEF TypeOK
    <3> QED BY <3>1, <3>2 DEF TypeOK
  <2>2. /\ wr_sync'[1] = wr_ptr
        /\ \A i \in 2..SyncLag : i - 1 \in 1..SyncLag /\ wr_sync'[i] = wr_sync[i - 1]
    BY <1>2, SyncMoves DEF Clock, IInv
  <2>3. wr_ptr' = wr_ptr + 1 \/ wr_ptr = job.len
    <3>1. sent = wr_ptr /\ sent' = wr_ptr'
      BY <1>2, FeederKeeps DEF Clock, IInv, InOrder, NoOverflow
    <3>2. Feeder
      BY <1>2 DEF Clock
    <3>3. CASE CpuPush
      BY <3>1, <3>3 DEF CpuPush, Write
    <3>4. CASE CpuElsewhere
      BY <1>2, <2>1, <3>1, <3>4 DEF CpuElsewhere
    <3>5. ~DmaIdle /\ ~DmaTransfer /\ ~DmaTail /\ ~DmaDone
      BY <1>2 DEF DmaIdle, DmaTransfer, DmaTail, DmaDone
    <3> QED BY <3>2, <3>3, <3>4, <3>5 DEF Feeder
  <2>4. ASSUME NEW i \in 1..SyncLag, wr_sync'[i] > 0
        PROVE  \/ (IF i = 1 THEN wr_ptr' ELSE wr_sync'[i - 1]) = wr_sync'[i] + 1
               \/ wr_sync'[i] = job.len
    <3>1. CASE i = 1
      BY <2>2, <2>3, <3>1
    <3>2. CASE i \in 2..SyncLag
      <4>1. i - 1 \in 1..SyncLag /\ wr_sync'[i] = wr_sync[i - 1] /\ i # 1
        BY <2>2, <3>2
      <4>2. \/ (IF i - 1 = 1 THEN wr_ptr ELSE wr_sync[i - 1 - 1]) = wr_sync[i - 1] + 1
            \/ wr_sync[i - 1] = job.len
        BY <1>2, <2>4, <4>1 DEF Ahead, Before
      <4>3. wr_sync'[i - 1] = IF i - 1 = 1 THEN wr_ptr ELSE wr_sync[i - 1 - 1]
        <5>1. CASE i - 1 = 1
          BY <2>2, <5>1
        <5>2. CASE i - 1 # 1
          <6>1. i - 1 \in 2..SyncLag
            BY <1>0, <4>1, <5>2
          <6> QED BY <2>2, <5>2, <6>1
        <5> QED BY <5>1, <5>2
      <4> QED BY <4>1, <4>2, <4>3
    <3> QED BY <1>0, <3>1, <3>2
  <2>5. ASSUME state' = "rounds"
        PROVE  \/ wr_sync'[SyncLag] >= rd_ptr' + loop'
               \/ wr_sync'[SyncLag] = job.len
    <3>1. state \in {"expand", "rounds"}
      BY <1>2, <2>5 DEF Clock, EngineClock, WaitIdle, WaitWord, FirstWord, LoadWord,
           LoadGap, Expand, Round, NextBlock, DoubleHash, Finish, Trapped, engineVars
    <3>2. ~rd_en
      BY <3>1 DEF IInv, Handshake
    <3>3. rd_ptr' = rd_ptr
      BY <1>2, <3>2 DEF Clock, FifoClock, pop
    <3>4. rd_ptr > 0 /\ rd_ptr <= wr_sync[SyncLag]
      BY <1>0, <3>1 DEF Passes, IInv, InOrder
    <3>5. /\ wr_sync'[SyncLag] \in Nat
          /\ \/ wr_sync'[SyncLag] = wr_sync[SyncLag] + 1
             \/ wr_sync[SyncLag] = job.len
          /\ wr_sync'[SyncLag] = Before(SyncLag)
      <4>1. wr_sync[SyncLag] > 0
        BY <1>0, <2>1, <3>4
      <4>2. wr_sync'[SyncLag] = Before(SyncLag)
        BY <1>0, <2>2 DEF Before
      <4>3. Before(SyncLag) \in Nat
        BY <1>0, <2>1, <2>2 DEF Before
      <4> QED BY <1>0, <1>2, <4>1, <4>2, <4>3 DEF Ahead
    <3>6. wr_sync[SyncLag] = job.len => wr_sync'[SyncLag] = job.len
      <4>1. wr_sync[SyncLag] <= Before(SyncLag) /\ Before(SyncLag) <= job.len
        <5>1. CASE SyncLag = 1
          BY <1>0, <2>1, <5>1 DEF Before, IInv, InOrder
        <5>2. CASE SyncLag # 1
          <6>1. SyncLag - 1 \in 1..SyncLag
            BY <1>0, <5>2
          <6>2. wr_sync[SyncLag] <= wr_sync[SyncLag - 1] /\ wr_sync[SyncLag - 1] <= wr_ptr
            BY <1>0, <6>1 DEF IInv, InOrder
          <6> QED BY <1>0, <2>1, <5>2, <6>1, <6>2 DEF Before
        <5> QED BY <5>1, <5>2
      <4> QED BY <1>0, <2>1, <3>5, <4>1
    <3>7. CASE state = "expand"
      <4>1. loop' = 0
        BY <1>2, <2>5, <3>7 DEF Clock, EngineClock, WaitIdle, WaitWord, FirstWord,
             LoadWord, LoadGap, Expand, Round, NextBlock, DoubleHash, Finish, Trapped
      <4> QED BY <1>0, <2>1, <3>3, <3>4, <3>5, <3>6, <4>1
    <3>8. CASE state = "rounds"
      <4>1. loop' = loop + 1
        BY <1>2, <2>5, <3>8 DEF Clock, EngineClock, WaitIdle, WaitWord, FirstWord,
             LoadWord, LoadGap, Expand, Round, NextBlock, DoubleHash, Finish, Trapped
      <4>2. wr_sync[SyncLag] >= rd_ptr + loop \/ wr_sync[SyncLag] = job.len
        BY <1>2, <3>8 DEF Ahead
      <4> QED BY <1>0, <2>1, <3>3, <3>5, <3>6, <4>1, <4>2
    <3> QED BY <3>1, <3>7, <3>8
  <2> QED BY <2>1, <2>4, <2>5 DEF Ahead, Before
<1>3. CASE Clock /\ ~(job.mode = "port" /\ ~job.stalls)
  <2>1. job' = job
    BY <1>3 DEF Clock
  <2> QED BY <1>3, <2>1 DEF Ahead
<1>4. CASE UNCHANGED vars
  BY <1>4 DEF vars, feedVars, fifoVars, engineVars, Ahead, Before
<1> QED BY <1>1, <1>2, <1>3, <1>4 DEF Next

(* So the end of the last round finds the FIFO empty only when all of the
   message was read, however it is fed, unless by a CPU that pauses. *)
LEMMA AllRead ==
  ASSUME StretchCovers, IInv, Feeding, Ahead, Uncut(job), state = "rounds",
         loop = Rounds, rd_ptr > 0, rd_ptr % BlockWords = 0, ~MoreToCome
  PROVE  rd_ptr = job.len /\ wr_ptr = job.len
<1>1. job.mode \in {"dma", "port"} /\ job.len \in Nat /\ job.stalls \in BOOLEAN
  BY JobIs DEF IInv, TypeOK
<1>2. CASE job.mode = "dma"
  BY <1>2, AllFed DEF IInv
<1>3. CASE job.mode = "port"
  <2>1. ~job.stalls
    BY <1>3 DEF Uncut
  <2>2. SyncLag \in 1..SyncLag /\ Rounds \in Nat /\ Rounds > 0
    BY EngineConstants
  <2>3. /\ rd_ptr \in Nat /\ wr_ptr \in Nat /\ wr_sync[SyncLag] \in Nat
        /\ wr_sync[SyncLag] <= wr_ptr /\ wr_ptr <= job.len
    BY <2>2 DEF IInv, TypeOK, InOrder
  <2>4. rd_ptr = wr_sync[SyncLag]
    BY DEF MoreToCome, fifo_empty
  <2>5. wr_sync[SyncLag] = job.len
    BY <1>3, <2>1, <2>2, <2>3, <2>4 DEF Ahead
  <2> QED BY <1>1, <2>3, <2>4, <2>5
<1> QED BY <1>1, <1>2, <1>3

(* At the end of a compression the words covered are those before the cut
   and those after it, whole blocks of each. *)
LEMMA AtEnd ==
  ASSUME IInv, state = "rounds", rd_ptr > 0
  PROVE  /\ ha \o w \in Seq(Nat) /\ inner \in Seq(Nat)
         /\ inner = Positions(Len(inner))
         /\ ha \o w = [n \in 1..rd_ptr - Len(inner) |-> Len(inner) + n]
         /\ Len(inner) + Len(ha \o w) = rd_ptr
         /\ Len(inner) % BlockWords = 0 /\ rd_ptr % BlockWords = 0
<1>1. /\ w \in Seq(Nat) /\ ha \in Seq(Nat) /\ inner \in Seq(Nat) /\ rd_ptr \in Nat
      /\ BlockWords \in Nat /\ BlockWords > 0
  BY EngineConstants DEF IInv, TypeOK
<1>2. ha \o w \in Seq(Nat) /\ Len(ha \o w) = Len(ha) + Len(w)
  BY <1>1, ConcatProperties
<1>3. ~rd_vld
  BY DEF IInv, Handshake
<1>4. inner \o (ha \o w) = Positions(rd_ptr)
  <2>1. (inner \o ha) \o w = Positions(rd_ptr)
    BY <1>3 DEF IInv, StreamIntact
  <2>2. (inner \o ha) \o w = inner \o (ha \o w)
    BY <1>1, Regroup
  <2> QED BY <2>1, <2>2
<1>5. /\ Len(inner) + Len(ha \o w) = rd_ptr
      /\ inner = Positions(Len(inner))
      /\ ha \o w = [n \in 1..rd_ptr - Len(inner) |-> Len(inner) + n]
  BY <1>1, <1>2, <1>4, Split, Zenon
<1>6. /\ Len(inner) % BlockWords = 0 /\ Len(ha) % BlockWords = 0
      /\ Len(w) \in {0, BlockWords}
  BY DEF IInv, WholeBlocks
<1>7. (Len(ha) + Len(w)) % BlockWords = 0
  <2>1. Len(ha) \in Nat
    BY <1>1
  <2>2. CASE Len(w) = 0
    BY <1>6, <2>1, <2>2
  <2>3. CASE Len(w) = BlockWords
    BY <1>1, <1>6, <2>1, <2>3, OneMore
  <2> QED BY <1>6, <2>2, <2>3
<1>8. rd_ptr % BlockWords = 0
  <2>1. Len(inner) \in Nat /\ Len(ha) + Len(w) \in Nat
    BY <1>1
  <2>2. rd_ptr = Len(inner) + (Len(ha) + Len(w))
    BY <1>2, <1>5
  <2>3. (Len(inner) + (Len(ha) + Len(w))) % BlockWords = 0
    BY <1>1, <1>6, <1>7, <2>1, SumOfBlocks
  <2> QED BY <2>2, <2>3
<1> QED BY <1>1, <1>2, <1>5, <1>6, <1>8

(* The two hashes: between them, and after the first, the engine needs to know
   that all words of a DMA were read. *)
LEMMA NextPasses ==
  ASSUME StretchCovers
  PROVE  IInv /\ Feeding /\ Ahead /\ Passes /\ [Next]_vars => Passes'
<1> SUFFICES ASSUME IInv, Feeding, Ahead, Passes, [Next]_vars PROVE Passes'
  OBVIOUS
<1>1. CASE Reset
  BY <1>1 DEF Reset, NoInner, Passes
<1>2. CASE Clock
  <2>1. /\ job' = job /\ rd_ptr \in Nat /\ job.dbl \in BOOLEAN /\ dbl_op \in BOOLEAN
        /\ job.len \in Nat
    BY <1>2, JobIs DEF Clock, IInv, TypeOK
  <2>2. rd_ptr' = IF pop THEN rd_ptr + 1 ELSE rd_ptr
    BY <1>2 DEF Clock, FifoClock
  <2>3. rd_ptr > 0 => rd_ptr' > 0
    BY <2>1, <2>2
  <2>4. state # "wait" /\ job.dbl /\ ~dbl_op /\ Uncut(job) => rd_ptr' = rd_ptr
    <3>1. SUFFICES ASSUME state # "wait", job.dbl, ~dbl_op, Uncut(job)
                   PROVE  ~pop
      BY <2>2
    <3>2. rd_ptr = job.len
      BY <3>1 DEF Passes
    <3>3. SyncLag \in 1..SyncLag
      BY EngineConstants
    <3>4. rd_ptr <= wr_sync[SyncLag] /\ wr_sync[SyncLag] <= job.len /\ wr_sync[SyncLag] \in Nat
      <4>1. wr_ptr \in Nat /\ wr_sync[SyncLag] \in Nat
        BY <3>3 DEF IInv, TypeOK
      <4> QED BY <2>1, <3>3, <4>1 DEF IInv, InOrder
    <3>5. fifo_empty
      BY <2>1, <3>2, <3>4 DEF fifo_empty
    <3> QED BY <3>5 DEF pop
  <2>5. CASE WaitIdle
    BY <2>1, <2>5 DEF WaitIdle, Passes
  <2>6. CASE WaitWord
    BY <2>1, <2>6 DEF WaitWord, Passes
  <2>7. CASE FirstWord
    <3>1. ready /\ rd_ptr > 0
      BY <2>7 DEF FirstWord, IInv, Handshake
    <3>2. dbl_op' = job.dbl /\ inner' = inner /\ state' = "load"
      BY <2>7, <3>1 DEF FirstWord, Passes
    <3> QED BY <2>1, <2>3, <3>1, <3>2 DEF Passes
  <2>8. CASE LoadWord \/ LoadGap \/ Expand \/ Round \/ NextBlock \/ Finish \/ Trapped
    <3>1. state # "wait" /\ state' # "wait" /\ dbl_op' = dbl_op /\ inner' = inner
      BY <2>8 DEF LoadWord, LoadGap, Expand, Round, NextBlock, Finish, Trapped, engineVars
    <3> QED BY <2>1, <2>3, <2>4, <3>1 DEF Passes
  <2>9. CASE DoubleHash
    <3>1. /\ state = "rounds" /\ state' = "expand" /\ ~dbl_op' /\ dbl_op /\ ~MoreToCome
          /\ inner' = ha \o w /\ loop = Rounds
      BY <2>9 DEF DoubleHash
    <3>2. rd_ptr > 0 /\ job.dbl /\ inner = <<>>
      BY <3>1 DEF Passes, IInv, Blocks
    <3>3. Len(inner) = 0
      BY <3>2
    <3>4. /\ ha \o w \in Seq(Nat) /\ Len(ha \o w) = rd_ptr /\ rd_ptr % BlockWords = 0
          /\ ha \o w = [n \in 1..rd_ptr - 0 |-> 0 + n]
      BY <2>1, <3>1, <3>2, <3>3, AtEnd
    <3>5. inner' # <<>>
      <4>1. Len(<<>>) = 0 /\ Len(ha \o w) # 0
        BY <2>1, <3>2, <3>4
      <4> QED BY <3>1, <4>1, Zenon
    <3>6. inner' = Positions(rd_ptr)
      BY <2>1, <3>1, <3>4 DEF Positions
    <3>7. ~rd_en
      BY <3>1 DEF IInv, Handshake
    <3>8. rd_ptr' = rd_ptr
      BY <2>2, <3>7 DEF pop
    <3>9. Uncut(job) => rd_ptr = job.len
      BY <3>1, <3>2, <3>4, AllRead
    <3> QED BY <2>1, <3>1, <3>2, <3>5, <3>6, <3>8, <3>9 DEF Passes
  <2> QED BY <1>2, <2>5, <2>6, <2>7, <2>8, <2>9 DEF Clock, EngineClock
<1>3. CASE UNCHANGED vars
  BY <1>3 DEF vars, feedVars, fifoVars, engineVars, Passes
<1> QED BY <1>1, <1>2, <1>3 DEF Next

(* The digest of two messages, one after the other, that end after i and
   after l words. *)
Cut(i, l) == [inner |-> Positions(i), words |-> [n \in 1..l - i |-> i + n]]

(* The answers of the port are the cuts. *)
LEMMA CutsAre ==
  ASSUME NEW j, NEW k, NEW d
  PROVE  d \in Cuts(j, k) <=>
           \E i \in (IF j.dbl THEN Wholes(k) ELSE {0}), l \in Wholes(k) : d = Cut(i, l)
BY DEF Cuts, Cut

(* What the engine has in hash_o when it finishes is an answer. *)
LEMMA FinishAnswers ==
  ASSUME StretchCovers, IInv, Feeding, Ahead, Passes,
         state = "rounds", loop = Rounds, ~MoreToCome, ~dbl_op
  PROVE  [inner |-> inner, words |-> ha \o w] \in Answers(job, wr_ptr)
<1>1. /\ wr_ptr \in Nat /\ rd_ptr \in Nat /\ job.len \in Nat /\ job.mode \in {"dma", "port"}
      /\ job.dbl \in BOOLEAN
  BY JobIs DEF IInv, TypeOK
<1>2. rd_ptr > 0
  BY DEF Passes
<1>3. /\ ha \o w \in Seq(Nat) /\ inner \in Seq(Nat)
      /\ inner = Positions(Len(inner))
      /\ ha \o w = [n \in 1..rd_ptr - Len(inner) |-> Len(inner) + n]
      /\ Len(inner) + Len(ha \o w) = rd_ptr
      /\ Len(inner) % BlockWords = 0 /\ rd_ptr % BlockWords = 0
  BY <1>2, AtEnd
<1>4. Len(inner) \in Nat /\ Len(ha \o w) \in Nat
  <2>1. ha \o w \in Seq(Nat) /\ inner \in Seq(Nat)
    BY <1>3
  <2> QED BY <2>1
<1>5. rd_ptr <= wr_ptr
  <2>1. SyncLag \in 1..SyncLag
    BY EngineConstants
  <2>2. wr_sync[SyncLag] \in Nat
    BY <2>1 DEF IInv, TypeOK
  <2> QED BY <1>1, <2>1, <2>2 DEF IInv, InOrder
<1>6. CASE Uncut(job)
  <2>1. rd_ptr = job.len /\ wr_ptr = job.len
    BY <1>2, <1>3, <1>6, AllRead
  <2>2. [inner |-> inner, words |-> ha \o w] = Digest(job)
    <3>1. CASE job.dbl
      <4>1. inner = Positions(job.len)
        BY <1>6, <3>1 DEF Passes
      <4>2. Len(inner) = job.len
        BY <1>1, <4>1, PositionsNext
      <4>3. Len(ha \o w) = 0
        BY <1>1, <1>3, <1>4, <2>1, <4>2
      <4>4. ha \o w = <<>>
        BY <1>3, <4>3, EmptySeq
      <4> QED BY <3>1, <4>1, <4>4 DEF Digest
    <3>2. CASE ~job.dbl
      <4>1. inner = <<>> /\ Len(inner) = 0
        BY <3>2 DEF Passes
      <4>2. ha \o w = Positions(job.len)
        BY <1>1, <1>3, <2>1, <4>1 DEF Positions
      <4> QED BY <3>2, <4>1, <4>2 DEF Digest
    <3> QED BY <3>1, <3>2
  <2> QED BY <1>6, <2>1, <2>2 DEF Answers
<1>7. CASE ~Uncut(job)
  <2>1. rd_ptr \in Wholes(wr_ptr)
    BY <1>1, <1>2, <1>3, <1>5 DEF Wholes
  <2>2. Len(inner) \in IF job.dbl THEN Wholes(wr_ptr) ELSE {0}
    <3>1. CASE job.dbl
      <4>1. inner # <<>>
        BY <3>1 DEF Passes
      <4>2. Len(inner) # 0
        BY <1>3, <4>1, EmptySeq
      <4>3. Len(inner) \in 1..wr_ptr
        <5>1. Len(inner) + Len(ha \o w) = rd_ptr
          BY <1>3
        <5> QED BY <1>1, <1>4, <1>5, <4>2, <5>1
      <4> QED BY <1>3, <3>1, <4>3 DEF Wholes
    <3>2. CASE ~job.dbl
      BY <3>2 DEF Passes
    <3> QED BY <3>1, <3>2
  <2>3. [inner |-> inner, words |-> ha \o w] = Cut(Len(inner), rd_ptr)
    BY <1>3, Zenon DEF Cut
  <2>4. [inner |-> inner, words |-> ha \o w] \in Cuts(job, wr_ptr)
    BY <2>1, <2>2, <2>3, CutsAre, Zenon
  <2> QED BY <1>7, <2>4 DEF Answers
<1> QED BY <1>6, <1>7

(* An answer stays one while more words arrive. *)
LEMMA AnswersStay ==
  ASSUME NEW k \in Nat, NEW l \in Nat, k <= l, NEW j \in Jobs, l <= j.len,
         NEW d \in Answers(j, k)
  PROVE  d \in Answers(j, l)
<1>1. j.mode \in {"dma", "port"} /\ j.len \in Nat
  BY JobIs
<1>2. CASE Uncut(j)
  <2>1. k = j.len
    BY <1>2 DEF Answers
  <2>2. k = l
    BY <1>1, <2>1
  <2> QED BY <2>2
<1>3. CASE ~Uncut(j)
  <2>1. Wholes(k) \subseteq Wholes(l)
    BY DEF Wholes
  <2>2. Answers(j, k) = Cuts(j, k) /\ Answers(j, l) = Cuts(j, l)
    BY <1>3 DEF Answers
  <2>3. d \in Cuts(j, k)
    BY <2>2
  <2>4. PICK i \in (IF j.dbl THEN Wholes(k) ELSE {0}), m \in Wholes(k) : d = Cut(i, m)
    BY <2>3, CutsAre
  <2>5. i \in (IF j.dbl THEN Wholes(l) ELSE {0}) /\ m \in Wholes(l)
    BY <2>1, <2>4
  <2> QED BY <2>2, <2>4, <2>5, CutsAre, Zenon
<1> QED BY <1>2, <1>3

(* Finish is the only step that makes valid true, and the next clock latches
   what it left. *)
LEMMA NextAnswered ==
  ASSUME StretchCovers
  PROVE  ServiceInv /\ [Next]_vars => Answered'
<1> SUFFICES ASSUME ServiceInv, [Next]_vars PROVE Answered'
  OBVIOUS
<1>1. CASE Reset
  BY <1>1 DEF Reset, Answered
<1>2. CASE Clock
  <2>1. /\ job' = job /\ job \in Jobs /\ wr_ptr \in Nat /\ wr_ptr' \in Nat
        /\ wr_ptr <= wr_ptr' /\ wr_ptr' <= job.len /\ valid \in BOOLEAN /\ valid_d \in BOOLEAN
    BY <1>2, FeederKeeps DEF Clock, ServiceInv, IInv, TypeOK, InOrder
  <2>2. valid_d' = valid
    BY <1>2 DEF Clock, LatchClock
  <2>3. ~valid => ~valid_d /\ hash_regs = NoDigest
    BY DEF ServiceInv, Answered
  <2>4. ~valid_d' => hash_regs' = NoDigest
    BY <1>2, <2>2, <2>3 DEF Clock, LatchClock
  <2>5. CASE Finish
    <3>1. valid' /\ state' = "done" /\ hash_o' = [inner |-> inner, words |-> ha \o w]
      BY <2>5 DEF Finish, hash_o
    <3>2. hash_o' \in Answers(job, wr_ptr)
      BY <2>5, <3>1, FinishAnswers DEF Finish, ServiceInv
    <3>3. hash_o' \in Answers(job', wr_ptr')
      BY <2>1, <3>2, AnswersStay
    <3> QED BY <2>4, <3>1, <3>3 DEF Answered
  <2>6. CASE Trapped
    <3>1. valid' = valid /\ valid /\ state' = "done" /\ hash_o' = hash_o
      BY <2>6 DEF Trapped, engineVars, hash_o, ServiceInv, Answered
    <3>2. hash_o' \in Answers(job', wr_ptr')
      BY <2>1, <3>1, AnswersStay DEF ServiceInv, Answered
    <3> QED BY <2>4, <3>1, <3>2 DEF Answered
  <2>7. CASE \/ WaitIdle \/ WaitWord \/ FirstWord \/ LoadWord \/ LoadGap
             \/ Expand \/ Round \/ NextBlock \/ DoubleHash
    <3>1. state # "done" /\ state' # "done" /\ valid' = valid
      BY <2>7 DEF WaitIdle, WaitWord, FirstWord, LoadWord, LoadGap, Expand, Round,
                  NextBlock, DoubleHash, engineVars
    <3>2. ~valid /\ ~valid'
      BY <3>1 DEF ServiceInv, Answered
    <3> QED BY <2>2, <2>4, <3>1, <3>2 DEF Answered
  <2> QED BY <1>2, <2>5, <2>6, <2>7 DEF Clock, EngineClock
<1>3. CASE UNCHANGED vars
  BY <1>3 DEF vars, feedVars, engineVars, regsVars, ServiceInv, Answered, hash_o
<1> QED BY <1>1, <1>2, <1>3 DEF Next

(* The invariant holds after a reset and is kept by every step. *)
LEMMA InitService == ASSUME Init PROVE ServiceInv
<1>1. IInv
  BY InitIInv
<1>4. \A i \in 1..SyncLag : wr_ptr <= wr_sync[i] + i * Burst
  <2>1. TAKE i \in 1..SyncLag
  <2>2. i * Burst \in Nat
    BY EngineConstants
  <2>3. wr_ptr = 0 /\ wr_sync[i] = 0
    BY DEF Init
  <2> QED BY <2>2, <2>3
<1>5. Feeding
  BY <1>4 DEF Init, Feeding
<1>6. Passes /\ Answered
  BY DEF Init, NoInner, Passes, Answered
<1>7. Ahead
  BY DEF Init, Ahead
<1> QED BY <1>1, <1>5, <1>6, <1>7 DEF ServiceInv

LEMMA NextService ==
  ASSUME StretchCovers, ServiceInv, [Next]_vars PROVE ServiceInv'
<1>1. IInv'
  BY NextIInv DEF ServiceInv
<1>2. Feeding' /\ Ahead'
  BY NextFeeding, NextAhead DEF ServiceInv, IInv
<1>3. Passes'
  BY NextPasses DEF ServiceInv
<1>4. Answered'
  BY NextAnswered
<1> QED BY <1>1, <1>2, <1>3, <1>4 DEF ServiceInv

(* A step of the accelerator is a step of the service, or none. *)
LEMMA StepServes ==
  ASSUME ServiceInv, [Next]_vars
  PROVE  [Service!ServiceNext]_(Service!serviceVars)
<1>1. CASE Reset
  <2>1. Service!Abandon
    BY <1>1 DEF Reset, Service!Abandon
  <2> QED BY <2>1 DEF Service!ServiceNext
<1>2. CASE Clock
  <2>1. /\ job' = job /\ job.len \in Nat /\ wr_ptr \in Nat /\ wr_ptr' \in Nat
        /\ wr_ptr <= wr_ptr' /\ wr_ptr' <= job.len
        /\ sent = wr_ptr /\ sent' = wr_ptr'
    BY <1>2, FeederKeeps, JobIs
       DEF Clock, ServiceInv, IInv, TypeOK, InOrder, NoOverflow
  <2>2. sent' \in sent..MsgLength(job)
    BY <2>1 DEF MsgLength
  <2>3. CASE valid /\ ~valid_d
    <3>1. hash_regs' = hash_o /\ hash_regs = NoDigest /\ hash_o \in Answers(job, wr_ptr)
      BY <1>2, <2>3 DEF Clock, LatchClock, ServiceInv, Answered
    <3>2. Service!Serve
      BY <2>1, <2>2, <3>1 DEF Service!Serve
    <3> QED BY <3>2 DEF Service!ServiceNext
  <2>4. CASE ~(valid /\ ~valid_d)
    <3>1. hash_regs' = hash_regs
      BY <1>2, <2>4 DEF Clock, LatchClock
    <3>2. Service!Serve
      BY <2>1, <2>2, <3>1 DEF Service!Serve
    <3> QED BY <3>2 DEF Service!ServiceNext
  <2> QED BY <2>3, <2>4
<1>3. CASE UNCHANGED vars
  BY <1>3 DEF vars, feedVars, regsVars, Service!serviceVars
<1> QED BY <1>1, <1>2, <1>3 DEF Next

(* Pointers, feeder, the two hashes and the result registers keep what the
   refinement needs of them. *)
THEOREM ServiceHolds == ASSUME StretchCovers PROVE Spec => []ServiceInv
<1>1. Init => ServiceInv
  BY InitService
<1>2. ServiceInv /\ [Next]_vars => ServiceInv'
  BY NextService
<1> QED BY <1>1, <1>2, PTL DEF Spec

(* The accelerator is the abstract hash service: it publishes one digest for a
   job, of the whole message and only when all of it was written if the DMA
   feeds it or a CPU that pushes at every clock, of whole blocks pushed before
   if the CPU pauses, and keeps it until the next reset. *)
THEOREM Refinement == ASSUME StretchCovers PROVE Spec => ImplementsService
<1>1. Init => Service!ServiceInit
  BY DEF Init, Service!ServiceInit
<1>2. ServiceInv /\ [Next]_vars => [Service!ServiceNext]_(Service!serviceVars)
  BY StepServes
<1> QED BY <1>1, <1>2, ServiceHolds, PTL
        DEF Spec, ImplementsService, Service!ServiceSpec
=============================================================================
