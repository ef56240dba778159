------------------------- MODULE Sha256Reset_proofs -------------------------
(***************************************************************************)
(* Proofs about Sha256Reset, for any modes and any number of runs, and for *)
(* any times between the stores of the driver but in the last part, where  *)
(* Timely bounds them from below.  Each half of the reset is a cell of     *)
(* RstClken, and what RstClken_proofs shows of the cell is used for both.  *)
(***************************************************************************)
EXTENDS Sha256Reset, SequenceTheorems, TLAPS

BusCell == INSTANCE RstClken_proofs WITH
  enable <- sha_enable, enable_last <- bus_last, enable_ctr <- bus_ctr,
  reset_n <- bus_reset_n, clk_en <- bus_clk_en
ShaCell == INSTANCE RstClken_proofs WITH
  enable <- sha_enable, enable_last <- sha_last, enable_ctr <- sha_ctr,
  reset_n <- sha_reset_n, clk_en <- sha_clk_en

Stores == [reg : {"ctrl", "sha256_ctrl", "other", "sha256_data_push"},
           bits : SUBSET Bits]

(* Before the reset of the fabric ends nothing is enabled. *)
PoweringUp ==
  /\ rstn \in BOOLEAN
  /\ ~rstn => ~x11_enable /\ ~bus_last /\ ~sha_last

(* What the driver and the DMA engine are about to do is of its type, too. *)
Pending ==
  /\ todo \in Seq(Stores)
  /\ cmd_running => cmd_job \in 1..MaxJobs

(* The inductive invariant. *)
IInv == TypeOK /\ HalvesOrdered /\ PoweringUp /\ Pending

----------------------------------------------------------------------------
(* Short sequences. *)
LEMMA Short ==
  ASSUME NEW S, NEW a \in S, NEW b \in S, NEW c \in S
  PROVE  <<a>> \in Seq(S) /\ <<a, b>> \in Seq(S) /\ <<a, b, c>> \in Seq(S)
OBVIOUS

(* The stores of the driver's programs are of their type. *)
LEMMA ProgramTyped ==
  /\ Disable \in Seq(Stores) /\ Activate \in Seq(Stores) /\ ResetShot \in Seq(Stores)
  /\ \A m \in {"dma", "port"} : Feed(m) \in Seq(Stores) /\ Begin(m) \in Seq(Stores)
<1>1. /\ \A on \in BOOLEAN : Ctrl(on) \in Stores
      /\ \A bits \in SUBSET Bits : Sha(bits) \in Stores
      /\ Other \in Stores /\ Push \in Stores
  BY DEF Ctrl, Sha, Other, Push, Stores, Bits
<1>2. Disable \in Seq(Stores)
  <2>1. Sha({}) \in Stores /\ Other \in Stores /\ Ctrl(FALSE) \in Stores
    BY <1>1
  <2>2. <<Sha({}), Other, Ctrl(FALSE)>> \in Seq(Stores)
    BY <2>1, Short, Zenon
  <2> QED BY <2>2 DEF Disable
<1>3. Activate \in Seq(Stores) /\ ResetShot \in Seq(Stores)
  <2>1. Ctrl(TRUE) \in Stores /\ Sha({"ENABLE"}) \in Stores
        /\ Sha({"ENABLE", "RESET"}) \in Stores
    BY <1>1 DEF Bits
  <2>2. <<Ctrl(TRUE), Sha({"ENABLE"})>> \in Seq(Stores)
    BY <2>1, Short, Zenon
  <2>3. <<Sha({"ENABLE", "RESET"})>> \in Seq(Stores)
    BY <2>1, Short, Zenon
  <2> QED BY <2>2, <2>3 DEF Activate, ResetShot
<1>4. Feed("port") \in Seq(Stores) /\ Feed("dma") \in Seq(Stores)
  <2>1. Sha({"ENABLE", "RESET", "DMA_MODE"}) \in Stores
        /\ Sha({"ENABLE", "DMA_MODE", "DMA_START"}) \in Stores
    BY <1>1 DEF Bits
  <2>2. Feed("port") \in Seq(Stores)
    BY <1>1 DEF Feed
  <2>3. Feed("dma") \in Seq(Stores)
    BY <1>1, <2>1 DEF Feed
  <2> QED BY <2>2, <2>3
<1>5. Disable \o Activate \in Seq(Stores)
  BY <1>2, <1>3
<1>6. (Disable \o Activate) \o ResetShot \in Seq(Stores)
  BY <1>3, <1>5
<1>7. \A m \in {"dma", "port"} : Feed(m) \in Seq(Stores)
  BY <1>4
<1>8. \A m \in {"dma", "port"} : Begin(m) \in Seq(Stores)
  BY <1>6, <1>7 DEF Begin
<1> QED BY <1>2, <1>3, <1>7, <1>8

(* What the driver does in a step. *)
LEMMA DriverTyped ==
  ASSUME IInv, Driver
  PROVE  /\ job' \in 1..MaxJobs /\ mode' \in Modes /\ step' \in {"begin", "closing"}
         /\ wait' \in Nat /\ todo' \in Seq(Stores)
         /\ result' \subseteq 1..MaxJobs
         /\ sha_ctrl' \subseteq Bits /\ x11_enable' \in BOOLEAN /\ push' \in BOOLEAN
         /\ ~rstn => x11_enable' = x11_enable
<1> USE DEF IInv, TypeOK, Pending
<1>1. CASE Store
  <2>1. Head(todo) \in Stores /\ Tail(todo) \in Seq(Stores)
    BY <1>1 DEF Store
  <2>2. Delay(Head(todo)) \in Nat
    BY ResetConstants DEF ResetConstants, Delay
  <2>3. sha_ctrl' \subseteq Bits /\ x11_enable' \in BOOLEAN /\ push' \in BOOLEAN
    <3>1. \A s \in Stores : s.bits \subseteq Bits
      BY DEF Stores
    <3>2. /\ x11_enable' = x11_enable \/ x11_enable' = ("ENABLE" \in Head(todo).bits)
          /\ sha_ctrl' = Head(todo).bits \/ sha_ctrl' = sha_ctrl \ OneShot
          /\ push' = (Head(todo).reg = "sha256_data_push")
      BY <1>1 DEF Store, StoreTo
    <3>3. sha_ctrl' \subseteq Bits
      BY <2>1, <3>1, <3>2
    <3>4. x11_enable' \in BOOLEAN /\ push' \in BOOLEAN
      <4>1. x11_enable \in BOOLEAN
        OBVIOUS
      <4>2. ("ENABLE" \in Head(todo).bits) \in BOOLEAN
            /\ (Head(todo).reg = "sha256_data_push") \in BOOLEAN
        OBVIOUS
      <4> QED BY <3>2, <4>1, <4>2, Zenon
    <3> QED BY <3>3, <3>4
  <2> QED BY <1>1, <2>1, <2>2, <2>3 DEF Store
<1>2. CASE ReadHash
  BY <1>2, ProgramTyped DEF ReadHash, NoStore
<1>3. CASE Rerun
  <2>1. job' \in 1..MaxJobs
    BY <1>3, ResetConstants DEF Rerun, ResetConstants
  <2>2. todo' \in Seq(Stores) /\ wait' \in Nat
    BY <1>3, ProgramTyped, ResetConstants DEF Rerun, ResetConstants
  <2> QED BY <1>3, <2>1, <2>2 DEF Rerun, NoStore
<1>4. CASE Elsewhere
  <2>1. wait' \in Nat
    BY <1>4 DEF Elsewhere
  <2>2. x11_enable' = x11_enable /\ push' = FALSE /\ sha_ctrl' \subseteq Bits
    BY <1>4 DEF Elsewhere, NoStore
  <2> QED BY <1>4, <2>1, <2>2 DEF Elsewhere
<1> QED BY <1>1, <1>2, <1>3, <1>4 DEF Driver

(* The fabric leaves its reset with the accelerator disabled. *)
LEMMA NextPoweringUp ==
  ASSUME IInv, Tick
  PROVE  /\ PoweringUp'
         /\ sha_enable \in BOOLEAN /\ sha_enable' \in BOOLEAN
         /\ ~rstn => ~sha_enable /\ ~sha_enable'
<1>1. /\ sha_ctrl' \subseteq Bits /\ x11_enable' \in BOOLEAN
      /\ ~rstn => x11_enable' = x11_enable
  BY DriverTyped DEF Tick, BusEdge
<1>2. sha_enable \in BOOLEAN /\ sha_enable' \in BOOLEAN
  BY <1>1 DEF IInv, TypeOK, sha_enable
<1>3. ~rstn => ~x11_enable /\ ~x11_enable' /\ ~sha_enable /\ ~sha_enable'
  BY <1>1, <1>2 DEF IInv, PoweringUp, sha_enable
<1>4. rstn' \in BOOLEAN /\ (~rstn' => ~rstn)
  BY DEF Tick, PowerUp, IInv, PoweringUp
<1>5. ~rstn => ~bus_last'
  BY <1>3 DEF Tick, BusEdge, BusHalf!Edge, BusHalf!Clear, BusHalf!Change, BusHalf!CountDown, BusHalf!Settle
<1>6. ~rstn => ~sha_last'
  BY <1>3 DEF Tick, ShaHalf!Edge, ShaHalf!Clear, ShaHalf!Change, ShaHalf!CountDown,
     ShaHalf!Settle, shaVars, IInv, PoweringUp
<1> QED BY <1>2, <1>3, <1>4, <1>5, <1>6 DEF PoweringUp

(* The half on the clock of the bus makes a step of the cell at every edge. *)
LEMMA NextBusHalf ==
  ASSUME IInv, Tick
  PROVE  BusHalf!TypeOK' /\ BusHalf!Ordered'
<1>1. BusCell!IInv
  BY DEF IInv, TypeOK, HalvesOrdered, BusHalf!TypeOK, BusHalf!Ordered,
     BusHalf!Hold, BusCell!IInv, BusCell!TypeOK, BusCell!Ordered, BusCell!Hold
<1>2. BusCell!Edge
  BY DEF Tick, BusEdge, BusHalf!Edge, BusHalf!Clear, BusHalf!Change, BusHalf!CountDown,
     BusHalf!Settle, BusHalf!Hold, BusCell!Edge, BusCell!Clear, BusCell!Change,
     BusCell!CountDown, BusCell!Settle, BusCell!Hold
<1>3. BusCell!Inputs
  BY NextPoweringUp DEF BusCell!Inputs, PoweringUp
<1>4. BusCell!IInv'
  BY <1>1, <1>2, <1>3, BusCell!NextIInv DEF BusCell!Next
<1> QED
  BY <1>4 DEF BusHalf!TypeOK, BusHalf!Ordered, BusHalf!Hold, BusCell!IInv,
     BusCell!TypeOK, BusCell!Ordered, BusCell!Hold

(* The half on the engine clock makes one at every second edge; between two,
   the enable signal may have changed and the fabric left its reset. *)
LEMMA NextShaHalf ==
  ASSUME IInv, Tick
  PROVE  ShaHalf!TypeOK' /\ ShaHalf!Ordered'
<1>1. CASE phase = 1 /\ ShaHalf!Edge
  <2>1. ShaCell!IInv
    BY DEF IInv, TypeOK, HalvesOrdered, ShaHalf!TypeOK, ShaHalf!Ordered,
       ShaHalf!Hold, ShaCell!IInv, ShaCell!TypeOK, ShaCell!Ordered, ShaCell!Hold
  <2>2. ShaCell!Edge
    BY <1>1 DEF ShaHalf!Edge, ShaHalf!Clear, ShaHalf!Change, ShaHalf!CountDown,
       ShaHalf!Settle, ShaHalf!Hold, ShaCell!Edge, ShaCell!Clear, ShaCell!Change,
       ShaCell!CountDown, ShaCell!Settle, ShaCell!Hold
  <2>3. ShaCell!Inputs
    BY NextPoweringUp DEF ShaCell!Inputs, PoweringUp
  <2>4. ShaCell!IInv'
    BY <2>1, <2>2, <2>3, ShaCell!NextIInv DEF ShaCell!Next
  <2> QED
    BY <2>4 DEF ShaHalf!TypeOK, ShaHalf!Ordered, ShaHalf!Hold, ShaCell!IInv,
       ShaCell!TypeOK, ShaCell!Ordered, ShaCell!Hold
<1>2. CASE UNCHANGED shaVars
  <2>1. rstn' \in BOOLEAN /\ sha_enable' \in BOOLEAN /\ (~rstn => ~sha_last')
    BY <1>2, NextPoweringUp DEF PoweringUp, IInv, shaVars
  <2>2. rstn => rstn'
    BY DEF Tick, PowerUp
  <2> QED
    BY <1>2, <2>1, <2>2 DEF shaVars, IInv, TypeOK, HalvesOrdered, ShaHalf!TypeOK, ShaHalf!Ordered
<1> QED BY <1>1, <1>2 DEF Tick

(* The job the DMA engine fetches for, the words it brings, and the clocks
   the DataMover still needs. *)
LEMMA DmaTyped ==
  ASSUME IInv, Tick
  PROVE  /\ cmd_running' \in BOOLEAN /\ cmd_job' \in 0..MaxJobs
         /\ mover' \in 0..MoverLag
         /\ cmd_running' => cmd_job' \in 1..MaxJobs
         /\ words' \subseteq 1..MaxJobs
<1> USE DEF IInv, TypeOK, Pending
<1>1. cmd_running' \in BOOLEAN /\ cmd_job' \in {cmd_job, job}
  BY DEF Tick, BusEdge, DmaClock, DmaReset, DmaStart, DmaStop, DmaStay, dmaVars
<1>2. cmd_running' => cmd_job' = job \/ (cmd_running /\ cmd_job' = cmd_job)
  BY DEF Tick, BusEdge, DmaClock, DmaReset, DmaStart, DmaStop, DmaStay, dmaVars
<1>3. Offered \subseteq 1..MaxJobs
  BY DEF Offered
<1>4. words' \subseteq words \cup Offered
  BY DEF Tick, BusEdge, FifoClock
<1>5. mover' \in 0..MoverLag
  <2>1. mover' \in {MoverLag, 0, IF mover > 0 THEN mover - 1 ELSE 0}
    BY DEF Tick, BusEdge, MoverClock
  <2> QED BY <2>1, ResetConstants DEF ResetConstants
<1> QED BY <1>1, <1>2, <1>3, <1>4, <1>5, ResetConstants DEF ResetConstants

(* The engine and its hash registers. *)
LEMMA EngineTyped ==
  ASSUME IInv, Tick
  PROVE  /\ engine' \in {"reset", "ready", "busy", "done"}
         /\ hash_regs' \subseteq 1..MaxJobs /\ phase' \in 0..1
<1> USE DEF IInv, TypeOK
<1>1. phase' \in 0..1
  BY DEF Tick
<1>2. engine' \in {"reset", "ready", "busy", "done"} /\ hash_regs' \subseteq 1..MaxJobs
  BY DEF Tick, EngineClock, EngineReset, EngineReady, EngineBusy, EngineDone, EngineStay, engVars
<1> QED BY <1>1, <1>2

(* The invariant holds initially. *)
LEMMA InitIInv == ASSUME Init PROVE IInv
<1>1. todo \in Seq(Stores)
  BY ProgramTyped, ResetConstants DEF Init, ResetConstants
<1>2. BusHalf!TypeOK /\ BusHalf!Ordered /\ ShaHalf!TypeOK /\ ShaHalf!Ordered
  <2>1. 0 \in 0..3
    OBVIOUS
  <2>2. sha_enable = FALSE
    BY DEF Init, sha_enable
  <2> QED
    BY <2>1, <2>2 DEF Init, BusHalf!Cleared, ShaHalf!Cleared, BusHalf!TypeOK,
       BusHalf!Ordered, ShaHalf!TypeOK, ShaHalf!Ordered, BusHalf!Hold, ShaHalf!Hold
<1>3. job \in 1..MaxJobs /\ 0 \in 0..MaxJobs /\ wait \in Nat /\ mover \in 0..MoverLag
  BY ResetConstants DEF Init, ResetConstants
<1>4. TypeOK
  BY <1>2, <1>3 DEF Init, TypeOK
<1>5. PoweringUp /\ Pending
  BY <1>1 DEF Init, BusHalf!Cleared, ShaHalf!Cleared, PoweringUp, Pending
<1> QED BY <1>2, <1>4, <1>5 DEF IInv, HalvesOrdered

(* A step keeps the invariant. *)
LEMMA NextIInv == ASSUME IInv, [Next]_vars PROVE IInv'
<1>1. CASE Tick
  <2>1. /\ job' \in 1..MaxJobs /\ mode' \in Modes /\ step' \in {"begin", "closing"}
        /\ wait' \in Nat /\ todo' \in Seq(Stores) /\ result' \subseteq 1..MaxJobs
        /\ sha_ctrl' \subseteq Bits /\ x11_enable' \in BOOLEAN /\ push' \in BOOLEAN
    BY <1>1, DriverTyped DEF Tick, BusEdge
  <2>2. TypeOK'
    BY <1>1, <2>1, NextBusHalf, NextShaHalf, DmaTyped, EngineTyped DEF TypeOK
  <2>3. HalvesOrdered'
    BY <1>1, NextBusHalf, NextShaHalf DEF HalvesOrdered
  <2>4. PoweringUp' /\ Pending'
    BY <1>1, <2>1, NextPoweringUp, DmaTyped DEF Pending
  <2> QED BY <2>2, <2>3, <2>4 DEF IInv
<1>2. CASE UNCHANGED vars
  BY <1>2 DEF vars, driverVars, ctrlVars, busVars, shaVars, dmaVars, engVars, IInv, TypeOK,
     HalvesOrdered, PoweringUp, Pending, BusHalf!TypeOK, BusHalf!Ordered, ShaHalf!TypeOK,
     ShaHalf!Ordered, sha_enable
<1> QED BY <1>1, <1>2 DEF Next

----------------------------------------------------------------------------
(* The invariant holds in every state of every behaviour. *)
THEOREM InvariantHolds == Spec => []IInv
<1>1. Init => IInv
  BY InitIInv
<1>2. IInv /\ [Next]_vars => IInv'
  BY NextIInv
<1> QED BY <1>1, <1>2, PTL DEF Spec

(* Every variable keeps its type: what the driver stores, the registers, both
   halves of the reset, and the hashes, which are of jobs that were begun. *)
THEOREM TypeCorrect == Spec => []TypeOK
<1>1. IInv => TypeOK
  BY DEF IInv
<1> QED BY <1>1, InvariantHolds, PTL

(* However the driver is killed and run again, and whichever edges of the
   bus clock the engine clock has, each half of the accelerator leaves its
   reset only enabled, settled and clocked. *)
THEOREM ResetsOrdered == Spec => []HalvesOrdered
<1>1. IInv => HalvesOrdered
  BY DEF IInv
<1> QED BY <1>1, InvariantHolds, PTL

----------------------------------------------------------------------------
(* How many stores of its program a run has made. *)
Stored == Len(Begin(mode)) - Len(todo)

(* What is left to store is the end of the program. *)
Program ==
  step = "begin" =>
    /\ Len(todo) <= Len(Begin(mode))
    /\ \A i \in 1..Len(todo) : todo[i] = Begin(mode)[i + Stored]

(* The first store takes the enable bit away and the fifth gives it back.  In
   between, edge by edge, the resets, the DMA engine, the words and the hash
   of an earlier run are gone. *)
Drained ==
  step = "begin" =>
    /\ Stored \in 1..4 => "ENABLE" \notin sha_ctrl
    /\ Stored \in 2..4 => ~bus_reset_n
    /\ Stored = 2 /\ phase = 0 => ~sha_reset_n
    /\ Stored \in 3..4 => ~sha_reset_n /\ ~cmd_running
    /\ Stored = 4 => words = {} /\ (phase = 0 => hash_regs = {})
    /\ Stored > 4 => /\ words \subseteq {job} /\ hash_regs \subseteq {job}
                     /\ cmd_running => cmd_job = job

OwnInv == IInv /\ Program /\ Drained /\ OwnHash

(* Two programs one after the other. *)
LEMMA Joined ==
  ASSUME NEW s \in Seq(Stores), NEW t \in Seq(Stores)
  PROVE  /\ s \o t \in Seq(Stores) /\ Len(s \o t) = Len(s) + Len(t)
         /\ \A i \in 1..Len(s) : (s \o t)[i] = s[i]
         /\ \A i \in 1..Len(t) : (s \o t)[Len(s) + i] = t[i]
<1>1. Len(s) \in Nat /\ Len(t) \in Nat
  OBVIOUS
<1>2. /\ s \o t \in Seq(Stores) /\ Len(s \o t) = Len(s) + Len(t)
      /\ \A i \in 1..Len(s) + Len(t) : (s \o t)[i] = IF i <= Len(s) THEN s[i] ELSE t[i - Len(s)]
  BY ConcatProperties
<1> HIDE DEF Stores
<1>3. ASSUME NEW i \in 1..Len(s) PROVE (s \o t)[i] = s[i]
  <2>1. i \in 1..Len(s) + Len(t) /\ i <= Len(s)
    BY <1>1
  <2> QED BY <1>2, <2>1, Zenon
<1>4. ASSUME NEW i \in 1..Len(t) PROVE (s \o t)[Len(s) + i] = t[i]
  <2>1. Len(s) + i \in 1..Len(s) + Len(t) /\ ~(Len(s) + i <= Len(s)) /\ (Len(s) + i) - Len(s) = i
    BY <1>1
  <2>2. (s \o t)[Len(s) + i] = t[(Len(s) + i) - Len(s)]
    BY <1>2, <2>1, Zenon
  <2> QED BY <2>1, <2>2, Zenon
<1> QED BY <1>2, <1>3, <1>4

(* The beginning of the driver's program. *)
LEMMA BeginIs ==
  ASSUME NEW m \in {"dma", "port"}
  PROVE  /\ Len(Begin(m)) \in Nat /\ Len(Begin(m)) > 5
         /\ Begin(m)[1] = Sha({}) /\ Begin(m)[2] = Other
         /\ Begin(m)[3] = Ctrl(FALSE) /\ Begin(m)[4] = Ctrl(TRUE)
         /\ Begin(m)[5] = Sha({"ENABLE"}) /\ Begin(m)[6] = ResetShot[1]
         /\ Len(Begin(m)) = 6 + Len(Feed(m))
         /\ \A i \in 1..Len(Feed(m)) : Begin(m)[6 + i] = Feed(m)[i]
<1>1. /\ Disable \in Seq(Stores) /\ Activate \in Seq(Stores) /\ ResetShot \in Seq(Stores)
      /\ Feed(m) \in Seq(Stores)
  BY ProgramTyped
<1>2. Len(Disable) = 3 /\ Len(Activate) = 2 /\ Len(ResetShot) = 1
  BY DEF Disable, Activate, ResetShot
<1>3. /\ Disable[1] = Sha({}) /\ Disable[2] = Other /\ Disable[3] = Ctrl(FALSE)
      /\ Activate[1] = Ctrl(TRUE) /\ Activate[2] = Sha({"ENABLE"})
  BY DEF Disable, Activate
<1>4. Len(Feed(m)) \in Nat
  BY <1>1
<1>5. PICK front \in Seq(Stores) :
        /\ front = Disable \o Activate /\ Len(front) = 3 + 2
        /\ \A i \in 1..3 : front[i] = Disable[i]
        /\ \A i \in 1..2 : front[3 + i] = Activate[i]
  <2>1. /\ Disable \o Activate \in Seq(Stores) /\ Len(Disable \o Activate) = 3 + 2
        /\ \A i \in 1..3 : (Disable \o Activate)[i] = Disable[i]
        /\ \A i \in 1..2 : (Disable \o Activate)[3 + i] = Activate[i]
    <3>1. /\ Disable \o Activate \in Seq(Stores)
          /\ Len(Disable \o Activate) = Len(Disable) + Len(Activate)
          /\ \A i \in 1..Len(Disable) : (Disable \o Activate)[i] = Disable[i]
          /\ \A i \in 1..Len(Activate) : (Disable \o Activate)[Len(Disable) + i] = Activate[i]
      BY <1>1, Joined, Zenon
    <3> QED BY <1>2, <3>1, Zenon
  <2> QED BY <2>1, Zenon
<1>6. /\ front[1] = Sha({}) /\ front[2] = Other /\ front[3] = Ctrl(FALSE)
      /\ front[3 + 1] = Ctrl(TRUE) /\ front[3 + 2] = Sha({"ENABLE"})
  <2>1. 1 \in 1..3 /\ 2 \in 1..3 /\ 3 \in 1..3 /\ 1 \in 1..2 /\ 2 \in 1..2
    OBVIOUS
  <2> QED BY <1>3, <1>5, <2>1, Zenon
<1>7. PICK reset \in Seq(Stores) :
        /\ reset = front \o ResetShot /\ Len(reset) = 6
        /\ \A i \in 1..5 : reset[i] = front[i]
        /\ reset[6] = ResetShot[1]
  <2>1. Len(front) = 5
    BY <1>5
  <2>2. /\ front \o ResetShot \in Seq(Stores) /\ Len(front \o ResetShot) = 5 + 1
        /\ \A i \in 1..5 : (front \o ResetShot)[i] = front[i]
        /\ \A i \in 1..1 : (front \o ResetShot)[5 + i] = ResetShot[i]
    <3>1. /\ front \o ResetShot \in Seq(Stores)
          /\ Len(front \o ResetShot) = Len(front) + Len(ResetShot)
          /\ \A i \in 1..Len(front) : (front \o ResetShot)[i] = front[i]
          /\ \A i \in 1..Len(ResetShot) : (front \o ResetShot)[Len(front) + i] = ResetShot[i]
      BY <1>1, Joined, Zenon
    <3> QED BY <1>2, <2>1, <3>1, Zenon
  <2>3. 5 + 1 = 6 /\ 1 \in 1..1
    OBVIOUS
  <2> QED BY <2>2, <2>3, Zenon
<1>8. /\ reset[1] = Sha({}) /\ reset[2] = Other /\ reset[3] = Ctrl(FALSE)
      /\ reset[4] = Ctrl(TRUE) /\ reset[5] = Sha({"ENABLE"})
  <2>1. /\ 1 \in 1..5 /\ 2 \in 1..5 /\ 3 \in 1..5 /\ 4 \in 1..5 /\ 5 \in 1..5
        /\ 3 + 1 = 4 /\ 3 + 2 = 5
    OBVIOUS
  <2> QED BY <1>6, <1>7, <2>1, Zenon
<1>9. Begin(m) = reset \o Feed(m)
  BY <1>5, <1>7, Zenon DEF Begin
<1>10. /\ Len(Begin(m)) = 6 + Len(Feed(m))
       /\ \A i \in 1..6 : Begin(m)[i] = reset[i]
       /\ \A i \in 1..Len(Feed(m)) : Begin(m)[6 + i] = Feed(m)[i]
  <2>1. /\ Len(reset \o Feed(m)) = Len(reset) + Len(Feed(m))
        /\ \A i \in 1..Len(reset) : (reset \o Feed(m))[i] = reset[i]
        /\ \A i \in 1..Len(Feed(m)) : (reset \o Feed(m))[Len(reset) + i] = Feed(m)[i]
    BY <1>1, Joined, Zenon
  <2> QED BY <1>7, <1>9, <2>1, Zenon
<1>11. /\ 1 \in 1..6 /\ 2 \in 1..6 /\ 3 \in 1..6 /\ 4 \in 1..6 /\ 5 \in 1..6 /\ 6 \in 1..6
  OBVIOUS
<1>12. Len(Begin(m)) \in Nat /\ Len(Begin(m)) > 5
  BY <1>4, <1>10
<1> QED BY <1>7, <1>8, <1>10, <1>11, <1>12, Zenon

(* With the enable signal off, an edge leaves the cell in reset, whatever it
   was doing. *)
LEMMA EdgeResets ==
  ASSUME IInv, Tick, ~sha_enable
  PROVE  /\ ~bus_reset_n'
         /\ phase = 1 => ~sha_reset_n'
         /\ phase = 0 => sha_reset_n' = sha_reset_n
<1>0. sha_enable \in BOOLEAN
  BY NextPoweringUp
<1>1. ~bus_reset_n'
  BY <1>0 DEF TypeOK, BusHalf!TypeOK, BusHalf!Hold, Tick, BusEdge, BusHalf!Edge, BusHalf!Clear, BusHalf!Change, BusHalf!CountDown,
     BusHalf!Settle, IInv, HalvesOrdered, BusHalf!Ordered
<1>2. ASSUME phase = 1 PROVE ~sha_reset_n'
  BY <1>0, <1>2 DEF TypeOK, ShaHalf!TypeOK, ShaHalf!Hold, Tick, ShaHalf!Edge, ShaHalf!Clear, ShaHalf!Change, ShaHalf!CountDown,
     ShaHalf!Settle, IInv, HalvesOrdered, ShaHalf!Ordered
<1>3. ASSUME phase = 0 PROVE sha_reset_n' = sha_reset_n
  BY <1>3 DEF Tick, shaVars
<1> QED BY <1>1, <1>2, <1>3

(* The program counter of a run. *)
LEMMA NextProgram ==
  ASSUME OwnInv, Tick, step' = "begin"
  PROVE  /\ Program'
         /\ \/ Rerun /\ Stored' = 0
            \/ /\ Store /\ step = "begin" /\ job' = job /\ Stored' = Stored + 1
               /\ Head(todo) = Begin(mode)[Stored + 1]
            \/ Elsewhere /\ step = "begin" /\ job' = job /\ Stored' = Stored
<1> USE DEF OwnInv, IInv, TypeOK, Pending
<1>0. /\ mode \in {"dma", "port"} /\ todo \in Seq(Stores)
      /\ Len(Begin(mode)) \in Nat /\ Len(todo) \in Nat
  BY BeginIs, ResetConstants DEF ResetConstants
<1>1. CASE Store
  <2>1. /\ todo # <<>> /\ todo' = Tail(todo) /\ mode' = mode /\ step = "begin" /\ job' = job
    BY <1>1 DEF Store
  <2>2. Len(todo) > 0 /\ Len(todo') = Len(todo) - 1 /\ Head(todo) = todo[1]
        /\ \A i \in 1..Len(todo') : todo'[i] = todo[i + 1]
    BY <1>0, <2>1
  <2>3. Begin(mode)' = Begin(mode)
    BY <2>1 DEF Begin, Feed, Disable, Activate, ResetShot
  <2>4. Stored' = Stored + 1 /\ Stored \in Nat
    BY <1>0, <2>1, <2>2, <2>3 DEF Stored, Program
  <2>5. Head(todo) = Begin(mode)[Stored + 1]
    BY <1>0, <2>1, <2>2, <2>4 DEF Program
  <2>6. ASSUME NEW i \in 1..Len(todo') PROVE todo'[i] = Begin(mode)[i + Stored']
    <3>1. i + 1 \in 1..Len(todo) /\ (i + 1) + Stored = i + Stored'
      BY <1>0, <2>2, <2>4
    <3> QED BY <2>1, <2>2, <3>1 DEF Program
  <2>7. Program'
    BY <1>0, <2>1, <2>2, <2>3, <2>6 DEF Program
  <2> QED BY <1>1, <2>1, <2>4, <2>5, <2>7
<1>2. CASE Rerun
  <2>1. todo' = Begin(mode') /\ mode' \in {"dma", "port"}
    BY <1>2, ResetConstants DEF Rerun, ResetConstants
  <2>2. Begin(mode)' = Begin(mode') /\ Len(Begin(mode')) \in Nat
    BY <2>1, BeginIs DEF Begin, Feed, Disable, Activate, ResetShot
  <2>3. Stored' = 0
    BY <2>1, <2>2 DEF Stored
  <2>4. Program'
    BY <2>1, <2>2, <2>3 DEF Program
  <2> QED BY <1>2, <2>3, <2>4
<1>3. CASE Elsewhere
  <2>1. UNCHANGED <<job, mode, step, todo>>
    BY <1>3 DEF Elsewhere
  <2>2. Begin(mode)' = Begin(mode)
    BY <2>1 DEF Begin, Feed, Disable, Activate, ResetShot
  <2>3. Stored' = Stored
    BY <2>1, <2>2 DEF Stored
  <2> QED BY <1>3, <2>1, <2>2, <2>3 DEF Program
<1>4. CASE ReadHash
  BY <1>4 DEF ReadHash
<1> QED BY <1>1, <1>2, <1>3, <1>4 DEF Tick, BusEdge, Driver

(* The stores that take the enable bit away leave it away. *)
LEMMA StaysDisabled ==
  ASSUME OwnInv, Tick, step' = "begin", Stored' \in 1..4
  PROVE  "ENABLE" \notin sha_ctrl'
<1>1. Stored \in Nat /\ step = "begin"
  BY NextProgram, BeginIs, ResetConstants, SMTT(30)
  DEF OwnInv, IInv, TypeOK, Pending, Stored, Program, ResetConstants
<1>2. CASE Store /\ Stored' = Stored + 1 /\ Head(todo) = Begin(mode)[Stored + 1]
  <2>1. mode \in {"dma", "port"}
    BY ResetConstants DEF OwnInv, IInv, TypeOK, ResetConstants
  <2>2. Stored = 0 \/ Stored \in 1..3
    BY <1>1, <1>2
  <2>3. CASE Stored = 0
    <3>1. Head(todo) = Sha({})
      BY <1>2, <2>1, <2>3, BeginIs
    <3> QED BY <1>2, <3>1 DEF Store, StoreTo, Sha
  <2>4. CASE Stored \in 1..3
    <3>1. Head(todo) \in {Other, Ctrl(FALSE), Ctrl(TRUE)}
      <4>1. Stored = 1 \/ Stored = 2 \/ Stored = 3
        BY <2>4
      <4>2. \/ Head(todo) = Begin(mode)[2] \/ Head(todo) = Begin(mode)[3]
            \/ Head(todo) = Begin(mode)[4]
        <5>1. Stored + 1 = 2 \/ Stored + 1 = 3 \/ Stored + 1 = 4
          BY <4>1
        <5> QED BY <1>2, <5>1, Zenon
      <4>3. /\ Begin(mode)[2] = Other /\ Begin(mode)[3] = Ctrl(FALSE)
            /\ Begin(mode)[4] = Ctrl(TRUE)
        BY <2>1, BeginIs, Zenon
      <4> QED BY <4>2, <4>3, Zenon
    <3>2. Head(todo).reg # "sha256_ctrl"
      BY <3>1 DEF Other, Ctrl
    <3>3. "ENABLE" \notin sha_ctrl
      BY <1>1, <2>4 DEF OwnInv, Drained
    <3> QED BY <1>2, <3>2, <3>3 DEF Store, StoreTo
  <2> QED BY <2>2, <2>3, <2>4
<1>3. CASE Elsewhere /\ Stored' = Stored
  BY <1>1, <1>3 DEF Elsewhere, NoStore, OwnInv, Drained
<1> QED BY <1>2, <1>3, NextProgram

(* One edge further on. *)
LEMMA NextDrained ==
  ASSUME OwnInv, Tick
  PROVE  Drained'
<1> SUFFICES ASSUME step' = "begin" PROVE Drained'
  BY DEF Drained
<1>1. CASE Rerun /\ Stored' = 0
  BY <1>1 DEF Drained
<1>2. CASE step = "begin" /\ job' = job /\ Stored' \in {Stored, Stored + 1}
  <2>1. Stored \in Nat
    BY <1>2, BeginIs, ResetConstants
    DEF OwnInv, IInv, TypeOK, Pending, Stored, Program, ResetConstants
  <2>2. phase \in 0..1 /\ phase' = 1 - phase
    BY DEF OwnInv, IInv, TypeOK, Tick
  <2>3. Stored \in 1..4 => ~sha_enable
    BY <1>2 DEF OwnInv, Drained, sha_enable
  <2>4. Stored' \in 1..4 => "ENABLE" \notin sha_ctrl'
    BY StaysDisabled
  <2>5. Stored' \in 2..4 => ~bus_reset_n'
    <3>1. Stored' \in 2..4 => Stored \in 1..4
      BY <1>2, <2>1
    <3> QED BY <2>3, <3>1, EdgeResets DEF OwnInv
  <2>6. Stored' = 2 /\ phase' = 0 => ~sha_reset_n'
    <3>1. Stored' = 2 /\ phase' = 0 => Stored \in 1..4 /\ phase = 1
      BY <1>2, <2>1, <2>2
    <3> QED BY <2>3, <3>1, EdgeResets DEF OwnInv
  <2>7. ASSUME Stored' \in 3..4 PROVE ~sha_reset_n' /\ ~cmd_running'
    <3>1. Stored \in 2..4
      BY <1>2, <2>1, <2>7
    <3>2. ~cmd_running'
      BY <1>2, <3>1 DEF OwnInv, Drained, Tick, BusEdge, DmaClock, DmaReset, DmaStart, DmaStop, DmaStay
    <3>3. phase = 0 => ~sha_reset_n
      BY <1>2, <3>1 DEF OwnInv, Drained
    <3> QED BY <2>2, <2>3, <3>1, <3>2, <3>3, EdgeResets DEF OwnInv
  <2>8. ASSUME Stored \in 3..4
        PROVE  /\ words' = {} /\ ~cmd_running'
               /\ phase = 1 => hash_regs' = {}
               /\ phase = 0 => hash_regs' = hash_regs
    <3>1. ~sha_reset_n /\ ~bus_reset_n
      BY <1>2, <2>8 DEF OwnInv, Drained
    <3>2. words' = {} /\ ~cmd_running'
      BY <3>1 DEF Tick, BusEdge, FifoClock, DmaClock, DmaReset, DmaStart, DmaStop, DmaStay
    <3>3. phase = 1 => hash_regs' = {}
      BY <3>1 DEF Tick, EngineClock, EngineReset, EngineReady, EngineBusy, EngineDone, EngineStay
    <3>4. phase = 0 => hash_regs' = hash_regs
      BY DEF Tick, engVars
    <3> QED BY <3>2, <3>3, <3>4
  <2>9. Stored' = 4 => words' = {} /\ (phase' = 0 => hash_regs' = {})
    <3>1. Stored' = 4 => Stored \in 3..4
      BY <1>2, <2>1
    <3> QED BY <2>2, <2>8, <3>1
  <2>10. ASSUME Stored' > 4
         PROVE  /\ words' \subseteq {job'} /\ hash_regs' \subseteq {job'}
                /\ cmd_running' => cmd_job' = job'
    <3>1. Stored = 4 \/ Stored > 4
      BY <1>2, <2>1, <2>10
    <3>2. CASE Stored = 4
      <4>1. phase = 0 => hash_regs = {}
        BY <1>2, <3>2 DEF OwnInv, Drained
      <4>2. words' = {} /\ hash_regs' = {} /\ ~cmd_running'
        BY <2>2, <2>8, <3>2, <4>1
      <4> QED BY <4>2
    <3>3. CASE Stored > 4
      <4>1. words \subseteq {job} /\ hash_regs \subseteq {job} /\ (cmd_running => cmd_job = job)
        BY <1>2, <3>3 DEF OwnInv, Drained
      <4>2. Offered \subseteq {job}
        BY <4>1 DEF Offered
      <4>3. words' \subseteq {job}
        BY <4>1, <4>2 DEF Tick, BusEdge, FifoClock
      <4>4. hash_regs' \in {{}, words, hash_regs}
        BY DEF Tick, EngineClock, EngineReset, EngineReady, EngineBusy, EngineDone, EngineStay, engVars
      <4>5. cmd_running' => cmd_job' = job
        BY <4>1 DEF Tick, BusEdge, DmaClock, DmaReset, DmaStart, DmaStop, DmaStay, dmaVars
      <4> QED BY <1>2, <4>1, <4>3, <4>4, <4>5
    <3> QED BY <3>1, <3>2, <3>3
  <2> QED BY <2>4, <2>5, <2>6, <2>7, <2>9, <2>10 DEF Drained
<1> QED BY <1>1, <1>2, NextProgram

(* The hash is read at the end of the program. *)
LEMMA NextOwnHash ==
  ASSUME OwnInv, Tick
  PROVE  OwnHash'
<1>1. CASE ReadHash
  <2>1. step = "begin" /\ todo = <<>> /\ result' = hash_regs /\ job' = job
    BY <1>1 DEF ReadHash
  <2>2. Stored > 4
    BY <2>1, BeginIs, ResetConstants DEF OwnInv, IInv, TypeOK, Stored, ResetConstants
  <2> QED BY <2>1, <2>2 DEF OwnInv, Drained, OwnHash
<1>2. CASE Rerun
  BY <1>2 DEF Rerun, OwnHash
<1>3. CASE Store \/ Elsewhere
  BY <1>3 DEF Store, Elsewhere, OwnInv, OwnHash
<1> QED BY <1>1, <1>2, <1>3 DEF Tick, BusEdge, Driver

(* The program of the first run is whole. *)
LEMMA InitOwn == ASSUME Init PROVE OwnInv
<1>1. mode \in {"dma", "port"} /\ todo = Begin(mode)
  BY ResetConstants DEF Init, ResetConstants
<1>2. Stored = 0 /\ Len(todo) \in Nat
  BY <1>1, BeginIs DEF Stored
<1>3. Program
  BY <1>1, <1>2 DEF Program
<1>4. Drained
  BY <1>2 DEF Drained
<1> QED BY <1>3, <1>4, InitIInv DEF Init, OwnInv, OwnHash

(* A step keeps all of it. *)
LEMMA NextOwn == ASSUME OwnInv, [Next]_vars PROVE OwnInv'
<1>1. IInv'
  BY NextIInv DEF OwnInv
<1>2. CASE Tick
  <2>1. Program'
    BY <1>2, NextProgram DEF Program
  <2> QED BY <1>1, <1>2, <2>1, NextDrained, NextOwnHash DEF OwnInv
<1>3. CASE UNCHANGED vars
  <2>1. UNCHANGED <<job, mode, step, todo, result, phase, sha_ctrl, bus_reset_n, sha_reset_n,
                    cmd_running, cmd_job, words, hash_regs>>
    BY <1>3 DEF vars, driverVars, ctrlVars, busVars, shaVars, dmaVars, engVars
  <2>2. Begin(mode)' = Begin(mode)
    BY <2>1 DEF Begin, Feed, Disable, Activate, ResetShot
  <2>3. Stored' = Stored
    BY <2>1, <2>2 DEF Stored
  <2> QED BY <1>1, <2>1, <2>2, <2>3 DEF OwnInv, Program, Drained, OwnHash
<1> QED BY <1>2, <1>3 DEF Next

(* What is read is the hash of the run's own job or nothing, although an
   earlier run may have been killed at any point, and however fast the
   driver stores: the four stores without the enable bit are enough. *)
THEOREM HashOwn == Spec => []OwnHash
<1>1. Init => OwnInv
  BY InitOwn
<1>2. OwnInv /\ [Next]_vars => OwnInv'
  BY NextOwn
<1>3. OwnInv => OwnHash
  BY DEF OwnInv
<1> QED BY <1>1, <1>2, <1>3, PTL DEF Spec

----------------------------------------------------------------------------
(* The times the driver must keep to, which are the shortest that will do:
   after the reset that precedes DMA_START five edges of the engine clock
   release the engine and a sixth makes it ready, each two of the bus, while
   five edges of the bus release the DataMover, which then gets ready; after
   the one that precedes the first push five release the FIFO. *)
Timely == StoreGap >= 12 /\ StoreGap >= MoverLag + 5 /\ SleepGap >= 10

(* What the stores made so far have switched on. *)
SwitchedOn ==
  step = "begin" =>
    /\ Stored > 0 => rstn
    /\ Stored > 3 => x11_enable
    /\ Stored > 4 => "ENABLE" \in sha_ctrl
    /\ Stored > 4 /\ mode = "port" => "DMA_MODE" \notin sha_ctrl

(* What lasts one clock belongs to the store before it. *)
Pulses ==
  /\ "RESET" \in sha_ctrl =>
       /\ step = "begin"
       /\ (Stored = 6 /\ wait = SleepGap) \/ (Stored = 10 /\ wait = StoreGap)
  /\ "DMA_START" \in sha_ctrl => step = "begin" /\ Stored = 11 /\ mode = "dma"
  /\ push => step = "begin" /\ mode = "port" /\ Stored > 6

(* The last stores of a run only switch off. *)
Stops == {Sha({}), Other, Ctrl(FALSE)}
Closing == step = "closing" => todo \in Seq(Stops)

(* From the drain to DMA_START there is nothing that the engine could begin
   with. *)
Idle ==
  step = "begin" =>
    /\ Stored = 4 /\ phase = 0 => engine = "reset"
    /\ mode = "dma" /\ Stored \in 5..10 =>
         words = {} /\ ~cmd_running /\ engine \in {"reset", "ready"}

(* Edges of its own clock that a cell needs to release its half while the
   enable signal is on, those that the DataMover and the engine need at the
   most to get ready, and how many edges of the bus clock n edges of the
   engine clock take. *)
Left(released, last, ctr) ==
  IF released THEN 0 ELSE IF last THEN 1 + ctr ELSE 5
BusLeft == Left(bus_reset_n, bus_last, bus_ctr)
MoverLeft == IF bus_reset_n THEN mover ELSE BusLeft + MoverLag
ShaLeft == Left(sha_reset_n, sha_last, sha_ctr)
EngineLeft == IF ~sha_reset_n THEN ShaLeft + 1 ELSE IF engine = "reset" THEN 1 ELSE 0
BusClocks(n) == IF n = 0 THEN 0 ELSE 2 * n - phase

(* What is under way will be over before the next store. *)
InTime ==
  step = "begin" =>
    /\ mode = "port" /\ Stored = 6 /\ "RESET" \notin sha_ctrl => BusClocks(ShaLeft) <= wait + 1
    /\ mode = "port" /\ Stored > 6 => sha_reset_n
    /\ Stored = 10 /\ "RESET" \notin sha_ctrl =>
         /\ BusClocks(EngineLeft) <= wait + 1
         /\ BusLeft <= wait + 1 /\ MoverLeft <= wait + 1

TimeInv == /\ OwnInv /\ SwitchedOn /\ Pulses /\ Closing /\ Idle /\ InTime
           /\ CommandTaken

(* What the driver feeds: two words, or the registers of the DMA engine, a
   reset and the start. *)
LEMMA FeedIs ==
  /\ Len(Begin("port")) = 8 /\ Begin("port")[7] = Push /\ Begin("port")[8] = Push
  /\ Len(Begin("dma")) = 11
  /\ Begin("dma")[7] = Other /\ Begin("dma")[8] = Other /\ Begin("dma")[9] = Other
  /\ Begin("dma")[10] = Sha({"ENABLE", "RESET", "DMA_MODE"})
  /\ Begin("dma")[11] = Sha({"ENABLE", "DMA_MODE", "DMA_START"})
<1>1. Len(Feed("port")) = 2 /\ Feed("port")[1] = Push /\ Feed("port")[2] = Push
  BY DEF Feed
<1>2. /\ Len(Feed("dma")) = 5
      /\ Feed("dma")[1] = Other /\ Feed("dma")[2] = Other /\ Feed("dma")[3] = Other
      /\ Feed("dma")[4] = Sha({"ENABLE", "RESET", "DMA_MODE"})
      /\ Feed("dma")[5] = Sha({"ENABLE", "DMA_MODE", "DMA_START"})
  BY DEF Feed
<1>3. \A m \in {"dma", "port"} :
        /\ Len(Begin(m)) = 6 + Len(Feed(m))
        /\ \A i \in 1..Len(Feed(m)) : Begin(m)[6 + i] = Feed(m)[i]
  BY BeginIs
<1>4. /\ Len(Begin("port")) = 6 + 2 /\ Begin("port")[6 + 1] = Push /\ Begin("port")[6 + 2] = Push
  <2>1. 1 \in 1..2 /\ 2 \in 1..2
    OBVIOUS
  <2> QED BY <1>1, <1>3, <2>1, Zenon
<1>5. /\ Len(Begin("dma")) = 6 + 5
      /\ Begin("dma")[6 + 1] = Other /\ Begin("dma")[6 + 2] = Other /\ Begin("dma")[6 + 3] = Other
      /\ Begin("dma")[6 + 4] = Sha({"ENABLE", "RESET", "DMA_MODE"})
      /\ Begin("dma")[6 + 5] = Sha({"ENABLE", "DMA_MODE", "DMA_START"})
  <2>1. 1 \in 1..5 /\ 2 \in 1..5 /\ 3 \in 1..5 /\ 4 \in 1..5 /\ 5 \in 1..5
    OBVIOUS
  <2> QED BY <1>2, <1>3, <2>1, Zenon
<1>6. 6 + 1 = 7 /\ 6 + 2 = 8 /\ 6 + 3 = 9 /\ 6 + 4 = 10 /\ 6 + 5 = 11
  OBVIOUS
<1> QED BY <1>4, <1>5, <1>6, Zenon

(* A store of the program, by its number. *)
LEMMA StoreIs ==
  ASSUME NEW m \in {"dma", "port"}, NEW k \in 1..Len(Begin(m))
  PROVE  /\ k \in 1..11 /\ (m = "port" => k \in 1..8)
         /\ k < 4 => Begin(m)[k] \in Stops
         /\ k = 4 => Begin(m)[k] = Ctrl(TRUE)
         /\ k = 5 => Begin(m)[k] = Sha({"ENABLE"})
         /\ k = 6 => Begin(m)[k] = Sha({"ENABLE", "RESET"}) /\ Begin(m)[k] = ResetShot[1]
         /\ k \in 7..9 => Begin(m)[k] = IF m = "port" THEN Push ELSE Other
         /\ k = 10 => m = "dma" /\ Begin(m)[k] = Sha({"ENABLE", "RESET", "DMA_MODE"})
         /\ k = 11 => m = "dma" /\ Begin(m)[k] = Sha({"ENABLE", "DMA_MODE", "DMA_START"})
<1> HIDE DEF Sha, Other, Ctrl, Push, Begin
<1>1. /\ k \in 1..11 /\ (m = "port" => k \in 1..8)
      /\ k = 10 => m = "dma" /\ Begin(m)[k] = Sha({"ENABLE", "RESET", "DMA_MODE"})
      /\ k = 11 => m = "dma" /\ Begin(m)[k] = Sha({"ENABLE", "DMA_MODE", "DMA_START"})
  <2>1. CASE m = "port"
    <3>1. Len(Begin(m)) = 8
      BY <2>1, FeedIs
    <3>2. k \in 1..8
      BY <3>1
    <3>3. k \in 1..11 /\ k # 10 /\ k # 11
      BY <3>2
    <3> QED BY <2>1, <3>2, <3>3
  <2>2. CASE m = "dma"
    <3>1. Len(Begin(m)) = 11
      BY <2>2, FeedIs
    <3>2. k \in 1..11
      BY <3>1
    <3> QED BY <2>2, <3>2, FeedIs
  <2> QED BY <2>1, <2>2
<1>2. /\ k < 4 => Begin(m)[k] \in Stops
      /\ k = 4 => Begin(m)[k] = Ctrl(TRUE)
      /\ k = 5 => Begin(m)[k] = Sha({"ENABLE"})
  <2>1. k < 4 => k = 1 \/ k = 2 \/ k = 3
    OBVIOUS
  <2> QED BY <2>1, BeginIs DEF Stops
<1>3. k = 6 => Begin(m)[k] = Sha({"ENABLE", "RESET"}) /\ Begin(m)[k] = ResetShot[1]
  BY BeginIs DEF ResetShot
<1>4. k \in 7..9 => Begin(m)[k] = IF m = "port" THEN Push ELSE Other
  <2>1. k \in 7..9 => k = 7 \/ k = 8 \/ (k = 9 /\ m = "dma")
    BY <1>1
  <2> QED BY <2>1, FeedIs
<1> QED BY <1>1, <1>2, <1>3, <1>4, Zenon

(* What the stores of the program do to the registers. *)
LEMMA StoreDoes ==
  ASSUME NEW m \in {"dma", "port"}, NEW k \in 1..Len(Begin(m)),
         NEW s, s = Begin(m)[k]
  PROVE  /\ k = 4 => s.reg = "ctrl" /\ "ENABLE" \in s.bits
         /\ k > 4 => s.reg # "ctrl"
         /\ k = 5 => s.reg = "sha256_ctrl"
         /\ k > 4 /\ s.reg = "sha256_ctrl" =>
              "ENABLE" \in s.bits /\ (m = "port" => "DMA_MODE" \notin s.bits)
         /\ s.reg = "sha256_ctrl" /\ "RESET" \in s.bits => k = 6 \/ k = 10
         /\ s.reg = "sha256_ctrl" /\ "DMA_START" \in s.bits => k = 11 /\ m = "dma"
         /\ k = 11 => s.reg = "sha256_ctrl" /\ {"DMA_MODE", "DMA_START"} \subseteq s.bits
         /\ s.reg = "sha256_data_push" => m = "port" /\ k > 6
<1>1. \/ k < 4 \/ k = 4 \/ k = 5 \/ k = 6 \/ k \in 7..9 \/ k = 10 \/ k = 11
  <2>1. k \in 1..11
    BY StoreIs, Zenon
  <2> QED BY <2>1
<1>2. CASE k < 4
  <2>1. s \in Stops
    BY <1>2, StoreIs, Zenon
  <2>2. s.reg # "sha256_data_push" /\ "RESET" \notin s.bits /\ "DMA_START" \notin s.bits
    BY <2>1 DEF Stops, Sha, Other, Ctrl
  <2> QED BY <1>2, <2>2
<1>3. CASE k = 4
  <2>1. s = Ctrl(TRUE)
    BY <1>3, StoreIs, Zenon
  <2> QED BY <1>3, <2>1 DEF Ctrl
<1>4. CASE k = 5
  <2>1. s = Sha({"ENABLE"})
    BY <1>4, StoreIs, Zenon
  <2> QED BY <1>4, <2>1 DEF Sha
<1>5. CASE k = 6
  <2>1. s = Sha({"ENABLE", "RESET"})
    BY <1>5, StoreIs, Zenon
  <2> QED BY <1>5, <2>1 DEF Sha
<1>6. CASE k \in 7..9
  <2>1. s = IF m = "port" THEN Push ELSE Other
    BY <1>6, StoreIs, Zenon
  <2> QED BY <1>6, <2>1 DEF Push, Other
<1>7. CASE k = 10
  <2>1. m = "dma" /\ s = Sha({"ENABLE", "RESET", "DMA_MODE"})
    BY <1>7, StoreIs, Zenon
  <2> QED BY <1>7, <2>1 DEF Sha
<1>8. CASE k = 11
  <2>1. m = "dma" /\ s = Sha({"ENABLE", "DMA_MODE", "DMA_START"})
    BY <1>8, StoreIs, Zenon
  <2> QED BY <1>8, <2>1 DEF Sha
<1> QED BY <1>1, <1>2, <1>3, <1>4, <1>5, <1>6, <1>7, <1>8

(* A step in the program of a run: its first, a store by its number, or none. *)
LEMMA Moves ==
  ASSUME OwnInv, Tick, step' = "begin"
  PROVE  /\ mode' \in {"dma", "port"} /\ Stored' \in 0..Len(Begin(mode'))
         /\ \/ Rerun /\ Stored' = 0
            \/ /\ Store /\ step = "begin" /\ mode' = mode
               /\ Stored \in Nat /\ Stored' = Stored + 1
               /\ Stored' \in 1..Len(Begin(mode)) /\ Head(todo) = Begin(mode)[Stored']
            \/ /\ Elsewhere /\ step = "begin" /\ mode' = mode
               /\ Stored \in Nat /\ Stored' = Stored
<1>1. mode' \in {"dma", "port"} /\ todo' \in Seq(Stores)
  BY DriverTyped, ResetConstants DEF OwnInv, Tick, BusEdge, ResetConstants
<1>2. Len(Begin(mode')) \in Nat /\ Len(todo') \in Nat
  BY <1>1, BeginIs
<1>3. Begin(mode)' = Begin(mode')
  BY DEF Begin, Feed, Disable, Activate, ResetShot
<1>4. Stored' \in 0..Len(Begin(mode'))
  BY <1>1, <1>2, <1>3, NextProgram DEF Program, Stored
<1>5. step = "begin" => Stored \in Nat
  BY BeginIs, ResetConstants
  DEF OwnInv, IInv, TypeOK, Pending, Stored, Program, ResetConstants
<1>6. CASE Rerun /\ Stored' = 0
  BY <1>1, <1>4, <1>6
<1>7. CASE /\ Store /\ step = "begin" /\ Stored' = Stored + 1
           /\ Head(todo) = Begin(mode)[Stored + 1]
  <2>1. mode' = mode
    BY <1>7 DEF Store
  <2>2. Stored' \in 1..Len(Begin(mode)) /\ Head(todo) = Begin(mode)[Stored']
    BY <1>2, <1>4, <1>5, <1>7, <2>1
  <2> QED BY <1>1, <1>4, <1>5, <1>7, <2>1, <2>2
<1>8. CASE Elsewhere /\ step = "begin" /\ Stored' = Stored
  BY <1>1, <1>4, <1>5, <1>8 DEF Elsewhere
<1> QED BY <1>6, <1>7, <1>8, NextProgram

(* A store of the program that is not the first does not switch off. *)
LEMMA NextSwitchedOn ==
  ASSUME TimeInv, Tick
  PROVE  SwitchedOn'
<1> SUFFICES ASSUME step' = "begin" PROVE SwitchedOn'
  BY DEF SwitchedOn
<1>1. rstn => rstn'
  BY DEF Tick, PowerUp
<1>2. CASE Rerun /\ Stored' = 0
  BY <1>2 DEF SwitchedOn
<1>3. CASE /\ Store /\ step = "begin" /\ mode' = mode
           /\ Stored \in Nat /\ Stored' = Stored + 1
           /\ Stored' \in 1..Len(Begin(mode)) /\ Head(todo) = Begin(mode)[Stored']
  <2>1. mode \in {"dma", "port"} /\ (mode = "port" => Stored' \in 1..8) /\ Stored' \in 1..11
    BY <1>3, StoreIs, ResetConstants DEF TimeInv, OwnInv, IInv, TypeOK, ResetConstants
  <2>2. PICK h : h = Begin(mode)[Stored'] /\ h = Head(todo)
    BY <1>3
  <2>3. StoreTo(h) /\ rstn
    BY <1>3, <2>2 DEF Store
  <2>4. Stored' > 3 => x11_enable'
    <3>1. Stored' > 4 => x11_enable
      BY <1>3 DEF TimeInv, SwitchedOn
    <3>2. /\ Stored' = 4 => h.reg = "ctrl" /\ "ENABLE" \in h.bits
          /\ Stored' > 4 => h.reg # "ctrl"
      BY <1>3, <2>1, <2>2, StoreDoes, ZenonT(30)
    <3>3. CASE Stored' = 4
      BY <2>3, <3>2, <3>3, Zenon DEF StoreTo
    <3>4. CASE Stored' > 4
      BY <2>3, <3>1, <3>2, <3>4, Zenon DEF StoreTo
    <3> QED BY <2>1, <3>3, <3>4
  <2>5. ASSUME Stored' > 4
        PROVE  "ENABLE" \in sha_ctrl' /\ (mode = "port" => "DMA_MODE" \notin sha_ctrl')
    <3>1. CASE h.reg = "sha256_ctrl"
      <4>1. "ENABLE" \in h.bits /\ (mode = "port" => "DMA_MODE" \notin h.bits)
        BY <1>3, <2>1, <2>2, <2>5, <3>1, StoreDoes
      <4> QED BY <2>3, <3>1, <4>1 DEF StoreTo
    <3>2. CASE h.reg # "sha256_ctrl"
      <4>1. Stored' # 5
        BY <1>3, <2>1, <2>2, <3>2, StoreDoes, ZenonT(30)
      <4>2. "ENABLE" \in sha_ctrl /\ (mode = "port" => "DMA_MODE" \notin sha_ctrl)
        BY <1>3, <2>1, <2>5, <4>1 DEF TimeInv, SwitchedOn
      <4> QED BY <2>3, <3>2, <4>2 DEF StoreTo, OneShot
    <3> QED BY <3>1, <3>2
  <2> QED BY <1>1, <1>3, <2>3, <2>4, <2>5 DEF SwitchedOn
<1>4. CASE Elsewhere /\ step = "begin" /\ mode' = mode /\ Stored' = Stored
  BY <1>1, <1>4 DEF Elsewhere, NoStore, OneShot, TimeInv, SwitchedOn
<1> QED BY <1>2, <1>3, <1>4, Moves DEF TimeInv

(* What lasts one clock comes with a store of the program. *)
LEMMA NextPulses ==
  ASSUME TimeInv, Tick
  PROVE  Pulses' /\ Closing'
<1>1. ASSUME NoStore PROVE Pulses'
  BY <1>1 DEF NoStore, OneShot, Pulses
<1>2. CASE step' = "begin"
  <2>1. CASE Rerun \/ Elsewhere
    BY <1>1, <1>2, <2>1 DEF Rerun, Elsewhere, Closing
  <2>2. CASE /\ Store /\ step = "begin" /\ mode' = mode
             /\ Stored' \in 1..Len(Begin(mode)) /\ Head(todo) = Begin(mode)[Stored']
    <3>1. mode \in {"dma", "port"}
      BY ResetConstants DEF TimeInv, OwnInv, IInv, TypeOK, ResetConstants
    <3>2. PICK h : h = Begin(mode)[Stored'] /\ h = Head(todo)
      BY <2>2
    <3>3. StoreTo(h)
      BY <2>2, <3>2 DEF Store
    <3>4. "RESET" \in sha_ctrl' => Stored' = 6 \/ Stored' = 10
      <4>1. h.reg = "sha256_ctrl" /\ "RESET" \in h.bits => Stored' = 6 \/ Stored' = 10
        BY <2>2, <3>1, <3>2, StoreDoes, ZenonT(30)
      <4> QED BY <3>3, <4>1 DEF StoreTo, OneShot
    <3>5. "DMA_START" \in sha_ctrl' => Stored' = 11 /\ mode = "dma"
      <4>1. h.reg = "sha256_ctrl" /\ "DMA_START" \in h.bits => Stored' = 11 /\ mode = "dma"
        BY <2>2, <3>1, <3>2, StoreDoes, ZenonT(30)
      <4> QED BY <3>3, <4>1 DEF StoreTo, OneShot
    <3>6. push' => mode = "port" /\ Stored' > 6
      <4>1. h.reg = "sha256_data_push" => mode = "port" /\ Stored' > 6
        <5>1. \A k \in 1..Len(Begin(mode)) :
                Begin(mode)[k].reg = "sha256_data_push" => mode = "port" /\ k > 6
          BY <3>1, StoreDoes
        <5> QED BY <2>2, <3>2, <5>1, Zenon
      <4> QED BY <3>3, <4>1 DEF StoreTo
    <3>7. Stored' = 6 => wait' = SleepGap
      BY <2>2, <3>1, StoreIs DEF Store, Delay
    <3>8. Stored' = 10 => wait' = StoreGap
      <4>1. Sha({"ENABLE", "RESET", "DMA_MODE"}) # ResetShot[1]
        BY DEF ResetShot, Sha
      <4> QED BY <2>2, <3>1, <4>1, StoreIs DEF Store, Delay
    <3> QED BY <1>2, <2>2, <3>4, <3>5, <3>6, <3>7, <3>8 DEF Pulses, Closing
  <2> QED BY <1>2, <2>1, <2>2, Moves DEF TimeInv
<1>3. CASE step' # "begin"
  <2>1. CASE ReadHash
    <3>1. Disable \in Seq(Stops)
      <4>1. Sha({}) \in Stops /\ Other \in Stops /\ Ctrl(FALSE) \in Stops
        BY DEF Stops
      <4> QED BY <4>1, Short, Zenon DEF Disable
    <3> QED BY <1>1, <2>1, <3>1 DEF ReadHash, Closing
  <2>2. CASE Store
    <3>1. todo \in Seq(Stops) /\ todo # <<>> /\ todo' = Tail(todo)
      BY <1>3, <2>2 DEF Store, Closing, TimeInv, OwnInv, IInv, TypeOK
    <3>2. Head(todo) \in Stops /\ todo' \in Seq(Stops)
      BY <3>1
    <3>3. "RESET" \notin sha_ctrl' /\ "DMA_START" \notin sha_ctrl' /\ ~push'
      <4>1. PICK h \in Stops : h = Head(todo)
        BY <3>2
      <4>2. h.reg # "sha256_data_push" /\ "RESET" \notin h.bits /\ "DMA_START" \notin h.bits
        BY <4>1 DEF Stops, Sha, Other, Ctrl
      <4>3. StoreTo(h)
        BY <2>2, <4>1 DEF Store
      <4> QED BY <4>2, <4>3 DEF StoreTo, OneShot
    <3> QED BY <3>2, <3>3 DEF Pulses, Closing
  <2>3. CASE Elsewhere
    <3>1. Closing'
      BY <1>3, <2>3 DEF Elsewhere, Closing, TimeInv, OwnInv, IInv, TypeOK
    <3> QED BY <1>1, <2>3, <3>1 DEF Elsewhere
  <2> QED BY <1>3, <2>1, <2>2, <2>3 DEF Tick, BusEdge, Driver, Rerun
<1> QED BY <1>2, <1>3

(* Between the drain and DMA_START nothing is fetched, pushed or hashed. *)
LEMMA NextIdle ==
  ASSUME TimeInv, Tick
  PROVE  Idle'
<1> SUFFICES ASSUME step' = "begin" PROVE Idle'
  BY DEF Idle
<1>1. CASE Rerun /\ Stored' = 0
  BY <1>1 DEF Idle
<1>2. CASE step = "begin" /\ mode' = mode /\ Stored \in Nat /\ Stored' \in {Stored, Stored + 1}
  <2>1. phase \in 0..1 /\ phase' = 1 - phase
    BY DEF TimeInv, OwnInv, IInv, TypeOK, Tick
  <2>2. ASSUME Stored \in 3..4
        PROVE  phase = 1 => engine' = "reset"
    <3>1. ~sha_reset_n
      BY <1>2, <2>2 DEF TimeInv, OwnInv, Drained
    <3> QED BY <3>1 DEF Tick, EngineClock, EngineReset, EngineReady, EngineBusy, EngineDone, EngineStay
  <2>3. phase = 0 => engine' = engine
    BY DEF Tick, engVars
  <2>4. Stored' = 4 /\ phase' = 0 => engine' = "reset"
    <3>1. Stored' = 4 /\ phase' = 0 => Stored \in 3..4 /\ phase = 1
      BY <1>2, <2>1
    <3> QED BY <2>2, <3>1
  <2>5. ASSUME mode = "dma", Stored' \in 5..10
        PROVE  words' = {} /\ ~cmd_running' /\ engine' \in {"reset", "ready"}
    <3>1. Stored = 4 \/ Stored \in 5..10
      BY <1>2, <2>5
    <3>2. CASE Stored = 4
      <4>1. ~sha_reset_n /\ ~bus_reset_n
        BY <1>2, <3>2 DEF TimeInv, OwnInv, Drained
      <4>2. words' = {} /\ ~cmd_running'
        BY <4>1 DEF Tick, BusEdge, FifoClock, DmaClock, DmaReset, DmaStart, DmaStop, DmaStay
      <4>3. engine' = "reset"
        BY <1>2, <2>1, <2>2, <2>3, <3>2 DEF TimeInv, Idle
      <4> QED BY <4>2, <4>3
    <3>3. CASE Stored \in 5..10
      <4>1. words = {} /\ ~cmd_running /\ engine \in {"reset", "ready"}
        BY <1>2, <2>5, <3>3 DEF TimeInv, Idle
      <4>2. "DMA_START" \notin sha_ctrl /\ ~push
        BY <2>5, <3>3 DEF TimeInv, Pulses
      <4>3. ~cmd_running'
        BY <4>1, <4>2 DEF Tick, BusEdge, DmaClock, DmaReset, DmaStart, DmaStop, DmaStay, Starts, dmaVars
      <4>4. words' = {}
        BY <4>1, <4>2 DEF Tick, BusEdge, FifoClock, Offered
      <4>5. engine' \in {"reset", "ready"}
        BY <4>1 DEF Tick, EngineClock, EngineReset, EngineReady, EngineBusy, EngineDone, EngineStay, engVars
      <4> QED BY <4>3, <4>4, <4>5
    <3> QED BY <3>1, <3>2, <3>3
  <2> QED BY <1>2, <2>4, <2>5 DEF Idle
<1> QED BY <1>1, <1>2, Moves DEF TimeInv

(* The counter and the last enable bit tell how far the end of a reset is. *)
LEMMA LeftIs ==
  \A r \in BOOLEAN : \A l \in BOOLEAN : \A c \in 0..3 :
    /\ Left(r, l, c) \in 0..5 /\ (Left(r, l, c) = 0 <=> r)
    /\ ~r /\ l => Left(r, l, c) = 1 + c
    /\ ~r /\ ~l => Left(r, l, c) = 5
BY DEF Left

(* With the enable signal on, an edge of its clock brings a half one step
   nearer to the end of its reset, and no further away from it. *)
LEMMA ReleaseNears ==
  ASSUME IInv, Tick, rstn, sha_enable
  PROVE  /\ BusLeft \in 0..5 /\ BusLeft' = (IF BusLeft = 0 THEN 0 ELSE BusLeft - 1)
         /\ ShaLeft \in 0..5
         /\ phase = 1 => ShaLeft' = IF ShaLeft = 0 THEN 0 ELSE ShaLeft - 1
         /\ phase = 0 => ShaLeft' = ShaLeft
<1>1. sha_enable = TRUE
  BY NextPoweringUp
<1>2. /\ bus_ctr \in 0..3 /\ bus_last \in BOOLEAN /\ bus_reset_n \in BOOLEAN
      /\ bus_reset_n => bus_last /\ bus_ctr = 0
  BY DEF IInv, TypeOK, BusHalf!TypeOK, BusHalf!Hold, HalvesOrdered, BusHalf!Ordered
<1>3. /\ sha_ctr \in 0..3 /\ sha_last \in BOOLEAN /\ sha_reset_n \in BOOLEAN
      /\ sha_reset_n => sha_last /\ sha_ctr = 0
  BY DEF IInv, TypeOK, ShaHalf!TypeOK, ShaHalf!Hold, HalvesOrdered, ShaHalf!Ordered
<1>4. bus_last' \in BOOLEAN /\ bus_reset_n' \in BOOLEAN /\ bus_ctr' \in 0..3
  BY NextBusHalf DEF BusHalf!TypeOK, BusHalf!Hold
<1>5. sha_last' \in BOOLEAN /\ sha_reset_n' \in BOOLEAN /\ sha_ctr' \in 0..3
  BY NextShaHalf DEF ShaHalf!TypeOK, ShaHalf!Hold
<1>6. /\ BusLeft \in 0..5 /\ (BusLeft = 0 <=> bus_reset_n)
      /\ ~bus_reset_n => BusLeft = IF bus_last THEN 1 + bus_ctr ELSE 5
      /\ ShaLeft \in 0..5 /\ (ShaLeft = 0 <=> sha_reset_n)
      /\ ~sha_reset_n => ShaLeft = IF sha_last THEN 1 + sha_ctr ELSE 5
      /\ BusLeft' = 0 <=> bus_reset_n'
      /\ bus_reset_n' = FALSE /\ bus_last' = TRUE => BusLeft' = 1 + bus_ctr'
      /\ ShaLeft' = 0 <=> sha_reset_n'
      /\ sha_reset_n' = FALSE /\ sha_last' = TRUE => ShaLeft' = 1 + sha_ctr'
  BY <1>2, <1>3, <1>4, <1>5, LeftIs DEF BusLeft, ShaLeft
<1>7. BusLeft' = IF BusLeft = 0 THEN 0 ELSE BusLeft - 1
  <2>1. CASE bus_last /\ bus_ctr > 0
    <3>1. ~bus_reset_n /\ bus_last = TRUE /\ ~(bus_ctr = 0)
      BY <1>2, <2>1
    <3>2. BusHalf!CountDown
      BY <1>1, <1>2, <2>1, <3>1, Zenon DEF Tick, BusEdge, BusHalf!Edge, BusHalf!Clear, BusHalf!Change, BusHalf!Settle
    <3>3. bus_ctr' = bus_ctr - 1 /\ bus_last' = TRUE /\ bus_reset_n' = FALSE
      BY <1>2, <3>1, <3>2, Zenon DEF BusHalf!CountDown
    <3> QED BY <1>2, <1>4, <1>6, <2>1, <3>1, <3>3
  <2>2. CASE bus_last /\ bus_ctr = 0
    <3>1. bus_last = TRUE /\ ~(bus_ctr > 0)
      BY <1>2, <2>2
    <3>2. BusHalf!Settle
      BY <1>1, <1>2, <3>1, Zenon DEF Tick, BusEdge, BusHalf!Edge, BusHalf!Clear, BusHalf!Change, BusHalf!CountDown
    <3>3. bus_reset_n' = TRUE
      BY <1>1, <1>4, <3>2, Zenon DEF BusHalf!Settle
    <3> QED BY <1>2, <1>6, <2>2, <3>3
  <2>3. CASE ~bus_last
    <3>1. bus_ctr' = 3 /\ bus_last' = TRUE /\ bus_reset_n' = FALSE /\ ~bus_reset_n
      BY <1>1, <1>2, <2>3 DEF Tick, BusEdge, BusHalf!Edge, BusHalf!Clear, BusHalf!Change, BusHalf!CountDown,
         BusHalf!Settle, BusHalf!Hold
    <3> QED BY <1>2, <1>4, <1>6, <2>3, <3>1
  <2> QED BY <1>2, <1>4, <2>1, <2>2, <2>3
<1>8. ASSUME phase = 1
      PROVE  ShaLeft' = IF ShaLeft = 0 THEN 0 ELSE ShaLeft - 1
  <2>0. ShaHalf!Edge
    BY <1>8 DEF Tick
  <2>1. CASE sha_last /\ sha_ctr > 0
    <3>1. ~sha_reset_n /\ sha_last = TRUE /\ ~(sha_ctr = 0)
      BY <1>3, <2>1
    <3>2. ShaHalf!CountDown
      BY <1>1, <1>3, <2>0, <2>1, <3>1, Zenon DEF ShaHalf!Edge, ShaHalf!Clear, ShaHalf!Change, ShaHalf!Settle
    <3>3. sha_ctr' = sha_ctr - 1 /\ sha_last' = TRUE /\ sha_reset_n' = FALSE
      BY <1>3, <3>1, <3>2, Zenon DEF ShaHalf!CountDown
    <3> QED BY <1>3, <1>5, <1>6, <2>1, <3>1, <3>3
  <2>2. CASE sha_last /\ sha_ctr = 0
    <3>1. sha_last = TRUE /\ ~(sha_ctr > 0)
      BY <1>3, <2>2
    <3>2. ShaHalf!Settle
      BY <1>1, <1>3, <2>0, <3>1, Zenon DEF ShaHalf!Edge, ShaHalf!Clear, ShaHalf!Change, ShaHalf!CountDown
    <3>3. sha_reset_n' = TRUE
      BY <1>1, <1>5, <3>2, Zenon DEF ShaHalf!Settle
    <3> QED BY <1>3, <1>6, <2>2, <3>3
  <2>3. CASE ~sha_last
    <3>1. sha_ctr' = 3 /\ sha_last' = TRUE /\ sha_reset_n' = FALSE /\ ~sha_reset_n
      BY <1>1, <1>3, <2>0, <2>3 DEF ShaHalf!Edge, ShaHalf!Clear, ShaHalf!Change, ShaHalf!CountDown,
         ShaHalf!Settle, ShaHalf!Hold
    <3> QED BY <1>3, <1>5, <1>6, <2>3, <3>1
  <2> QED BY <1>3, <1>5, <2>1, <2>2, <2>3
<1>9. ASSUME phase = 0 PROVE ShaLeft' = ShaLeft
  BY <1>9 DEF Tick, shaVars, ShaLeft, Left
<1> QED BY <1>6, <1>7, <1>8, <1>9

(* The DataMover gets ready after the half that it belongs to. *)
LEMMA MoverNears ==
  ASSUME IInv, Tick, rstn, sha_enable
  PROVE  /\ MoverLeft \in Nat /\ MoverLeft' \in Nat
         /\ MoverLeft' <= (IF MoverLeft = 0 THEN 0 ELSE MoverLeft - 1)
<1>1. BusLeft \in 0..5 /\ BusLeft' = (IF BusLeft = 0 THEN 0 ELSE BusLeft - 1)
  BY ReleaseNears
<1>2. /\ bus_reset_n \in BOOLEAN /\ bus_reset_n' \in BOOLEAN
      /\ BusLeft = 0 <=> bus_reset_n
      /\ BusLeft' = 0 <=> bus_reset_n'
  <2>1. /\ bus_ctr \in 0..3 /\ bus_last \in BOOLEAN /\ bus_reset_n \in BOOLEAN
        /\ bus_ctr' \in 0..3 /\ bus_last' \in BOOLEAN /\ bus_reset_n' \in BOOLEAN
    BY NextBusHalf DEF IInv, TypeOK, BusHalf!TypeOK, BusHalf!Hold
  <2> QED BY <2>1, LeftIs DEF BusLeft
<1>3. MoverLag \in Nat /\ mover \in 0..MoverLag /\ mover' \in 0..MoverLag
  BY DmaTyped, ResetConstants DEF ResetConstants, IInv, TypeOK
<1>4. PICK b \in 0..5, m \in 0..MoverLag : b = BusLeft' /\ m = mover'
  BY <1>1, <1>3
<1>5. MoverLeft' = IF b = 0 THEN m ELSE b + MoverLag
  BY <1>2, <1>4 DEF MoverLeft
<1>6. CASE ~bus_reset_n
  <2>1. m = MoverLag
    BY <1>4, <1>6 DEF Tick, BusEdge, MoverClock
  <2>2. b = BusLeft - 1 /\ BusLeft # 0
    BY <1>1, <1>2, <1>4, <1>6
  <2>3. MoverLeft = BusLeft + MoverLag
    BY <1>6 DEF MoverLeft
  <2> QED BY <1>1, <1>3, <1>5, <2>1, <2>2, <2>3
<1>7. CASE bus_reset_n
  <2>1. m = 0 \/ m = IF mover > 0 THEN mover - 1 ELSE 0
    BY <1>4, <1>7 DEF Tick, BusEdge, MoverClock
  <2>2. b = 0
    BY <1>1, <1>2, <1>4, <1>7
  <2>3. MoverLeft = mover
    BY <1>7 DEF MoverLeft
  <2> QED BY <1>3, <1>5, <2>1, <2>2, <2>3
<1> QED BY <1>2, <1>6, <1>7

(* So it is with the engine, as long as it has nothing to begin with. *)
LEMMA ReadyNears ==
  ASSUME IInv, Tick, rstn, sha_enable, words = {}, engine \in {"reset", "ready"}
  PROVE  /\ EngineLeft \in 0..6
         /\ phase = 1 => EngineLeft' = IF EngineLeft = 0 THEN 0 ELSE EngineLeft - 1
         /\ phase = 0 => EngineLeft' = EngineLeft
<1>1. /\ ShaLeft \in 0..5
      /\ phase = 1 => ShaLeft' = IF ShaLeft = 0 THEN 0 ELSE ShaLeft - 1
      /\ phase = 0 => ShaLeft' = ShaLeft
  BY ReleaseNears
<1>2. (ShaLeft = 0 <=> sha_reset_n) /\ (ShaLeft' = 0 <=> sha_reset_n')
  <2>1. /\ sha_ctr \in 0..3 /\ sha_last \in BOOLEAN /\ sha_reset_n \in BOOLEAN
        /\ sha_ctr' \in 0..3 /\ sha_last' \in BOOLEAN /\ sha_reset_n' \in BOOLEAN
    BY NextShaHalf DEF IInv, TypeOK, ShaHalf!TypeOK, ShaHalf!Hold
  <2> QED BY <2>1, LeftIs DEF ShaLeft
<1>3. EngineLeft \in 0..6
  BY <1>1 DEF EngineLeft
<1>4. ASSUME phase = 1
      PROVE  EngineLeft' = IF EngineLeft = 0 THEN 0 ELSE EngineLeft - 1
  <2>1. CASE ~sha_reset_n
    <3>1. engine' = "reset"
      BY <1>4, <2>1 DEF Tick, EngineClock, EngineReset, EngineReady, EngineBusy, EngineDone, EngineStay
    <3> QED BY <1>1, <1>2, <1>4, <2>1, <3>1 DEF EngineLeft
  <2>2. CASE sha_reset_n
    <3>1. engine' = "ready"
      BY <1>4, <2>2 DEF Tick, EngineClock, EngineReset, EngineReady, EngineBusy, EngineDone, EngineStay, engVars
    <3> QED BY <1>1, <1>2, <1>4, <2>2, <3>1 DEF EngineLeft
  <2> QED BY <2>1, <2>2
<1>5. ASSUME phase = 0 PROVE EngineLeft' = EngineLeft
  BY <1>1, <1>5 DEF EngineLeft, ShaLeft, Left, Tick, shaVars, engVars
<1> QED BY <1>3, <1>4, <1>5

(* Bus clocks run with the waiting of the driver. *)
LEMMA ClocksRun ==
  ASSUME NEW n \in Nat, NEW n2 \in Nat, NEW p \in 0..1, NEW w \in Nat, NEW w2 \in Nat,
         p = 1 => n2 = (IF n = 0 THEN 0 ELSE n - 1), p = 0 => n2 = n,
         w2 = (IF w > 0 THEN w - 1 ELSE 0),
         (IF n = 0 THEN 0 ELSE 2 * n - p) <= w + 1
  PROVE  /\ (IF n2 = 0 THEN 0 ELSE 2 * n2 - (1 - p)) <= w2 + 1
         /\ w = 0 => n2 = 0
<1>1. CASE p = 1
  BY <1>1
<1>2. CASE p = 0
  BY <1>2
<1> QED BY <1>1, <1>2

(* While the driver waits, the resets that its store began come to their end. *)
LEMMA NextInTime ==
  ASSUME TimeInv, Tick, Timely
  PROVE  InTime' /\ CommandTaken'
<1> USE DEF Timely
<1>1. IInv /\ IInv' /\ phase \in 0..1 /\ phase' = 1 - phase /\ wait \in Nat /\ OwnInv
  BY NextIInv DEF TimeInv, OwnInv, IInv, TypeOK, Tick, Next
<1>2. /\ Pulses' /\ SwitchedOn'
  BY NextPulses, NextSwitchedOn
<1>3. ASSUME step = "begin", Stored \in Nat, Stored > 4, "RESET" \notin sha_ctrl
      PROVE  rstn /\ sha_enable
  BY <1>3 DEF TimeInv, SwitchedOn, sha_enable
<1>4. /\ Store => wait = 0
      /\ Elsewhere => wait' = (IF wait > 0 THEN wait - 1 ELSE 0) /\ "RESET" \notin sha_ctrl'
  BY DEF Store, Elsewhere, NoStore, OneShot
<1>5. /\ BusLeft' \in 0..5 /\ ShaLeft' \in 0..5 /\ EngineLeft' \in 0..6
      /\ ShaLeft' = 0 => sha_reset_n'
      /\ BusLeft' = 0 => bus_reset_n'
      /\ MoverLeft' \in 0..MoverLag + 5
      /\ BusLeft' = 0 /\ MoverLeft' = 0 => mover' = 0
      /\ EngineLeft' = 0 /\ engine' \in {"reset", "ready"} => engine' = "ready"
  <2>1. /\ bus_ctr' \in 0..3 /\ bus_last' \in BOOLEAN /\ bus_reset_n' \in BOOLEAN
        /\ sha_ctr' \in 0..3 /\ sha_last' \in BOOLEAN /\ sha_reset_n' \in BOOLEAN
    BY <1>1 DEF IInv, TypeOK, BusHalf!TypeOK, BusHalf!Hold, ShaHalf!TypeOK, ShaHalf!Hold
  <2>2. BusLeft' \in 0..5 /\ (BusLeft' = 0 => bus_reset_n')
    BY <2>1, LeftIs DEF BusLeft
  <2>3. ShaLeft' \in 0..5 /\ (ShaLeft' = 0 => sha_reset_n')
    BY <2>1, LeftIs DEF ShaLeft
  <2>4. EngineLeft' \in 0..6 /\ (EngineLeft' = 0 => engine' # "reset")
    <3>1. CASE sha_reset_n' = TRUE
      BY <3>1 DEF EngineLeft
    <3>2. CASE sha_reset_n' = FALSE
      <4>1. EngineLeft' = IF ~sha_reset_n' THEN ShaLeft' + 1
                          ELSE IF engine' = "reset" THEN 1 ELSE 0
        BY DEF EngineLeft
      <4>2. ~sha_reset_n'
        BY <3>2
      <4>3. EngineLeft' = ShaLeft' + 1
        BY <4>1, <4>2, Zenon
      <4>4. \A n \in 0..5 : n + 1 \in 0..6 /\ n + 1 # 0
        OBVIOUS
      <4> QED BY <2>3, <4>3, <4>4, Zenon
    <3> QED BY <2>1, <3>1, <3>2
  <2>5. MoverLeft' \in 0..MoverLag + 5 /\ (BusLeft' = 0 /\ MoverLeft' = 0 => mover' = 0)
    <3>1. PICK b \in 0..5, m \in 0..MoverLag : b = BusLeft' /\ m = mover'
      BY <1>1, <2>2 DEF IInv, TypeOK
    <3>2. MoverLeft' = IF bus_reset_n' THEN m ELSE b + MoverLag
      BY <3>1 DEF MoverLeft
    <3>3. b = 0 => bus_reset_n'
      BY <2>2, <3>1
    <3>4. MoverLag \in Nat
      BY ResetConstants DEF ResetConstants
    <3>5. CASE bus_reset_n' = TRUE
      BY <3>1, <3>2, <3>4, <3>5
    <3>6. CASE bus_reset_n' = FALSE
      <4>1. ~bus_reset_n'
        BY <3>6
      <4>2. MoverLeft' = b + MoverLag /\ b # 0
        BY <3>2, <3>3, <4>1, Zenon
      <4>3. b + MoverLag \in 0..MoverLag + 5 /\ b + MoverLag # 0
        BY <3>4, <4>2
      <4> QED BY <4>2, <4>3, Zenon
    <3> QED BY <2>1, <3>5, <3>6
  <2> QED BY <2>2, <2>3, <2>4, <2>5
<1>6. ASSUME step' = "begin", mode' = "port", Stored' = 6, "RESET" \notin sha_ctrl'
      PROVE  (BusClocks(ShaLeft))' <= wait' + 1
  <2>1. Elsewhere /\ step = "begin" /\ mode = "port" /\ Stored = 6
    <3>1. ~(Store /\ Stored' \in 1..Len(Begin(mode)) /\ Head(todo) = Begin(mode)[Stored'] /\ mode' = mode)
      <4>1. SUFFICES ASSUME Store, Stored' \in 1..Len(Begin(mode)),
                            Head(todo) = Begin(mode)[Stored'], mode' = mode
                     PROVE  FALSE
        OBVIOUS
      <4>2. Head(todo) = Sha({"ENABLE", "RESET"})
        <5>1. mode \in {"dma", "port"} /\ 6 \in 1..Len(Begin(mode)) /\ Head(todo) = Begin(mode)[6]
          BY <1>6, <4>1
        <5> QED BY <5>1, StoreIs, Zenon
      <4> QED BY <1>6, <4>1, <4>2 DEF Store, StoreTo, Sha
    <3> QED BY <1>1, <1>6, <3>1, Moves
  <2>2. CASE "RESET" \in sha_ctrl
    <3>1. wait = SleepGap
      BY <2>1, <2>2 DEF TimeInv, Pulses
    <3>2. (BusClocks(ShaLeft))' = IF ShaLeft' = 0 THEN 0 ELSE 2 * ShaLeft' - phase'
      BY DEF BusClocks
    <3> QED BY <1>1, <1>4, <1>5, <2>1, <3>1, <3>2, ResetConstants DEF ResetConstants
  <2>3. CASE "RESET" \notin sha_ctrl
    <3>1. BusClocks(ShaLeft) <= wait + 1
      BY <2>1, <2>3 DEF TimeInv, InTime
    <3>2. rstn /\ sha_enable
      BY <1>3, <2>1, <2>3
    <3> QED BY <1>1, <1>4, <2>1, <3>1, <3>2, ReleaseNears, ClocksRun DEF BusClocks
  <2> QED BY <2>2, <2>3
<1>7. ASSUME step' = "begin", mode' = "port", Stored' > 6
      PROVE  sha_reset_n'
  <2>1. /\ step = "begin" /\ mode = "port" /\ Stored \in Nat
        /\ Stored > 6 \/ (Stored = 6 /\ Store)
    BY <1>1, <1>7, Moves
  <2>2. CASE Stored > 6
    <3>1. Stored # 10
      <4>1. Stored' \in 0..8
        BY <1>1, <1>7, Moves, FeedIs
      <4> QED BY <1>1, <1>7, <4>1, Moves
    <3>2. "RESET" \notin sha_ctrl
      BY <2>2, <3>1 DEF TimeInv, Pulses
    <3>3. rstn /\ sha_enable /\ sha_reset_n
      BY <1>3, <2>1, <2>2, <3>2 DEF TimeInv, InTime
    <3>4. ShaLeft = 0
      BY <3>3 DEF ShaLeft, Left
    <3> QED BY <1>1, <1>5, <3>3, <3>4, ReleaseNears
  <2>3. CASE Stored = 6 /\ Store
    <3>1. wait = 0 /\ "RESET" \notin sha_ctrl
      BY <1>4, <2>3, ResetConstants DEF TimeInv, Pulses, ResetConstants
    <3>2. BusClocks(ShaLeft) <= 1 /\ rstn /\ sha_enable
      BY <1>3, <2>1, <2>3, <3>1 DEF TimeInv, InTime
    <3>3. ShaLeft' = 0
      BY <1>1, <3>2, ReleaseNears DEF BusClocks
    <3> QED BY <1>5, <3>3
  <2> QED BY <2>1, <2>2, <2>3
<1>8. ASSUME step = "begin", mode = "dma", Stored = 10, "RESET" \notin sha_ctrl
      PROVE  /\ BusClocks(EngineLeft) <= wait + 1
             /\ BusLeft <= wait + 1 /\ MoverLeft <= wait + 1
             /\ MoverLeft \in Nat
             /\ MoverLeft' <= (IF MoverLeft = 0 THEN 0 ELSE MoverLeft - 1)
             /\ rstn /\ sha_enable
             /\ EngineLeft \in 0..6 /\ BusLeft \in 0..5
             /\ phase = 1 => EngineLeft' = IF EngineLeft = 0 THEN 0 ELSE EngineLeft - 1
             /\ phase = 0 => EngineLeft' = EngineLeft
             /\ BusLeft' = (IF BusLeft = 0 THEN 0 ELSE BusLeft - 1)
  <2>1. words = {} /\ engine \in {"reset", "ready"}
    BY <1>8 DEF TimeInv, Idle
  <2>2. rstn /\ sha_enable
    BY <1>3, <1>8
  <2> QED BY <1>1, <1>8, <2>1, <2>2, ReleaseNears, MoverNears, ReadyNears DEF TimeInv, InTime
<1>9. ASSUME step' = "begin", Stored' = 10, "RESET" \notin sha_ctrl'
      PROVE  /\ (BusClocks(EngineLeft))' <= wait' + 1
             /\ BusLeft' <= wait' + 1 /\ MoverLeft' <= wait' + 1
  <2>1. mode' = "dma"
    <3>1. PICK m \in {"dma", "port"} : m = mode' /\ 10 \in 0..Len(Begin(m))
      BY <1>1, <1>9, Moves
    <3>2. m # "port"
      <4> SUFFICES ASSUME m = "port" PROVE FALSE
        OBVIOUS
      <4>1. Len(Begin(m)) = 8
        BY FeedIs
      <4>2. 10 \notin 0..8
        OBVIOUS
      <4> QED BY <3>1, <4>1, <4>2, Zenon
    <3> QED BY <3>1, <3>2
  <2>2. Elsewhere /\ step = "begin" /\ mode = "dma" /\ Stored = 10
    <3>1. ~(Store /\ Stored' \in 1..Len(Begin(mode)) /\ Head(todo) = Begin(mode)[Stored'] /\ mode' = mode)
      <4>1. SUFFICES ASSUME Store, Stored' \in 1..Len(Begin(mode)),
                            Head(todo) = Begin(mode)[Stored'], mode' = mode
                     PROVE  FALSE
        OBVIOUS
      <4>2. Head(todo) = Sha({"ENABLE", "RESET", "DMA_MODE"})
        <5>1. mode \in {"dma", "port"} /\ 10 \in 1..Len(Begin(mode)) /\ Head(todo) = Begin(mode)[10]
          BY <1>9, <2>1, <4>1
        <5> QED BY <5>1, StoreIs, Zenon
      <4> QED BY <1>9, <4>1, <4>2 DEF Store, StoreTo, Sha
    <3> QED BY <1>1, <1>9, <2>1, <3>1, Moves
  <2>3. (BusClocks(EngineLeft))' = IF EngineLeft' = 0 THEN 0 ELSE 2 * EngineLeft' - phase'
    BY DEF BusClocks
  <2>4. CASE "RESET" \in sha_ctrl
    <3>1. wait = StoreGap
      BY <2>2, <2>4 DEF TimeInv, Pulses
    <3>2. (BusClocks(EngineLeft))' <= wait' + 1 /\ BusLeft' <= wait' + 1
      BY <1>1, <1>4, <1>5, <2>2, <2>3, <3>1, ResetConstants DEF ResetConstants
    <3>3. MoverLeft' <= wait' + 1
      BY <1>1, <1>4, <1>5, <2>2, <3>1, ResetConstants DEF ResetConstants
    <3> QED BY <3>2, <3>3
  <2>5. CASE "RESET" \notin sha_ctrl
    <3>1. (BusClocks(EngineLeft))' <= wait' + 1
      BY <1>1, <1>4, <1>8, <2>2, <2>5, ClocksRun DEF BusClocks
    <3>2. BusLeft' <= wait' + 1
      BY <1>1, <1>4, <1>8, <2>2, <2>5
    <3>3. MoverLeft' <= wait' + 1
      BY <1>1, <1>4, <1>5, <1>8, <2>2, <2>5, ResetConstants DEF ResetConstants
    <3> QED BY <3>1, <3>2, <3>3
  <2> QED BY <2>4, <2>5
<1>10. ASSUME "DMA_START" \in sha_ctrl'
       PROVE  bus_reset_n' /\ ~cmd_running' /\ Starts'
  <2>1. step' = "begin" /\ Stored' = 11 /\ mode' = "dma"
    BY <1>2, <1>10 DEF Pulses
  <2>2. /\ Store /\ step = "begin" /\ mode = "dma" /\ Stored = 10
        /\ Stored' \in 1..Len(Begin(mode)) /\ Head(todo) = Begin(mode)[Stored']
    <3>1. ~Elsewhere
      BY <1>10 DEF Elsewhere, NoStore, OneShot
    <3> QED BY <1>1, <2>1, <3>1, Moves
  <2>3. "DMA_MODE" \in sha_ctrl'
    <3>1. Head(todo) = Sha({"ENABLE", "DMA_MODE", "DMA_START"})
      BY <2>1, <2>2, StoreIs
    <3> QED BY <2>2, <3>1 DEF Store, StoreTo, Sha
  <2>4. wait = 0 /\ "RESET" \notin sha_ctrl
    BY <1>4, <2>2, ResetConstants DEF TimeInv, Pulses, ResetConstants
  <2>5. EngineLeft' = 0 /\ BusLeft' = 0 /\ mover' = 0
    <3>1. EngineLeft' = 0 /\ BusLeft' = 0
      BY <1>1, <1>8, <2>2, <2>4 DEF BusClocks
    <3>2. MoverLeft' = 0
      BY <1>5, <1>8, <2>2, <2>4, ResetConstants DEF ResetConstants
    <3> QED BY <1>5, <3>1, <3>2
  <2>6. engine' \in {"reset", "ready"} /\ ~cmd_running'
    <3>1. /\ words = {} /\ engine \in {"reset", "ready"} /\ ~cmd_running
          /\ "DMA_START" \notin sha_ctrl
      BY <2>2 DEF TimeInv, Idle, Pulses
    <3>2. ~cmd_running'
      BY <3>1 DEF Tick, BusEdge, DmaClock, DmaReset, DmaStart, DmaStop, DmaStay, Starts, dmaVars
    <3>3. engine' \in {"reset", "ready"}
      BY <3>1 DEF Tick, EngineClock, EngineReset, EngineReady, EngineBusy, EngineDone, EngineStay, engVars
    <3> QED BY <3>2, <3>3
  <2> QED BY <1>5, <1>10, <2>3, <2>5, <2>6 DEF Starts
<1> QED BY <1>6, <1>7, <1>9, <1>10 DEF InTime, CommandTaken

(* At the beginning of the first run nothing is on or under way. *)
LEMMA InitTime == ASSUME Init PROVE TimeInv
<1>1. OwnInv /\ Stored = 0
  <2>1. mode \in {"dma", "port"} /\ todo = Begin(mode)
    BY ResetConstants DEF Init, ResetConstants
  <2> QED BY <2>1, InitOwn, BeginIs DEF Stored
<1>2. SwitchedOn /\ Pulses /\ Closing /\ Idle /\ InTime /\ CommandTaken
  BY <1>1 DEF Init, SwitchedOn, Pulses, Closing, Idle, InTime, CommandTaken
<1> QED BY <1>1, <1>2 DEF TimeInv

(* A step keeps all of it. *)
LEMMA NextTime == ASSUME TimeInv, [Next]_vars, Timely PROVE TimeInv'
<1>1. OwnInv'
  BY NextOwn DEF TimeInv
<1>2. CASE Tick
  BY <1>1, <1>2, NextSwitchedOn, NextPulses, NextIdle, NextInTime DEF TimeInv
<1>3. CASE UNCHANGED vars
  <2>1. UNCHANGED <<job, mode, step, todo, wait, rstn, phase, x11_enable, sha_ctrl, push,
                    bus_last, bus_ctr, bus_reset_n, sha_last, sha_ctr, sha_reset_n,
                    cmd_running, mover, words, engine>>
    BY <1>3 DEF vars, driverVars, ctrlVars, busVars, shaVars, dmaVars, engVars
  <2>2. Begin(mode)' = Begin(mode)
    BY <2>1 DEF Begin, Feed, Disable, Activate, ResetShot
  <2>3. Stored' = Stored
    BY <2>1, <2>2 DEF Stored
  <2>4. SwitchedOn' /\ Pulses' /\ Closing' /\ Idle' /\ CommandTaken'
    BY <2>1, <2>3 DEF TimeInv, SwitchedOn, Pulses, Closing, Idle, CommandTaken, Starts
  <2>5. InTime'
    BY <2>1, <2>3 DEF TimeInv, InTime, BusClocks, ShaLeft, BusLeft, MoverLeft, Left, EngineLeft
  <2> QED BY <1>1, <2>4, <2>5 DEF TimeInv
<1> QED BY <1>2, <1>3 DEF Next

(* The invariant holds for a driver that is no faster than Timely says. *)
THEOREM TimeHolds == ASSUME Timely PROVE Spec => []TimeInv
<1>1. Init => TimeInv
  BY InitTime
<1>2. TimeInv /\ [Next]_vars => TimeInv'
  BY NextTime
<1> QED BY <1>1, <1>2, PTL DEF Spec

(* DMA_START, which lasts one clock, is never dropped: it finds the DMA engine
   out of reset and the SHA-256 engine and the DataMover ready, although the
   store before it reset them, if the DataMover is ready MoverLag clocks after
   its reset and the driver leaves five clocks more between two stores. *)
THEOREM CommandNeverDropped == ASSUME Timely PROVE Spec => []CommandTaken
<1>1. TimeInv => CommandTaken
  BY DEF TimeInv
<1> QED BY <1>1, TimeHolds, PTL

(* A word that the driver pushes is never lost in a FIFO that is still held
   in reset, nor mistaken for one of the DMA. *)
THEOREM PushNeverLost == ASSUME Timely PROVE Spec => []PushLands
<1>1. TimeInv => PushLands
  <2> SUFFICES ASSUME TimeInv, push PROVE sha_reset_n /\ "DMA_MODE" \notin sha_ctrl
    BY DEF PushLands
  <2>1. step = "begin" /\ mode = "port" /\ Stored > 6
    BY DEF TimeInv, Pulses
  <2>2. sha_reset_n
    BY <2>1 DEF TimeInv, InTime
  <2>3. Stored > 4
    <3>1. Stored \in Nat
      BY <2>1, BeginIs DEF TimeInv, OwnInv, IInv, TypeOK, Pending, Stored, Program
    <3> QED BY <2>1, <3>1
  <2> QED BY <2>1, <2>2, <2>3 DEF TimeInv, SwitchedOn
<1> QED BY <1>1, TimeHolds, PTL
============================================================================
