------------------------------ MODULE AxiSlave ------------------------------
(***************************************************************************)
(* fpga/rtl/axi_slave.v: the bridge from the AXI port of the processors to *)
(* the system bus of the FPGA, together with the two kinds of modules that *)
(* sit on this bus (top.sv): regs.sv acknowledges an access one clock      *)
(* after it, an unused port acknowledges all the time.  "mute" stands for  *)
(* a module that never does, which the acknowledge counter is there for.   *)
(* A step is one edge of the bus clock (125 MHz).                          *)
(*                                                                         *)
(* The master has one write and one read under way at most: the registers  *)
(* are mapped as device memory, and one core waits for each.  The address  *)
(* and the data of a write travel on their own; the data may come later.   *)
(* The burst lines of an access are held until it is over.  One register   *)
(* stands for all, and the data of a write is its number.                  *)
(***************************************************************************)
EXTENDS Naturals

CONSTANTS Ports,         \* bus modules: of "regs", "unused", "mute"
          Lags,          \* for each port, by how many clocks after the
                         \* address was accepted the data may come
          TimeOut,       \* clocks until the bridge answers itself: 32
          Numbers,       \* writes are numbered 1..Numbers, and again
          Patient        \* whether the master is always ready for answers

ASSUME SlaveConstants ==
  /\ Ports \subseteq {"regs", "unused", "mute"}
  /\ Lags \in [Ports -> SUBSET Nat]
  /\ TimeOut \in Nat /\ TimeOut > 2
  /\ Numbers \in Nat \ {0}
  /\ Patient \in BOOLEAN

VARIABLES write,         \* the write under way: number, port, burst
          awvalid,       \* its address is offered
          wlag, wvalid,  \* clocks until its data is offered, and offered
          wdone, bdone,  \* its data was taken, its answer has come
          read,          \* the read under way: port, burst
          arvalid, rdone,
          wr_do, wr_awaddr, wr_wdata, wr_error,
          rd_do, rd_araddr, rd_error,
          ack_cnt,
          bvalid, bresp, \* write response; bresp: it is an error
          rvalid, rresp, rdata,
          sys_wen, sys_ren,
          sys_ack, sys_rdata,   \* the answer of regs.sv
          register,      \* the register of regs.sv
          stored,        \* history: how often the write was passed on
          window         \* history: values of the register since the read

writer == <<write, awvalid, wlag, wvalid, wdone, bdone>>
reader == <<read, arvalid, rdone>>
bridge == <<wr_do, wr_awaddr, wr_wdata, wr_error, rd_do, rd_araddr, rd_error,
            ack_cnt, bvalid, bresp, rvalid, rresp, rdata, sys_wen, sys_ren>>
bus    == <<sys_ack, sys_rdata, register>>
vars   == <<writer, reader, bridge, bus, stored, window>>

Writes == [number : 1..Numbers, port : Ports, burst : BOOLEAN]
Reads  == [port : Ports, burst : BOOLEAN]

----------------------------------------------------------------------------
(* The wires.  wr_errorw and rd_errorw look at the length and size lines of
   the port at every clock, not at a latched copy: that they stay for the
   whole access is an assumption on the master. *)
wr_errorw == write.burst
rd_errorw == read.burst
awready == ~wr_do /\ ~rd_do
wready  == (wr_do \/ wr_errorw) /\ wvalid

(* mutant: a read is accepted although a write is offered *)
arreadyBoth == ~rd_do /\ ~wr_do

arready == ~rd_do /\ ~wr_do /\ ~awvalid

sys_addr == IF rd_do THEN rd_araddr ELSE wr_awaddr
bus_ack  == sys_addr = "unused" \/ (sys_addr = "regs" /\ sys_ack)
bus_data == IF sys_addr = "regs" THEN sys_rdata ELSE 0

(* mutant: the bridge never answers itself *)
ackNever == bus_ack \/ (rd_do /\ rd_errorw) \/ (wr_do /\ wr_errorw)

ack == \/ bus_ack \/ ack_cnt >= TimeOut
       \/ (rd_do /\ rd_errorw) \/ (wr_do /\ wr_errorw)

----------------------------------------------------------------------------
Init ==
  /\ write \in Writes /\ write.number = 1
  /\ awvalid = FALSE /\ wlag = 0 /\ wvalid = FALSE /\ wdone = TRUE /\ bdone = TRUE
  /\ read \in Reads /\ arvalid = FALSE /\ rdone = TRUE
  /\ wr_do = FALSE /\ wr_awaddr \in Ports /\ wr_wdata = 0 /\ wr_error = FALSE
  /\ rd_do = FALSE /\ rd_araddr \in Ports /\ rd_error = FALSE
  /\ ack_cnt = 0
  /\ bvalid = FALSE /\ bresp = FALSE
  /\ rvalid = FALSE /\ rresp = FALSE /\ rdata = 0
  /\ sys_wen = FALSE /\ sys_ren = FALSE
  /\ sys_ack = FALSE /\ sys_rdata = 0 /\ register = 0
  /\ stored = 0 /\ window = {0}

----------------------------------------------------------------------------
(* The master's write channels. *)
NewWrite ==
  /\ wdone /\ bdone
  /\ write' \in Writes /\ write'.number = (write.number % Numbers) + 1
  /\ awvalid' = TRUE /\ wlag' \in Lags[write'.port]
  /\ wvalid' = (wlag' = 0)
  /\ wdone' = FALSE /\ bdone' = FALSE

NoWrite == wdone /\ bdone /\ UNCHANGED writer

(* The address is held until it was accepted, then the data is due after
   wlag clocks and is held until it was accepted. *)
WriteGoesOn(bready) ==
  /\ ~(wdone /\ bdone)
  /\ awvalid' = (awvalid /\ ~awready)
  /\ wlag' = IF ~awvalid /\ wlag > 0 THEN wlag - 1 ELSE wlag
  /\ wdone' = (wdone \/ (wvalid /\ wready))
  /\ wvalid' = (~wdone' /\ (wvalid \/ (~awvalid /\ wlag <= 1)))
  /\ bdone' = (bdone \/ (bvalid /\ bready))
  /\ UNCHANGED write

Writer(bready) == NewWrite \/ NoWrite \/ WriteGoesOn(bready)

(* The master's read channels. *)
NewRead ==
  /\ rdone
  /\ read' \in Reads /\ arvalid' = TRUE /\ rdone' = FALSE

NoRead == rdone /\ UNCHANGED reader

ReadGoesOn(rready) ==
  /\ ~rdone
  /\ arvalid' = (arvalid /\ ~arready)
  /\ rdone' = (rvalid /\ rready)
  /\ UNCHANGED read

Reader(rready) == NewRead \/ NoRead \/ ReadGoesOn(rready)

----------------------------------------------------------------------------
(* The bridge: requests. *)

(* mutant: the data is latched with the address *)
WriteRequestEarly(bready) ==
  /\ wr_do' = IF wr_do THEN ~(bready /\ ack) ELSE awvalid /\ ~rd_do
  /\ wr_awaddr' = IF awvalid /\ awready THEN write.port ELSE wr_awaddr
  /\ wr_error' = IF awvalid /\ awready THEN wr_errorw ELSE wr_error
  /\ wr_wdata' = IF wvalid /\ awvalid /\ awready THEN write.number ELSE wr_wdata

WriteRequest(bready) ==
  /\ wr_do' = IF wr_do THEN ~(bready /\ ack) ELSE awvalid /\ ~rd_do
  /\ wr_awaddr' = IF awvalid /\ awready THEN write.port ELSE wr_awaddr
  /\ wr_error' = IF awvalid /\ awready THEN wr_errorw ELSE wr_error
  /\ wr_wdata' = IF wvalid /\ wr_do THEN write.number ELSE wr_wdata

ReadRequest(rready) ==
  /\ rd_do' = IF rd_do THEN ~(rready /\ ack) ELSE arvalid /\ ~awvalid /\ ~wr_do
  /\ rd_araddr' = IF arvalid /\ arready THEN read.port ELSE rd_araddr
  /\ rd_error' = IF arvalid /\ arready THEN rd_errorw ELSE rd_error

(* The answers last one clock. *)
Answers ==
  /\ bvalid' = (wr_do /\ ack) /\ bresp' = (wr_error \/ ack_cnt >= TimeOut)
  /\ rvalid' = (rd_do /\ ack) /\ rresp' = (rd_error \/ ack_cnt >= TimeOut)
  /\ rdata' = bus_data

(* mutant: a wider counter that an acknowledge does not stop *)
ProtectionFree ==
  ack_cnt' = IF (arvalid /\ arready) \/ (awvalid /\ awready) THEN 1
             ELSE IF ack_cnt = 0 THEN 0 ELSE ack_cnt + 1

(* A counter of six bits. *)
Protection ==
  ack_cnt' = IF (arvalid /\ arready) \/ (awvalid /\ awready) THEN 1
             ELSE IF ack \/ ack_cnt = 0 THEN 0 ELSE (ack_cnt + 1) % (2 * TimeOut)

(* mutant: the write strobe lasts as long as the request *)
StrobesLong ==
  /\ sys_wen' = (wr_do /\ ~wr_errorw /\ (wvalid \/ wdone))
  /\ sys_ren' = (arvalid /\ arready /\ ~rd_errorw)

Strobes ==
  /\ sys_wen' = (wr_do /\ wvalid /\ ~wr_errorw)
  /\ sys_ren' = (arvalid /\ arready /\ ~rd_errorw)

Bridge(bready, rready) ==
  WriteRequest(bready) /\ ReadRequest(rready) /\ Answers /\ Protection /\ Strobes

(* mutant: the address alone is acknowledged, without an access *)
RegsEager ==
  /\ sys_ack' = (sys_addr = "regs")
  /\ sys_rdata' = IF sys_addr = "regs" /\ sys_ren THEN register ELSE sys_rdata
  /\ register' = IF sys_addr = "regs" /\ sys_wen THEN wr_wdata ELSE register

(* regs.sv: an access is done and acknowledged at the next edge. *)
Regs ==
  /\ sys_ack' = (sys_addr = "regs" /\ (sys_wen \/ sys_ren))
  /\ sys_rdata' = IF sys_addr = "regs" /\ sys_ren THEN register ELSE sys_rdata
  /\ register' = IF sys_addr = "regs" /\ sys_wen THEN wr_wdata ELSE register

Watch ==
  /\ stored' = IF NewWrite THEN 0 ELSE IF sys_wen' THEN stored + 1 ELSE stored
  /\ window' = IF NewRead THEN {register'} ELSE window \cup {register'}

Readies == IF Patient THEN {TRUE} ELSE BOOLEAN

Clock ==
  \E bready, rready \in Readies :
    Writer(bready) /\ Reader(rready) /\ Bridge(bready, rready) /\ Regs /\ Watch

Next == Clock
Spec == Init /\ [][Next]_vars
FairSpec == Spec /\ WF_vars(Clock)

----------------------------------------------------------------------------
Values == 0..Numbers

(* Every variable holds a value of its type. *)
TypeOK ==
  /\ write \in Writes /\ read \in Reads
  /\ wlag \in Nat /\ ack_cnt \in 0..2 * TimeOut - 1
  /\ {awvalid, wvalid, wdone, bdone, arvalid, rdone, wr_do, wr_error, rd_do,
      rd_error, bvalid, bresp, rvalid, rresp, sys_wen, sys_ren, sys_ack}
       \subseteq BOOLEAN
  /\ wr_awaddr \in Ports /\ rd_araddr \in Ports
  /\ wr_wdata \in Values /\ rdata \in Values /\ sys_rdata \in Values
  /\ register \in Values /\ window \subseteq Values
  /\ stored \in Nat

(* What is passed on to the bus is the write under way, with its own data
   at its own address, and no read is on the bus at that time. *)
OwnData ==
  sys_wen => /\ ~(wdone /\ bdone) /\ ~rd_do
             /\ wr_wdata = write.number /\ wr_awaddr = write.port

(* A write is answered once it has been passed on, and a write that is
   answered as failed was not carried out: a burst, which the bridge does
   not pass on, or one that nobody acknowledged. *)
AnswerTrue ==
  bvalid => /\ stored = IF write.burst THEN 0 ELSE 1
            /\ bresp <=> (write.burst \/ write.port = "mute")

(* An answer comes for an access that waits for it, and a read gets a value
   that the register had since the read began: neither older, nor the
   value that an earlier read left on the bus. *)
ReadFresh ==
  /\ bvalid => ~bdone
  /\ rvalid => ~rdone
  /\ rvalid => (rresp <=> (read.burst \/ read.port = "mute"))
  /\ rvalid /\ ~rresp => rdata \in (IF read.port = "regs" THEN window ELSE {0})

(* Reads and writes come to an end, although writes have priority and the
   writer may never pause: the bridge is idle for a clock in between. *)
Answered == (~rdone ~> rdone) /\ (~bdone ~> bdone /\ wdone)
============================================================================
