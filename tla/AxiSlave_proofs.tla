--------------------------- MODULE AxiSlave_proofs ---------------------------
(***************************************************************************)
(* Proofs about AxiSlave, for every time-out, any numbers and ports, and   *)
(* data that comes late, but four clocks before the bridge gives up.  The  *)
(* master is ready for an answer, as a core that waits for one is.         *)
(***************************************************************************)
EXTENDS AxiSlave, TLAPS

(* What the master must keep to: a write to an unused port, which answers at
   once, has its data with the address, any other in time. *)
Timely ==
  /\ Patient
  /\ \A p \in Ports : \A l \in Lags[p] :
       l + 4 <= TimeOut /\ (p = "unused" => l = 0)

(* Where the write under way is: offered, at the bridge, answered, or over. *)
WriteCourse ==
  /\ bdone <=> ~awvalid /\ ~wr_do /\ ~bvalid
  /\ ~(awvalid /\ wr_do) /\ ~(awvalid /\ bvalid) /\ ~(wr_do /\ bvalid)
  /\ wr_do => ~rd_do /\ wr_awaddr = write.port /\ wr_error = write.burst

(* Its data: due in time, taken once, and passed on unless it is a burst. *)
DataCourse ==
  /\ wdone => ~wvalid
  /\ ~wdone => (wvalid <=> wlag = 0)
  /\ ~bdone => wlag + 4 <= TimeOut /\ (write.port = "unused" => wlag = 0)
  /\ ~bdone /\ ~write.burst => (awvalid => ~wdone) /\ (bvalid => wdone)
  /\ ~bdone => stored = IF wdone /\ ~write.burst THEN 1 ELSE 0

(* The bridge has clocks left until the data, and then the acknowledge of
   regs.sv, is there. *)
InTime ==
  wr_do /\ ~write.burst =>
    /\ ~wdone => ack_cnt + wlag + 3 <= TimeOut
    /\ wdone => write.port # "unused"
    /\ wdone /\ write.port = "regs" =>
         (sys_wen /\ ack_cnt + 2 <= TimeOut) \/ (sys_ack /\ ack_cnt + 1 <= TimeOut)

(* The strobes and the acknowledge of regs.sv belong to one access. *)
OnBus ==
  /\ sys_wen => /\ wdone /\ ~bdone /\ ~write.burst /\ ~rd_do /\ ~sys_ack
                /\ wr_wdata = write.number /\ wr_awaddr = write.port
                /\ wr_do \/ write.port = "unused"
  /\ sys_ren => rd_do /\ ~read.burst /\ ~sys_ack /\ ack_cnt = 1
  /\ sys_ack => \/ wr_do /\ wdone /\ ~write.burst /\ write.port = "regs"
                \/ rd_do /\ ~read.burst /\ read.port = "regs" /\ ack_cnt = 2

(* Where the read under way is, and what answers it. *)
ReadCourse ==
  /\ rdone <=> ~arvalid /\ ~rd_do /\ ~rvalid
  /\ ~(arvalid /\ rd_do) /\ ~(arvalid /\ rvalid) /\ ~(rd_do /\ rvalid)
  /\ rd_do => rd_araddr = read.port /\ rd_error = read.burst
  /\ rd_do /\ ~read.burst /\ read.port = "unused" => sys_ren
  /\ rd_do /\ ~read.burst /\ read.port = "regs" =>
       sys_ren \/ (sys_ack /\ sys_rdata \in window)
  /\ register \in window

(* The bridge answers itself before the counter passes the time-out. *)
Counter == ack_cnt <= TimeOut

(* The inductive invariant. *)
IInv ==
  /\ TypeOK
  /\ WriteCourse /\ DataCourse /\ InTime /\ OnBus /\ ReadCourse /\ Counter
  /\ AnswerTrue /\ ReadFresh

(* A step of a patient master. *)
Step ==
  Writer(TRUE) /\ Reader(TRUE) /\ Bridge(TRUE, TRUE) /\ Regs /\ Watch

(* Under Timely both ready lines are always on. *)
LEMMA PatientStep == ASSUME Timely, Next PROVE Step
BY DEF Timely, Next, Clock, Readies, Step

(* A write is offered, then at the bridge, then answered, one at a time. *)
LEMMA NextWriteCourse ==
  ASSUME IInv, Step
  PROVE  WriteCourse'
<1> USE DEF IInv, TypeOK, WriteCourse, DataCourse
<1>1. CASE NewWrite
  BY <1>1 DEF Step, Bridge, WriteRequest, ReadRequest, Answers, NewWrite, awready, arready
<1>2. CASE NoWrite
  BY <1>2 DEF Step, Bridge, WriteRequest, ReadRequest, Answers, NoWrite, awready, arready, writer
<1>3. CASE WriteGoesOn(TRUE)
  BY <1>3 DEF Step, Bridge, WriteRequest, ReadRequest, Answers, WriteGoesOn, awready, arready, wr_errorw
<1> QED BY <1>1, <1>2, <1>3 DEF Step, Writer

(* The data is taken once, before the answer, and passed on once. *)
LEMMA NextDataCourse ==
  ASSUME IInv, Step, Timely
  PROVE  DataCourse'
<1> USE DEF IInv, TypeOK, WriteCourse, DataCourse, Writes
<1>1. CASE NewWrite
  BY <1>1 DEF Step, Bridge, Strobes, Answers, NewWrite, Timely, Watch
<1>2. CASE NoWrite
  BY <1>2 DEF Step, NoWrite, writer
<1>3. CASE WriteGoesOn(TRUE)
  <2>1. (wlag' + 4 <= TimeOut /\ (write.port = "unused" => wlag' = 0)) \/ bdone'
    BY <1>3, SlaveConstants DEF WriteGoesOn, SlaveConstants
  <2>2. (wdone' => ~wvalid') /\ (~wdone' => (wvalid' <=> wlag' = 0))
    BY <1>3 DEF WriteGoesOn
  <2>3. ~bdone' /\ ~write.burst => (awvalid' => ~wdone') /\ (bvalid' => wdone')
    BY <1>3, SlaveConstants DEF Step, Bridge, Answers, WriteGoesOn, wready, awready,
       wr_errorw, rd_errorw, InTime, OnBus, ack, bus_ack, sys_addr, SlaveConstants
  <2>4. ~NewWrite
    BY <1>3 DEF NewWrite, WriteGoesOn
  <2>5. ~bdone' => stored' = IF wdone' /\ ~write.burst THEN 1 ELSE 0
    BY <1>3, <2>4 DEF Step, Bridge, Strobes, Watch, WriteGoesOn, wready, wr_errorw
  <2> QED BY <1>3, <2>1, <2>2, <2>3, <2>5 DEF WriteGoesOn
<1> QED BY <1>1, <1>2, <1>3 DEF Step, Writer

(* The counter of six bits does not overflow: the bridge answers itself
   first. *)
LEMMA NextCounter ==
  ASSUME IInv, Step
  PROVE  /\ Counter' /\ ack_cnt' \in Nat
         /\ wr_do /\ ~ack => ack_cnt' \in {0, ack_cnt + 1}
         /\ ~wr_do /\ wr_do' => ack_cnt' = 1
         /\ rd_do /\ ~ack => ack_cnt' \in {0, ack_cnt + 1}
         /\ rd_do /\ ~ack /\ ack_cnt = 1 => ack_cnt' = 2
         /\ ~rd_do /\ rd_do' => ack_cnt' = 1
         /\ sys_ren' => ack_cnt' = 1
<1>1. ack_cnt \in Nat /\ TimeOut \in Nat /\ TimeOut > 2 /\ ack_cnt <= TimeOut
  BY SlaveConstants DEF IInv, TypeOK, Counter, SlaveConstants
<1>2. ASSUME ~ack
      PROVE  (ack_cnt + 1) % (2 * TimeOut) = ack_cnt + 1 /\ ack_cnt < TimeOut
  <2>1. ack_cnt < TimeOut
    BY <1>1, <1>2 DEF ack
  <2> QED BY <1>1, <2>1
<1>3. CASE ack
  BY <1>1, <1>3 DEF Step, Bridge, Protection, Counter, WriteRequest, ReadRequest,
     Strobes, awready, arready, IInv, TypeOK, WriteCourse
<1>4. CASE ~ack
  BY <1>1, <1>2, <1>4 DEF Step, Bridge, Protection, Counter, WriteRequest, ReadRequest,
     Strobes, awready, arready, IInv, TypeOK, WriteCourse
<1> QED BY <1>3, <1>4

(* Arithmetic of the time that is left. *)
LEMMA Later ==
  ASSUME NEW t \in Nat, NEW c \in Nat, NEW d \in Nat, d <= c + 1
  PROVE  /\ c + 2 <= t => d + 1 <= t
         /\ \A l \in Nat : c + l + 3 <= t => d + 2 <= t /\ (l > 0 => d + (l - 1) + 3 <= t)
OBVIOUS

(* The data of a write, and the acknowledge of regs.sv, come before the bridge
   gives up. *)
LEMMA NextInTime ==
  ASSUME IInv, Step, Timely
  PROVE  InTime'
<1> USE DEF IInv, TypeOK, WriteCourse, DataCourse, InTime, Writes
<1>1. CASE NewWrite
  BY <1>1, NextWriteCourse DEF NewWrite
<1>2. CASE NoWrite
  BY <1>2, NextWriteCourse DEF Step, NoWrite, writer
<1>3. CASE WriteGoesOn(TRUE)
  <2> SUFFICES ASSUME wr_do', ~write.burst PROVE InTime'
    BY <1>3 DEF WriteGoesOn
  <2> TimeOut \in Nat /\ ack_cnt \in Nat /\ wlag \in Nat
    BY SlaveConstants DEF SlaveConstants
  <2>1. CASE ~wr_do
    <3>1. ack_cnt' = 1 /\ awvalid
      BY <2>1, NextCounter DEF Step, Bridge, WriteRequest
    <3>2. ~wdone' /\ wlag' = wlag /\ wlag + 4 <= TimeOut
      BY <1>3, <2>1, <3>1 DEF WriteGoesOn, wready, wr_errorw
    <3> QED BY <3>1, <3>2
  <2>2. CASE wr_do
    <3>1. ~ack /\ ack_cnt' \in {0, ack_cnt + 1}
      BY <2>2, NextCounter DEF Step, Bridge, WriteRequest
    <3>2. ~(write.port = "unused") /\ ~(write.port = "regs" /\ sys_ack)
      BY <2>2, <3>1 DEF ack, bus_ack, sys_addr
    <3>3. ~wdone' => ~wdone /\ wlag > 0 /\ wlag' = wlag - 1
      BY <1>3, <2>2 DEF WriteGoesOn, wready
    <3>4. /\ ~wdone => ack_cnt + wlag + 3 <= TimeOut
          /\ wdone /\ write.port = "regs" => sys_wen /\ ack_cnt + 2 <= TimeOut
      BY <2>2, <3>2
    <3>5. ack_cnt' \in Nat /\ ack_cnt' <= ack_cnt + 1
      BY <3>1
    <3>6. ~wdone' => ack_cnt' + wlag' + 3 <= TimeOut
      <4>1. ASSUME ~wdone' PROVE wlag > 0 /\ wlag' = wlag - 1 /\ ack_cnt + wlag + 3 <= TimeOut
        BY <3>3, <3>4, <4>1
      <4> HIDE DEF IInv, TypeOK, WriteCourse, DataCourse, InTime
      <4> QED BY <3>5, <4>1, Later
    <3>7. ASSUME write.port = "regs", wdone'
          PROVE  (sys_wen' /\ ack_cnt' + 2 <= TimeOut) \/ (sys_ack' /\ ack_cnt' + 1 <= TimeOut)
      <4>1. CASE wdone
        <5>1. sys_ack'
          BY <2>2, <3>4, <3>7, <4>1 DEF Step, Regs, sys_addr
        <5>2. ack_cnt + 2 <= TimeOut
          BY <3>4, <3>7, <4>1
        <5>3. ack_cnt' + 1 <= TimeOut
          <6> HIDE DEF IInv, TypeOK, WriteCourse, DataCourse, InTime
          <6> QED BY <3>5, <5>2, Later
        <5> QED BY <5>1, <5>3
      <4>2. CASE ~wdone
        <5>1. sys_wen'
          BY <1>3, <2>2, <3>7, <4>2
          DEF WriteGoesOn, wready, Step, Bridge, Strobes, wr_errorw
        <5>2. ack_cnt + wlag + 3 <= TimeOut
          BY <3>4, <4>2
        <5>3. ack_cnt' + 2 <= TimeOut
          <6> HIDE DEF IInv, TypeOK, WriteCourse, DataCourse, InTime
          <6> QED BY <3>5, <5>2, Later
        <5> QED BY <5>1, <5>3
      <4> QED BY <4>1, <4>2
    <3> QED BY <1>3, <3>2, <3>6, <3>7 DEF WriteGoesOn
  <2> QED BY <2>1, <2>2
<1> QED BY <1>1, <1>2, <1>3 DEF Step, Writer

(* Strobes and acknowledges on the bus belong to the access under way. *)
LEMMA NextOnBus ==
  ASSUME IInv, Step, Timely
  PROVE  OnBus'
<1> USE DEF IInv, TypeOK, WriteCourse, DataCourse, OnBus, Writes
<1>1. ASSUME sys_wen'
      PROVE  /\ wdone' /\ ~bdone' /\ ~write'.burst /\ ~rd_do' /\ ~sys_ack'
             /\ wr_wdata' = write'.number /\ wr_awaddr' = write'.port
             /\ wr_do' \/ write'.port = "unused"
  <2>1. wr_do /\ wvalid /\ ~write.burst /\ ~wdone /\ ~bdone
    BY <1>1 DEF Step, Bridge, Strobes, wr_errorw
  <2>2. WriteGoesOn(TRUE)
    BY <2>1 DEF Step, Writer, NewWrite, NoWrite
  <2>3. wdone' /\ ~bdone' /\ write' = write
    BY <2>1, <2>2 DEF WriteGoesOn, wready
  <2>4. ~rd_do' /\ wr_wdata' = write.number /\ wr_awaddr' = write.port
    BY <2>1 DEF Step, Bridge, WriteRequest, ReadRequest, awready
  <2>5. ~sys_ack'
    BY <2>1 DEF Step, Regs
  <2>6. wr_do' \/ write.port = "unused"
    <3>1. ~ack \/ write.port = "unused"
      BY <2>1, SlaveConstants DEF ack, bus_ack, sys_addr, wr_errorw, rd_errorw, InTime, SlaveConstants
    <3> QED BY <2>1, <3>1 DEF Step, Bridge, WriteRequest
  <2> QED BY <2>1, <2>3, <2>4, <2>5, <2>6
<1>2. ASSUME sys_ren'
      PROVE  rd_do' /\ ~read'.burst /\ ~sys_ack' /\ ack_cnt' = 1
  <2>1. arvalid /\ arready /\ ~read.burst
    BY <1>2 DEF Step, Bridge, Strobes, rd_errorw
  <2>2. rd_do' /\ ack_cnt' = 1
    BY <1>2, <2>1, NextCounter DEF Step, Bridge, ReadRequest, arready
  <2>3. read' = read
    BY <2>1 DEF Step, Reader, NewRead, NoRead, ReadGoesOn, reader, ReadCourse
  <2>4. ~sys_ack'
    BY <2>1 DEF Step, Regs, arready, sys_addr
  <2> QED BY <2>1, <2>2, <2>3, <2>4
<1>3. ASSUME sys_ack'
      PROVE  \/ wr_do' /\ wdone' /\ ~write'.burst /\ write'.port = "regs"
             \/ rd_do' /\ ~read'.burst /\ read'.port = "regs" /\ ack_cnt' = 2
  <2>1. sys_addr = "regs" /\ (sys_wen \/ sys_ren)
    BY <1>3 DEF Step, Regs
  <2>2. CASE sys_wen
    <3>1. wr_do /\ write.port = "regs"
      BY <2>1, <2>2 DEF sys_addr
    <3>2. ~ack
      BY <2>2, <3>1, SlaveConstants DEF ack, bus_ack, sys_addr, InTime, SlaveConstants, wr_errorw, rd_errorw
    <3>3. wr_do' /\ wdone' /\ write' = write
      BY <2>2, <3>1, <3>2 DEF Step, Bridge, WriteRequest, Writer, NewWrite, NoWrite, writer, WriteGoesOn
    <3> QED BY <2>2, <3>1, <3>3
  <2>3. CASE sys_ren
    <3>1. rd_do /\ read.port = "regs" /\ ack_cnt = 1 /\ ~rdone
      BY <2>1, <2>3 DEF sys_addr, ReadCourse
    <3>2. ~ack
      BY <2>3, <3>1, SlaveConstants DEF ack, bus_ack, sys_addr, SlaveConstants, rd_errorw, ReadCourse
    <3>3. rd_do' /\ read' = read /\ ack_cnt' = 2
      BY <2>3, <3>1, <3>2, NextCounter DEF Step, Bridge, ReadRequest, Reader, NewRead, NoRead, ReadGoesOn
    <3> QED BY <2>3, <3>1, <3>3
  <2> QED BY <2>1, <2>2, <2>3
<1> QED BY <1>1, <1>2, <1>3

(* A read is offered, then at the bridge, then answered; the answer of the
   registers is there one clock after the strobe. *)
LEMMA NextReadCourse ==
  ASSUME IInv, Step, Timely
  PROVE  ReadCourse'
<1> USE DEF IInv, TypeOK, ReadCourse, Reads
<1>1. /\ rdone' <=> ~arvalid' /\ ~rd_do' /\ ~rvalid'
      /\ ~(arvalid' /\ rd_do') /\ ~(arvalid' /\ rvalid') /\ ~(rd_do' /\ rvalid')
      /\ rd_do' => rd_araddr' = read'.port /\ rd_error' = read'.burst
  <2>1. CASE NewRead
    BY <2>1 DEF Step, Bridge, ReadRequest, Answers, NewRead, arready
  <2>2. CASE NoRead
    BY <2>2 DEF Step, Bridge, ReadRequest, Answers, NoRead, arready, reader
  <2>3. CASE ReadGoesOn(TRUE)
    BY <2>3 DEF Step, Bridge, ReadRequest, Answers, ReadGoesOn, arready, rd_errorw
  <2> QED BY <2>1, <2>2, <2>3 DEF Step, Reader
<1>2. register' \in window'
  BY DEF Step, Watch
<1>3. ASSUME rd_do', ~read'.burst
      PROVE  /\ read'.port = "unused" => sys_ren'
             /\ read'.port = "regs" => sys_ren' \/ (sys_ack' /\ sys_rdata' \in window')
  <2>1. ReadGoesOn(TRUE)
    BY <1>3, <1>1 DEF Step, Bridge, ReadRequest, Reader, NewRead, NoRead, reader
  <2>2. read' = read /\ ~NewRead
    BY <2>1 DEF ReadGoesOn, NewRead
  <2>3. CASE ~rd_do
    BY <1>3, <2>2, <2>3 DEF Step, Bridge, Strobes, ReadRequest, arready, rd_errorw
  <2>4. CASE rd_do
    <3>1. ~ack
      BY <1>3, <2>4 DEF Step, Bridge, ReadRequest
    <3>2. ~(read.port = "unused") /\ ~(read.port = "regs" /\ sys_ack)
      BY <2>4, <3>1 DEF ack, bus_ack, sys_addr
    <3>3. read.port = "regs" => sys_ack' /\ sys_rdata' = register /\ register \in window'
      BY <1>3, <2>2, <2>4, <3>2 DEF Step, Regs, Watch, sys_addr
    <3> QED BY <2>2, <3>2, <3>3
  <2> QED BY <2>3, <2>4
<1> QED BY <1>1, <1>2, <1>3

(* A step keeps the types. *)
LEMMA NextTyped ==
  ASSUME IInv, Step, Timely
  PROVE  TypeOK'
<1> USE DEF IInv, TypeOK, Writes, Reads
<1>1. Values \subseteq Nat /\ 0 \in Values /\ \A n \in 1..Numbers : n \in Values
  BY SlaveConstants DEF Values, SlaveConstants
<1>2. write' \in Writes
  BY DEF Step, Writer, NewWrite, NoWrite, WriteGoesOn, writer
<1>3. read' \in Reads
  BY DEF Step, Reader, NewRead, NoRead, ReadGoesOn, reader
<1>4. wlag' \in Nat
  <2>1. CASE NewWrite
    <3>1. write'.port \in Ports /\ wlag' \in Lags[write'.port]
      BY <2>1 DEF NewWrite
    <3> QED BY <3>1, SlaveConstants DEF SlaveConstants
  <2>2. CASE NoWrite
    BY <2>2 DEF NoWrite, writer
  <2>3. CASE WriteGoesOn(TRUE)
    BY <2>3 DEF WriteGoesOn
  <2> QED BY <2>1, <2>2, <2>3 DEF Step, Writer
<1>5. ack_cnt' \in 0..2 * TimeOut - 1
  BY NextCounter, SlaveConstants DEF Counter, SlaveConstants
<1>6. awvalid' \in BOOLEAN /\ wvalid' \in BOOLEAN /\ wdone' \in BOOLEAN /\ bdone' \in BOOLEAN
  BY DEF Step, Writer, NewWrite, NoWrite, WriteGoesOn, writer
<1>7. arvalid' \in BOOLEAN /\ rdone' \in BOOLEAN
  BY DEF Step, Reader, NewRead, NoRead, ReadGoesOn, reader
<1>8. wr_do' \in BOOLEAN /\ rd_do' \in BOOLEAN /\ wr_error' \in BOOLEAN /\ rd_error' \in BOOLEAN
  BY DEF Step, Bridge, WriteRequest, ReadRequest, wr_errorw, rd_errorw
<1>9. bvalid' \in BOOLEAN /\ bresp' \in BOOLEAN /\ rvalid' \in BOOLEAN /\ rresp' \in BOOLEAN
  BY DEF Step, Bridge, Answers
<1>10. sys_wen' \in BOOLEAN /\ sys_ren' \in BOOLEAN /\ sys_ack' \in BOOLEAN
  BY DEF Step, Bridge, Strobes, Regs
<1>11. wr_awaddr' \in Ports /\ rd_araddr' \in Ports
  BY DEF Step, Bridge, WriteRequest, ReadRequest
<1>12. wr_wdata' \in Values /\ rdata' \in Values
  BY <1>1 DEF Step, Bridge, WriteRequest, Answers, bus_data
<1>13. sys_rdata' \in Values /\ register' \in Values
  BY DEF Step, Regs
<1>14. window' \subseteq Values
  BY <1>13 DEF Step, Watch
<1>15. stored' \in Nat
  BY DEF Step, Watch
<1> QED
  BY <1>2, <1>3, <1>4, <1>5, <1>6, <1>7, <1>8, <1>9, <1>10, <1>11, <1>12, <1>13,
     <1>14, <1>15

(* An acknowledge tells the truth about the access it ends. *)
LEMMA NextAnswers ==
  ASSUME IInv, Step, Timely
  PROVE  AnswerTrue' /\ ReadFresh'
<1> USE DEF IInv, TypeOK, WriteCourse, ReadCourse, Writes, Reads
<1> TimeOut \in Nat /\ TimeOut > 2 /\ ack_cnt \in Nat /\ Ports \subseteq {"regs", "unused", "mute"}
  BY SlaveConstants DEF SlaveConstants
<1>1. ASSUME bvalid'
      PROVE  /\ stored' = IF write'.burst THEN 0 ELSE 1
             /\ bresp' <=> (write'.burst \/ write'.port = "mute")
             /\ ~bdone'
  <2>1. wr_do /\ ack /\ ~bdone /\ ~bvalid
    BY <1>1 DEF Step, Bridge, Answers
  <2>2. WriteGoesOn(TRUE)
    BY <2>1 DEF Step, Writer, NewWrite, NoWrite
  <2>3. write' = write /\ ~bdone' /\ ~awvalid' /\ wr_error = write.burst
    BY <2>1, <2>2 DEF WriteGoesOn
  <2>4. stored' = IF write'.burst THEN 0 ELSE 1
    <3>1. DataCourse'
      BY NextDataCourse
    <3> QED BY <1>1, <2>3, <3>1 DEF DataCourse
  <2>5. ASSUME ~write.burst
        PROVE  (ack_cnt >= TimeOut) <=> write.port = "mute"
    <3>1. bus_ack \/ ack_cnt >= TimeOut
      BY <2>1, <2>5 DEF ack, wr_errorw
    <3>2. wr_awaddr = write.port /\ sys_addr = write.port
      BY <2>1 DEF sys_addr
    <3>3. write.port = "mute" => ack_cnt >= TimeOut
      BY <3>1, <3>2 DEF bus_ack
    <3>4. CASE ~wdone
      <4>1. ack_cnt + wlag + 3 <= TimeOut /\ wlag \in Nat
        BY <2>1, <2>5, <3>4 DEF InTime
      <4>2. ack_cnt < TimeOut
        BY <4>1
      <4> QED BY <3>3, <4>2
    <3>5. CASE wdone
      <4>1. write.port = "regs" => ack_cnt + 1 <= TimeOut
        BY <2>1, <2>5, <3>5 DEF InTime
      <4>2. write.port = "regs" \/ write.port = "mute"
        BY <2>1, <2>5, <3>5 DEF InTime
      <4>3. write.port = "regs" => ~(ack_cnt >= TimeOut)
        BY <4>1
      <4> QED BY <3>3, <4>2, <4>3
    <3> QED BY <3>4, <3>5
  <2>6. bresp' <=> (write.burst \/ write.port = "mute")
    BY <2>3, <2>5 DEF Step, Bridge, Answers
  <2> QED BY <2>3, <2>4, <2>6
<1>2. ASSUME rvalid'
      PROVE  /\ ~rdone'
             /\ rresp' <=> (read'.burst \/ read'.port = "mute")
             /\ ~rresp' => rdata' \in (IF read'.port = "regs" THEN window' ELSE {0})
  <2>1. rd_do /\ ack /\ ~rdone /\ ~rvalid
    BY <1>2 DEF Step, Bridge, Answers
  <2>2. ReadGoesOn(TRUE)
    BY <2>1 DEF Step, Reader, NewRead, NoRead
  <2>3. read' = read /\ ~rdone' /\ ~NewRead /\ rd_error = read.burst
    BY <2>1, <2>2 DEF ReadGoesOn, NewRead
  <2>4. sys_addr = read.port
    BY <2>1 DEF sys_addr
  <2>5. ASSUME ~read.burst
        PROVE  /\ (ack_cnt >= TimeOut) <=> read.port = "mute"
               /\ read.port # "mute" =>
                    bus_data \in (IF read.port = "regs" THEN window ELSE {0})
    <3>1. bus_ack \/ ack_cnt >= TimeOut
      BY <2>1, <2>5 DEF ack, rd_errorw
    <3>2. CASE read.port = "mute"
      BY <3>1, <3>2, <2>4 DEF bus_ack
    <3>3. CASE read.port = "unused"
      <4>1. sys_ren /\ ack_cnt = 1
        BY <2>1, <2>5, <3>3 DEF OnBus
      <4> QED BY <2>4, <3>3, <4>1 DEF bus_data
    <3>4. CASE read.port = "regs"
      <4>1. sys_ack
        BY <2>1, <2>4, <2>5, <3>1, <3>4 DEF bus_ack, OnBus
      <4>2. ~sys_ren /\ ~wr_do
        BY <2>1, <4>1 DEF OnBus
      <4>3. ack_cnt = 2 /\ sys_rdata \in window
        BY <2>1, <2>5, <3>4, <4>1, <4>2 DEF OnBus
      <4> QED BY <2>4, <3>4, <4>3 DEF bus_data
    <3> QED BY <3>2, <3>3, <3>4
  <2>6. rresp' <=> (read.burst \/ read.port = "mute")
    BY <2>3, <2>5 DEF Step, Bridge, Answers
  <2>7. rdata' = bus_data /\ window \subseteq window'
    BY <2>3 DEF Step, Bridge, Answers, Watch
  <2> QED BY <2>3, <2>5, <2>6, <2>7
<1> QED BY <1>1, <1>2 DEF AnswerTrue, ReadFresh

(* The invariant holds initially. *)
LEMMA InitIInv == ASSUME Timely, Init PROVE IInv
<1> USE SlaveConstants DEF SlaveConstants, Init
<1>1. TypeOK
  <2>1. 0 \in Values /\ 0 \in 0..2 * TimeOut - 1 /\ 0 \in Nat
    BY DEF Values
  <2>2. write \in Writes /\ read \in Reads /\ wr_awaddr \in Ports /\ rd_araddr \in Ports
    OBVIOUS
  <2>3. {awvalid, wvalid, wdone, bdone, arvalid, rdone, wr_do, wr_error, rd_do,
         rd_error, bvalid, bresp, rvalid, rresp, sys_wen, sys_ren, sys_ack}
           \subseteq BOOLEAN
    OBVIOUS
  <2>4. wlag = 0 /\ ack_cnt = 0 /\ wr_wdata = 0 /\ rdata = 0 /\ sys_rdata = 0
        /\ register = 0 /\ window = {0} /\ stored = 0
    OBVIOUS
  <2> HIDE SlaveConstants DEF SlaveConstants, Init
  <2> QED BY <2>1, <2>2, <2>3, <2>4 DEF TypeOK
<1>2. WriteCourse /\ DataCourse /\ InTime /\ OnBus /\ ReadCourse /\ Counter
  BY DEF WriteCourse, DataCourse, InTime, OnBus, ReadCourse, Counter
<1>3. AnswerTrue /\ ReadFresh
  BY DEF AnswerTrue, ReadFresh
<1> QED BY <1>1, <1>2, <1>3 DEF IInv

(* A step, also one of something else, keeps the invariant. *)
LEMMA NextIInv == ASSUME Timely, IInv, [Next]_vars PROVE IInv'
<1>1. CASE Next
  <2>1. Step
    BY <1>1, PatientStep
  <2> QED
    BY <2>1, NextWriteCourse, NextDataCourse, NextInTime, NextOnBus, NextReadCourse,
       NextCounter, NextTyped, NextAnswers DEF IInv
<1>2. CASE UNCHANGED vars
  BY <1>2 DEF vars, writer, reader, bridge, bus, IInv, TypeOK, WriteCourse, DataCourse,
     InTime, OnBus, ReadCourse, Counter, AnswerTrue, ReadFresh
<1> QED BY <1>1, <1>2

----------------------------------------------------------------------------
(* The invariant holds in every state of every behaviour. *)
THEOREM InvariantHolds ==
  ASSUME Timely
  PROVE  Spec => []IInv
<1>1. Init => IInv
  BY InitIInv
<1>2. IInv /\ [Next]_vars => IInv'
  BY NextIInv
<1> QED BY <1>1, <1>2, PTL DEF Spec

(* Every variable keeps its type; the counter stays within its six bits. *)
THEOREM TypeCorrect ==
  ASSUME Timely
  PROVE  Spec => []TypeOK
<1>1. IInv => TypeOK
  BY DEF IInv
<1> QED BY <1>1, InvariantHolds, PTL

(* Each write reaches the bus with its own data at its own address, and never
   beside a read, although its data may come after its address. *)
THEOREM WritesOwnData ==
  ASSUME Timely
  PROVE  Spec => []OwnData
<1>1. IInv => OwnData
  BY DEF IInv, OnBus, OwnData
<1> QED BY <1>1, InvariantHolds, PTL

(* A write is answered after it was passed on exactly once, and answered as
   failed exactly if it was not carried out. *)
THEOREM AnswersTrue ==
  ASSUME Timely
  PROVE  Spec => []AnswerTrue
<1>1. IInv => AnswerTrue
  BY DEF IInv
<1> QED BY <1>1, InvariantHolds, PTL

(* Each answer is waited for, and a read gets a value of the register from its
   own time. *)
THEOREM ReadsFresh ==
  ASSUME Timely
  PROVE  Spec => []ReadFresh
<1>1. IInv => ReadFresh
  BY DEF IInv
<1> QED BY <1>1, InvariantHolds, PTL
=============================================================================
