--------------------------- MODULE RstClken_proofs ---------------------------
(***************************************************************************)
(* Proofs about RstClken, for whatever the enable bit and the reset of the *)
(* clock domain do.                                                        *)
(***************************************************************************)
EXTENDS RstClken, TLAPS

(* Type correctness and Ordered need each other: one inductive invariant,
   with what holds while the clock domain is in reset. *)
IInv == TypeOK /\ Ordered

LEMMA InitIInv == Init => IInv
<1> SUFFICES ASSUME Init PROVE IInv
  OBVIOUS
<1>1. enable_ctr \in 0..Hold
  BY DEF Init, Cleared, Hold
<1>2. Ordered
  BY DEF Init, Cleared, Ordered
<1> QED BY <1>1, <1>2 DEF Init, Cleared, IInv, TypeOK

(* The counter: the only variable that is a number. *)
LEMMA CounterInRange == TypeOK /\ Next => enable_ctr' \in 0..Hold
<1> SUFFICES ASSUME enable_ctr \in 0..Hold, Edge PROVE enable_ctr' \in 0..Hold
  BY DEF TypeOK, Next
<1>1. CASE enable_ctr' = 0
  BY <1>1 DEF Hold
<1>2. CASE enable_ctr' = Hold
  BY <1>2 DEF Hold
<1>3. CASE enable_ctr > 0 /\ enable_ctr' = enable_ctr - 1
  BY <1>3 DEF Hold
<1>4. CASE enable_ctr' = enable_ctr
  BY <1>4
<1> QED BY <1>1, <1>2, <1>3, <1>4 DEF Edge, Clear, Change, CountDown, Settle

LEMMA NextIInv == IInv /\ [Next]_<<inputs, register>> => IInv'
<1> SUFFICES ASSUME IInv, [Next]_<<inputs, register>> PROVE IInv'
  OBVIOUS
<1> USE DEF IInv, TypeOK, Ordered
<1>1. CASE UNCHANGED <<inputs, register>>
  BY <1>1 DEF inputs, register
<1>2. CASE Next
  <2>1. enable_ctr' \in 0..Hold
    BY <1>2, CounterInRange
  <2>2. rstn' \in BOOLEAN /\ enable' \in BOOLEAN
    BY <1>2 DEF Next, Inputs
  <2>3. CASE Clear
    BY <1>2, <2>1, <2>2, <2>3, Zenon DEF Next, Inputs, Clear
  <2>4. CASE Change
    BY <1>2, <2>1, <2>2, <2>4, Zenon DEF Next, Inputs, Change
  <2>5. CASE CountDown
    <3>1. enable_ctr # 0
      BY <2>5 DEF CountDown
    <3> QED BY <1>2, <2>1, <2>2, <2>5, <3>1, Zenon DEF Next, Inputs, CountDown
  <2>6. CASE Settle
    BY <1>2, <2>1, <2>2, <2>6, Zenon DEF Next, Inputs, Settle
  <2> QED BY <1>2, <2>3, <2>4, <2>5, <2>6 DEF Next, Edge
<1> QED BY <1>1, <1>2

(* Every register of red_pitaya_rst_clken.sv keeps to its type; the counter
   never runs below zero. *)
THEOREM TypeCorrect == Spec => []TypeOK
<1>1. IInv => TypeOK
  BY DEF IInv
<1> QED BY InitIInv, NextIInv, <1>1, PTL DEF Spec

(* A part out of reset is enabled, settled and clocked, and a part without
   a clock is in reset. *)
THEOREM ResetOrdered == Spec => []Ordered
<1>1. IInv => Ordered
  BY DEF IInv
<1> QED BY InitIInv, NextIInv, <1>1, PTL DEF Spec

(* Reset is left by no other step than Settle, that is, with the enable bit
   unchanged over an edge and the counter at zero: a change of the bit, up
   or down, always costs the whole hold time. *)
THEOREM ReleaseSettled ==
  Spec => [][~reset_n /\ reset_n' => Settle /\ enable /\ clk_en]_<<inputs, register>>
<1>1. IInv /\ [Next]_<<inputs, register>>
        => [~reset_n /\ reset_n' => Settle /\ enable /\ clk_en]_<<inputs, register>>
  <2> SUFFICES ASSUME IInv, Next, ~reset_n, reset_n'
               PROVE Settle /\ enable /\ clk_en
    BY DEF inputs, register
  <2>1. ~Clear /\ ~Change /\ ~CountDown
    BY DEF Clear, Change, CountDown, IInv, TypeOK
  <2>2. Settle
    BY <2>1 DEF Next, Edge
  <2> QED BY <2>2 DEF Settle, IInv, TypeOK, Ordered, Next, Inputs
<1> QED BY InitIInv, NextIInv, <1>1, PTL DEF Spec
=============================================================================
