------------------------------ MODULE RstClken ------------------------------
(***************************************************************************)
(* red_pitaya_rst_clken.sv: the reset and the clock enable of a part of    *)
(* the FPGA that the software can switch off.  Switched on, the part gets  *)
(* its clock at once and leaves reset when the counter has run down;       *)
(* switched off, it is reset at once and loses its clock later.  A step is *)
(* one rising edge of clk_i.                                               *)
(***************************************************************************)
EXTENDS Naturals

VARIABLES rstn,          \* rstn_i: reset of the clock domain, active low
          enable,        \* enable_i
          enable_last,   \* enable_i at the last edge
          enable_ctr,    \* two bits
          reset_n,       \* reset_n_o
          clk_en         \* clk_en_o

inputs   == <<rstn, enable>>
register == <<enable_last, enable_ctr, reset_n, clk_en>>

Hold == 3                \* 2'b11, what the counter is loaded with

Cleared ==
  /\ enable_last = FALSE /\ enable_ctr = 0
  /\ reset_n = FALSE /\ clk_en = FALSE

Init == rstn = FALSE /\ enable = FALSE /\ Cleared

(* enable_last follows enable_i in reset, too: line 66 comes last. *)
Clear ==
  /\ ~rstn
  /\ clk_en' = FALSE /\ reset_n' = FALSE /\ enable_ctr' = 0
  /\ enable_last' = enable

(* mutant: the reset is not asserted when the part is switched off *)
ChangeQuiet ==
  /\ rstn /\ enable # enable_last
  /\ enable_ctr' = Hold /\ enable_last' = enable
  /\ clk_en' = (clk_en \/ enable)
  /\ UNCHANGED reset_n

Change ==
  /\ rstn /\ enable # enable_last
  /\ enable_ctr' = Hold /\ enable_last' = enable
  /\ clk_en' = (clk_en \/ enable)
  /\ reset_n' = (reset_n /\ enable)

CountDown ==
  /\ rstn /\ enable = enable_last /\ enable_ctr > 0
  /\ enable_ctr' = enable_ctr - 1
  /\ UNCHANGED <<enable_last, reset_n, clk_en>>

Settle ==
  /\ rstn /\ enable = enable_last /\ enable_ctr = 0
  /\ reset_n' = (reset_n \/ enable)
  /\ clk_en' = (clk_en /\ enable)
  /\ UNCHANGED <<enable_last, enable_ctr>>

Edge == Clear \/ Change \/ CountDown \/ Settle

(* The enable bit may change at any edge; it is cleared by the same reset,
   and so is low before and when the reset ends. *)
Inputs ==
  /\ rstn' \in BOOLEAN /\ enable' \in BOOLEAN
  /\ ~rstn /\ rstn' => ~enable /\ ~enable'

Next == Edge /\ Inputs
Spec == Init /\ [][Next]_<<inputs, register>>

----------------------------------------------------------------------------
TypeOK ==
  /\ rstn \in BOOLEAN /\ enable \in BOOLEAN /\ enable_last \in BOOLEAN
  /\ enable_ctr \in 0..Hold
  /\ reset_n \in BOOLEAN /\ clk_en \in BOOLEAN

(* A part out of reset was enabled at the last edge, its hold time is over,
   and it has its clock; a part without a clock is in reset.  However short
   a drop of the enable bit is, it thus leads through a whole reset. *)
Ordered ==
  /\ reset_n => enable_last /\ enable_ctr = 0 /\ clk_en
  /\ ~clk_en => ~reset_n /\ (rstn => ~enable_last)
============================================================================
