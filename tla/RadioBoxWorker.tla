--------------------------- MODULE RadioBoxWorker ---------------------------
(***************************************************************************)
(* The RadioBox web application (apps-free/radiobox/src): the thread of    *)
(* the web server that calls rp_set_params, rp_get_params and rp_app_exit  *)
(* (cb_http.c), and the worker thread that takes the posted parameters,    *)
(* programs the FPGA and exports the result (worker.c).  They share the    *)
(* list that was posted (g_rp_cb_in_params), the list that was exported    *)
(* (g_rb_info_worker_params), each under its mutex, the state of the       *)
(* worker, also under a mutex, and, without one, g_transport_pktIdx and    *)
(* the pointer to the registers.                                           *)
(*                                                                         *)
(* A critical section is one action.  Four parameters stand for the list   *)
(* of main.c: rb_run switches the radio, rb_calib is single-shot, route is *)
(* where the outputs are taken from (rfout1_csp_s), qrg is the carrier     *)
(* (tx_car_osc_qrg_f, with tx_modsrc_s and qrg_inc_s at their defaults).   *)
(***************************************************************************)
EXTENDS Naturals, Functions

CONSTANTS Routes,        \* values of the parameter route
          PresetRoute,   \* src_con_pnt that fpga_rb_enable(1) sets
          Qrgs,          \* values of the parameter qrg
          MaxPosts       \* bound on the number of POST requests

ASSUME WorkerConstants ==
  /\ 0 \in Routes /\ Routes \subseteq Nat /\ PresetRoute \in Nat
  /\ 0 \in Qrgs /\ Qrgs \subseteq Nat
  /\ MaxPosts \in Nat

VARIABLES http,          \* what the web server's thread is doing
          request,       \* the list it was called with
          reply,         \* the list it returned last
          cb_in,         \* g_rp_cb_in_params
          info,          \* g_rb_info_worker_params
          pktIdx, busy,  \* g_transport_pktIdx: index, and flag 0x80
          init_done,     \* g_params_init_done
          ctrl,          \* s_worker_ctrl_state
          worker,        \* what the worker thread is doing
          l_state,       \* its copy of ctrl
          l_init_done,   \* its copy of init_done
          params,        \* s_worker_params
          copy,          \* l_cb_in_copy_params
          seenIdx,       \* pktIdx as loaded by the worker
          mapped, regs,  \* the mapping and the registers of the FPGA
          pointer,       \* whether g_fpga_rb_reg_mem is set
          cache,         \* src_con_pnt_old and tx_car_osc_qrg_old
          posts, posted, before,    \* history: posts, their sum, but the last
          calibAsked, calibDone     \* history: calibrations

httpVars   == <<http, request, reply>>
workerVars == <<worker, l_state, l_init_done, params, copy, seenIdx>>
pktVars    == <<pktIdx, busy>>
fpgaVars   == <<mapped, pointer, regs, cache>>
histVars   == <<posts, posted, before, calibAsked, calibDone>>
vars == <<httpVars, workerVars, pktVars, fpgaVars, histVars,
          cb_in, info, init_done, ctrl>>

----------------------------------------------------------------------------
Names == {"rb_run", "rb_calib", "route", "qrg"}
Lists == [rb_run : 0..1, rb_calib : 0..1, route : Routes, qrg : Qrgs]
Defaults == [n \in Names |-> 0]
NoList == <<>>

(* The transport frames of the user interface, and the lists they post. *)
Frames == {1, 2}
FrameNames(f) == IF f = 1 THEN {"rb_run", "rb_calib", "route"} ELSE {"qrg"}
FrameLists(f) == {Restrict(l, FrameNames(f)) : l \in Lists}

(* The reply to frame f holds its names but rb_calib; frame 0, everything. *)
ReplyNames(f) == IF f = 0 THEN Names ELSE FrameNames(f) \ {"rb_calib"}

(* mutant: a posted frame replaces the whole list *)
UpdateReplace(list, newer) == IF newer = NoList THEN list ELSE newer

(* list with the values of newer where it has them *)
Update(list, newer) ==
  [n \in DOMAIN list |-> IF n \in DOMAIN newer THEN newer[n] ELSE list[n]]

(* fpga_rb_enable leaves the carrier alone. *)
Enabled(r)  == [r EXCEPT !.on = TRUE, !.src = PresetRoute]
Disabled(r) == [r EXCEPT !.on = FALSE, !.src = 0]

----------------------------------------------------------------------------
(* rp_app_init has started the worker, and has mapped and preset the FPGA,
   unless fpga_init failed: nobody looks at what it returns. *)
Init ==
  /\ http = "idle" /\ request = NoList /\ reply = NoList
  /\ cb_in = NoList /\ info = NoList
  /\ pktIdx = 0 /\ busy = FALSE /\ seenIdx = 0
  /\ init_done = FALSE /\ l_init_done = FALSE
  /\ ctrl = "idle" /\ l_state = "idle" /\ worker = "start"
  /\ params = Defaults /\ copy = NoList
  /\ mapped \in BOOLEAN /\ pointer = mapped /\ cache = [src |-> 0, qrg |-> 0]
  /\ regs = [on |-> mapped, src |-> IF mapped THEN PresetRoute ELSE 0, qrg |-> 0]
  /\ posts = 0 /\ posted = Defaults /\ before = Defaults
  /\ calibAsked = 0 /\ calibDone = 0

----------------------------------------------------------------------------
(* A POST is rp_set_params, then rp_get_params; a GET the latter alone. *)
Post(f) ==
  /\ http = "idle" /\ posts < MaxPosts
  /\ posts' = posts + 1
  /\ request' \in {[idx |-> f, list |-> l] : l \in FrameLists(f)}
  /\ http' = "set_queue"
  /\ UNCHANGED <<reply, workerVars, pktVars, fpgaVars, posted, before,
                 calibAsked, calibDone, cb_in, info, init_done, ctrl>>

(* mutant: a list that still waits is overwritten *)
SetQueueOver ==
  /\ http = "set_queue"
  /\ cb_in' = request.list
  /\ before' = posted /\ posted' = Update(posted, request.list)
  /\ calibAsked' = calibAsked +
       (IF "rb_calib" \in DOMAIN request.list THEN request.list["rb_calib"] ELSE 0)
  /\ http' = "set_flag"
  /\ UNCHANGED <<request, reply, workerVars, pktVars, fpgaVars, posts,
                 calibDone, info, init_done, ctrl>>

SetQueue ==
  /\ http = "set_queue" /\ cb_in = NoList
  /\ cb_in' = request.list
  /\ before' = posted /\ posted' = Update(posted, request.list)
  /\ calibAsked' = calibAsked +
       (IF "rb_calib" \in DOMAIN request.list THEN request.list["rb_calib"] ELSE 0)
  /\ http' = "set_flag"
  /\ UNCHANGED <<request, reply, workerVars, pktVars, fpgaVars, posts,
                 calibDone, info, init_done, ctrl>>

SetFlag ==
  /\ http = "set_flag"
  /\ pktIdx' = request.idx /\ busy' = TRUE
  /\ http' = "get_flag"
  /\ UNCHANGED <<request, reply, workerVars, fpgaVars, histVars,
                 cb_in, info, init_done, ctrl>>

Get ==
  /\ http = "idle"
  /\ http' = "get_flag" /\ request' = NoList
  /\ UNCHANGED <<reply, workerVars, pktVars, fpgaVars, histVars,
                 cb_in, info, init_done, ctrl>>

(* mutant: the flag 0x80 is not waited for *)
GetFlagHasty ==
  /\ http = "get_flag"
  /\ http' = "get_info"
  /\ UNCHANGED <<request, reply, workerVars, pktVars, fpgaVars, histVars,
                 cb_in, info, init_done, ctrl>>

GetFlag ==
  /\ http = "get_flag" /\ ~busy
  /\ http' = "get_info"
  /\ UNCHANGED <<request, reply, workerVars, pktVars, fpgaVars, histVars,
                 cb_in, info, init_done, ctrl>>

GetInfo ==
  /\ http = "get_info" /\ info # NoList
  /\ reply' = Restrict(info, ReplyNames(pktIdx))
  /\ http' = "idle" /\ request' = NoList
  /\ UNCHANGED <<workerVars, pktVars, fpgaVars, histVars,
                 cb_in, info, init_done, ctrl>>

(* rp_app_exit: fpga_exit disables the radio, unmaps the registers and clears
   the pointer to them, then worker_exit asks the worker to quit and joins it. *)
ExitDisable ==
  /\ http = "idle"
  /\ regs' = (IF pointer THEN Disabled(regs) ELSE regs)
  /\ http' = "exit_unmap"
  /\ UNCHANGED <<request, reply, workerVars, pktVars, mapped, pointer, cache,
                 histVars, cb_in, info, init_done, ctrl>>

ExitUnmap ==
  /\ http = "exit_unmap"
  /\ mapped' = FALSE /\ http' = "exit_clear"
  /\ UNCHANGED <<request, reply, workerVars, pktVars, pointer, regs, cache,
                 histVars, cb_in, info, init_done, ctrl>>

ExitClear ==
  /\ http = "exit_clear"
  /\ pointer' = FALSE /\ http' = "exit_quit"
  /\ UNCHANGED <<request, reply, workerVars, pktVars, mapped, regs, cache,
                 histVars, cb_in, info, init_done, ctrl>>

ExitQuit ==
  /\ http = "exit_quit"
  /\ ctrl' = "quit" /\ http' = "exit_join"
  /\ UNCHANGED <<request, reply, workerVars, pktVars, fpgaVars, histVars,
                 cb_in, info, init_done>>

ExitJoin ==
  /\ http = "exit_join" /\ worker = "ended"
  /\ params' = NoList /\ http' = "unloaded"
  /\ UNCHANGED <<request, reply, worker, l_state, l_init_done, copy, seenIdx,
                 pktVars, fpgaVars, histVars, cb_in, info, init_done, ctrl>>

----------------------------------------------------------------------------
(* The worker thread. *)
Start ==
  /\ worker = "start"
  /\ ctrl' = "idle" /\ l_state' = "idle" /\ worker' = "top"
  /\ UNCHANGED <<httpVars, l_init_done, params, copy, seenIdx, pktVars,
                 fpgaVars, histVars, cb_in, info, init_done>>

ReadState ==
  /\ worker = "top"
  /\ l_state' = ctrl /\ worker' = "take"
  /\ UNCHANGED <<httpVars, l_init_done, params, copy, seenIdx, pktVars,
                 fpgaVars, histVars, cb_in, info, init_done, ctrl>>

(* mutant: the list is read but not freed *)
TakeKeep ==
  /\ worker = "take"
  /\ l_init_done' = init_done
  /\ copy' = IF init_done THEN cb_in ELSE params
  /\ worker' = "purge"
  /\ UNCHANGED <<httpVars, l_state, params, seenIdx, pktVars,
                 fpgaVars, histVars, cb_in, info, init_done, ctrl>>

(* Before the first pass the worker's own list is what configures the FPGA;
   a list that was posted meanwhile waits for the next pass. *)
Take ==
  /\ worker = "take"
  /\ l_init_done' = init_done
  /\ copy' = IF init_done THEN cb_in ELSE params
  /\ cb_in' = IF init_done THEN NoList ELSE cb_in
  /\ worker' = "purge"
  /\ UNCHANGED <<httpVars, l_state, params, seenIdx, pktVars,
                 fpgaVars, histVars, info, init_done, ctrl>>

Purge ==
  /\ worker = "purge"
  /\ info' = IF copy # NoList THEN NoList ELSE info
  /\ worker' = "decide"
  /\ UNCHANGED <<httpVars, l_state, l_init_done, params, copy, seenIdx, pktVars,
                 fpgaVars, histVars, cb_in, init_done, ctrl>>

(* New data takes the worker out of any state. *)
GoNormal ==
  /\ worker = "decide" /\ copy # NoList
  /\ ctrl' = "normal" /\ l_state' = "normal" /\ worker' = "normal"
  /\ UNCHANGED <<httpVars, l_init_done, params, copy, seenIdx, pktVars,
                 fpgaVars, histVars, cb_in, info, init_done>>

StayIdle ==
  /\ worker = "decide" /\ copy = NoList /\ l_state = "idle"
  /\ worker' = "top"
  /\ UNCHANGED <<httpVars, l_state, l_init_done, params, copy, seenIdx, pktVars,
                 fpgaVars, histVars, cb_in, info, init_done, ctrl>>

Quit ==
  /\ worker = "decide" /\ copy = NoList /\ l_state = "quit"
  /\ cb_in' = NoList /\ info' = NoList /\ worker' = "ended"
  /\ UNCHANGED <<httpVars, l_state, l_init_done, params, copy, seenIdx, pktVars,
                 fpgaVars, histVars, init_done, ctrl>>

(* mark_changed_fpga_update_entries: all of them in the first pass, later
   the values that differ from the worker's. *)
Marked == {n \in DOMAIN copy : ~l_init_done \/ copy[n] # params[n]}

(* fpga_rb_get_fpga_params reads the registers, unless it finds no pointer. *)
AfterUpdate == IF pointer THEN "read" ELSE "export"

(* Nothing changed, or there is no pointer to the registers: no update. *)
SkipUpdate ==
  /\ worker = "normal" /\ (Marked = {} \/ ~pointer)
  /\ init_done' = (init_done \/ Marked # {})
  /\ worker' = AfterUpdate
  /\ UNCHANGED <<httpVars, l_state, l_init_done, params, copy, seenIdx, pktVars,
                 fpgaVars, histVars, cb_in, info, ctrl>>

BeginUpdate ==
  /\ worker = "normal" /\ Marked # {} /\ pointer
  /\ worker' = "enable"
  /\ UNCHANGED <<httpVars, l_state, l_init_done, params, copy, seenIdx, pktVars,
                 fpgaVars, histVars, cb_in, info, init_done, ctrl>>

New == Update(params, copy)

(* rb_run and rb_calib end in fpga_rb_enable. *)
Switches == Marked \cap {"rb_run", "rb_calib"} # {}

(* mutant: the single-shot tag stays *)
EnableSticky ==
  /\ worker = "enable"
  /\ Switches => mapped \/ ~pointer
  /\ regs' = IF ~mapped \/ ~Switches THEN regs
             ELSE IF New["rb_run"] = 1 THEN Enabled(regs) ELSE Disabled(regs)
  /\ calibDone' = calibDone +
       (IF "rb_calib" \in Marked THEN copy["rb_calib"] ELSE 0)
  /\ worker' = IF New["rb_run"] = 1 THEN "set_ctrl" ELSE "inited"
  /\ UNCHANGED <<httpVars, l_state, l_init_done, params, copy, seenIdx, pktVars,
                 mapped, pointer, cache, posts, posted, before, calibAsked,
                 cb_in, info, init_done, ctrl>>

(* fpga_rb_enable does nothing when it finds no pointer; the request to
   calibrate is cleared. *)
Enable ==
  /\ worker = "enable"
  /\ Switches => mapped \/ ~pointer
  /\ regs' = IF ~mapped \/ ~Switches THEN regs
             ELSE IF New["rb_run"] = 1 THEN Enabled(regs) ELSE Disabled(regs)
  /\ calibDone' = calibDone +
       (IF "rb_calib" \in Marked THEN copy["rb_calib"] ELSE 0)
  /\ copy' = IF "rb_calib" \in Marked THEN [copy EXCEPT !["rb_calib"] = 0] ELSE copy
  /\ worker' = IF New["rb_run"] = 1 THEN "set_ctrl" ELSE "inited"
  /\ UNCHANGED <<httpVars, l_state, l_init_done, params, seenIdx, pktVars,
                 mapped, pointer, cache, posts, posted, before, calibAsked,
                 cb_in, info, init_done, ctrl>>

(* mutant: the settings of the worker's list are written, not the new ones *)
SetCtrlOld ==
  /\ worker = "set_ctrl" /\ mapped
  /\ cache' = [src |-> params["route"], qrg |-> params["qrg"]]
  /\ regs' = [regs EXCEPT !.qrg = params["qrg"],
                          !.src = IF cache' # cache THEN params["route"] ELSE @]
  /\ worker' = "inited"
  /\ UNCHANGED <<httpVars, l_state, l_init_done, params, copy, seenIdx, pktVars,
                 mapped, pointer, histVars, cb_in, info, init_done, ctrl>>

(* fpga_rb_set_ctrl, for a radio that runs: the outputs are routed only
   when a relevant setting differs from the last call. *)
SetCtrl ==
  /\ worker = "set_ctrl" /\ mapped
  /\ cache' = [src |-> New["route"], qrg |-> New["qrg"]]
  /\ regs' = [regs EXCEPT !.qrg = New["qrg"],
                          !.src = IF cache' # cache THEN New["route"] ELSE @]
  /\ worker' = "inited"
  /\ UNCHANGED <<httpVars, l_state, l_init_done, params, copy, seenIdx, pktVars,
                 mapped, pointer, histVars, cb_in, info, init_done, ctrl>>

(* An access after the registers were unmapped: the process of the web server
   is gone.  fpga_rb_set_ctrl does not look at the pointer at all; others
   look before, and it may still be set, or have been set when they looked. *)
Crash ==
  /\ worker \in {"set_ctrl", "read"} \/ (worker = "enable" /\ Switches)
  /\ ~mapped
  /\ worker' = "crashed"
  /\ UNCHANGED <<httpVars, l_state, l_init_done, params, copy, seenIdx, pktVars,
                 fpgaVars, histVars, cb_in, info, init_done, ctrl>>

InitDone ==
  /\ worker = "inited"
  /\ init_done' = TRUE /\ worker' = AfterUpdate
  /\ UNCHANGED <<httpVars, l_state, l_init_done, params, copy, seenIdx, pktVars,
                 fpgaVars, histVars, cb_in, info, ctrl>>

(* What it reads is of no parameter here: see the head of the module. *)
ReadBack ==
  /\ worker = "read" /\ mapped
  /\ worker' = "export"
  /\ UNCHANGED <<httpVars, l_state, l_init_done, params, copy, seenIdx, pktVars,
                 fpgaVars, histVars, cb_in, info, init_done, ctrl>>

Export ==
  /\ worker = "export"
  /\ params' = Update(params, copy) /\ info' = params'
  /\ copy' = NoList /\ worker' = "flag_load"
  /\ UNCHANGED <<httpVars, l_state, l_init_done, seenIdx, pktVars,
                 fpgaVars, histVars, cb_in, init_done, ctrl>>

(* g_transport_pktIdx &= 0x7f: a load and a store. *)
FlagLoad ==
  /\ worker = "flag_load"
  /\ seenIdx' = pktIdx /\ worker' = "flag_store"
  /\ UNCHANGED <<httpVars, l_state, l_init_done, params, copy, pktVars,
                 fpgaVars, histVars, cb_in, info, init_done, ctrl>>

FlagStore ==
  /\ worker = "flag_store"
  /\ pktIdx' = seenIdx /\ busy' = FALSE /\ worker' = "rest"
  /\ UNCHANGED <<httpVars, l_state, l_init_done, params, copy, seenIdx,
                 fpgaVars, histVars, cb_in, info, init_done, ctrl>>

Rest ==
  /\ worker = "rest"
  /\ ctrl' = "idle" /\ worker' = "top"
  /\ UNCHANGED <<httpVars, l_state, l_init_done, params, copy, seenIdx, pktVars,
                 fpgaVars, histVars, cb_in, info, init_done>>

----------------------------------------------------------------------------
Called == SetQueue \/ SetFlag \/ GetFlag \/ GetInfo
          \/ ExitUnmap \/ ExitClear \/ ExitQuit \/ ExitJoin
Asks   == (\E f \in Frames : Post(f)) \/ Get \/ ExitDisable
Http   == worker # "crashed" /\ (Asks \/ Called)
Worker == Start \/ ReadState \/ Take \/ Purge \/ GoNormal \/ StayIdle \/ Quit
          \/ SkipUpdate \/ BeginUpdate \/ Enable \/ SetCtrl \/ Crash
          \/ InitDone \/ ReadBack \/ Export \/ FlagLoad \/ FlagStore \/ Rest
Next == Http \/ Worker

(* A call that was begun goes on, and the worker thread runs; nothing says
   that the user asks for anything. *)
Spec == Init /\ [][Next]_vars /\ WF_vars(worker # "crashed" /\ Called) /\ WF_vars(Worker)

----------------------------------------------------------------------------
Partial == {NoList} \cup FrameLists(1) \cup FrameLists(2)

(* Every variable holds a value of its type. *)
TypeOK ==
  /\ http \in {"idle", "set_queue", "set_flag", "get_flag", "get_info",
               "exit_unmap", "exit_clear", "exit_quit", "exit_join", "unloaded"}
  /\ request = NoList \/ (request.idx \in Frames /\ request.list \in FrameLists(request.idx))
  /\ cb_in \in Partial
  /\ copy \in Partial \cup Lists
  /\ info \in {NoList} \cup Lists
  /\ params \in {NoList} \cup Lists
  /\ posted \in Lists /\ before \in Lists
  /\ pktIdx \in {0} \cup Frames /\ seenIdx \in {0} \cup Frames
  /\ {busy, init_done, l_init_done, mapped, pointer} \subseteq BOOLEAN
  /\ {ctrl, l_state} \subseteq {"idle", "normal", "quit"}
  /\ worker \in {"start", "top", "take", "purge", "decide", "normal", "enable",
                 "set_ctrl", "inited", "read", "export", "flag_load", "flag_store",
                 "rest", "ended", "crashed"}
  /\ regs \in [on : BOOLEAN, src : Routes \cup {PresetRoute}, qrg : Qrgs]
  /\ cache \in [src : Routes, qrg : Qrgs]
  /\ posts \in 0..MaxPosts /\ calibAsked \in Nat /\ calibDone \in Nat

(* No posted value is lost or overtaken by an older one: what the worker
   has, overlaid with the copy it works on and with the list that waits,
   is the sum of all posts - also across the first pass, which pushes the
   defaults while a post may already wait (worker.c, cb_http.c). *)
NothingLost ==
  worker # "ended" =>
    \A n \in Names \ {"rb_calib"} :
      Update(Update(params, copy), cb_in)[n] = posted[n]

(* While the FPGA is mapped each request to calibrate is honoured once: the single-shot tag is
   removed, so that the next request differs from the stored value. *)
CalibOnce ==
  mapped =>
    calibAsked = calibDone
               + (IF "rb_calib" \in DOMAIN cb_in THEN cb_in["rb_calib"] ELSE 0)
               + (IF "rb_calib" \in DOMAIN copy THEN copy["rb_calib"] ELSE 0)

(* Between two passes, and while the registers are mapped and nobody exits,
   the radio runs if and only if the worker's list says so, on the carrier it
   says, and what does not run drives no output. *)
Settled == /\ worker \in {"top", "take"} /\ init_done
           /\ mapped /\ http # "exit_unmap"
RegistersFollow ==
  Settled => /\ regs.on = (params["rb_run"] = 1)
             /\ regs.on => regs.qrg = params["qrg"]
             /\ ~regs.on => regs.src = 0

(* The outputs of a running radio are routed as the list says
   (fpga_rb.c:472, "set the new values", and 606, "only when relevant
   changes were made"). *)
RoutingFollows == Settled /\ regs.on => regs.src = params["route"]

(* A reply may be stale, but by no more than the last post: its values are
   those of one state, with every post or with every post but the last. *)
Answer == http = "get_info" /\ http' = "idle"
ReplyOneBehind ==
  [][Answer => \E s \in {posted, before} :
       \A n \in DOMAIN reply' \ {"rb_calib"} : reply'[n] = s[n]]_vars

(* rp_set_params gets rid of its list: the worker empties the queue. *)
SetReturns == http = "set_queue" ~> http = "set_flag"

(* rp_get_params returns once the worker has processed the data
   (cb_http.c:167: "wait until the worker has processed the input data"). *)
GetReturns == http = "get_flag" ~> http = "idle"

(* The worker obeys the request to quit, and rp_app_exit returns
   (worker.c:206: "request to stop worker thread, we will shut down"). *)
QuitHonoured ==
  http = "exit_join" ~> (http = "unloaded" \/ worker = "crashed")
============================================================================
