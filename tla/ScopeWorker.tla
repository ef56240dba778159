----------------------------- MODULE ScopeWorker ----------------------------
(***************************************************************************)
(* The oscilloscope (apps-free/scope): the thread of nginx, which posts    *)
(* parameters (rp_set_params in main.c) and reads signals, and the worker  *)
(* thread (worker.c), which programs the FPGA, waits for the trigger and   *)
(* publishes what was acquired.  After auto-set the worker calls           *)
(* rp_set_params too, so both threads run it, with locks only around its   *)
(* parts.                                                                  *)
(*                                                                         *)
(* There are three copies of the parameters: rp_main_params (main),        *)
(* rp_osc_params (wparams, with its dirty flag) and the worker's own       *)
(* (curr).  Of the parameters the model keeps the two flags that the code  *)
(* acts on and, as one setting, what an acquisition depends on: the mode   *)
(* of the trigger, whether the window is so long that signals are          *)
(* published in parts, and whatever else tells two settings apart.         *)
(***************************************************************************)
EXTENDS Integers

CONSTANTS Settings,      \* the settings: records with mode and long
          First,         \* the setting in rp_main_params at the start
          NoSignal,      \* the setting of auto-set without a signal
          Found,         \* the settings auto-set may find for a signal
          Probe,         \* what auto-set programs into the FPGA
          Signals,       \* whether the input triggers: a subset of BOOLEAN
          Lingers,       \* the steps of the worker that may take ten seconds
          Posted(_),     \* bound: the parameters that clients post
          MaxPosts,      \* bound: the parameters are posted so many times
          Probes,        \* bound: acquisitions of the first loop of auto-set
          Ranges         \* bound: time ranges of its second loop

Modes == {"auto", "normal", "idle"}
Steps == {"top", "started", "poll", "check", "again", "shot", "publish", "probe",
          "probing", "search", "adopt", "adopted", "set", "done"}

ASSUME ScopeConstants ==
  /\ \A s \in Settings : s.mode \in Modes /\ s.long \in BOOLEAN
  /\ {First, NoSignal} \cup Found \subseteq Settings
  /\ First.mode # "idle" /\ NoSignal.mode = "auto"
  /\ \A s \in Found : s.mode = "normal"
  /\ Probe \notin Settings /\ Signals \subseteq BOOLEAN
  /\ Lingers \subseteq Steps
  /\ MaxPosts \in Nat /\ Probes \in Nat \ {0} /\ Ranges \in Nat \ {0}

VARIABLES main,          \* rp_main_params
          params_init,
          wparams,       \* rp_osc_params
          dirty,         \* rp_osc_params_dirty
          ctrl,          \* rp_osc_ctrl
          signals,       \* rp_osc_signals and its dirty flag, fresh
          call,          \* each thread's rp_set_params
          worker,        \* the step the worker is at
          curr, old,     \* its curr_params and old_state
          todo,          \* its fpga_update and time_vect_update
          long, partial, \* its long_acq, and long_acq_idx > 0
          tmp,           \* the settings rp_tmp_signals were acquired with
          left,          \* the passes auto-set has left
          fpga,          \* what is programmed, and the trigger
          signal,        \* whether the input triggers, for this behaviour
          posts,         \* the posts so far
          owed           \* history: single acquisitions asked for, not begun

paramVars == <<main, params_init>>
ctrlVars  == <<wparams, dirty, ctrl>>
localVars == <<curr, old, todo, long, partial, tmp, left>>
envVars   == <<signal, posts>>
vars == <<paramVars, ctrlVars, signals, call, worker, localVars, fpga, envVars, owed>>

Threads == {"web", "worker"}
Params  == [set : Settings, auto : BOOLEAN, single : BOOLEAN]
Default == [set |-> First, auto |-> FALSE, single |-> FALSE]
Outside == [at |-> "out", change |-> FALSE, mode |-> "idle"]

(* rp_app_init has started the worker and calls rp_set_params. *)
Init ==
  /\ main = Default /\ params_init = FALSE
  /\ wparams = Default /\ dirty = FALSE /\ ctrl = "idle"
  /\ signals = [fresh |-> FALSE, as |-> First, of |-> {First}]
  /\ call = [web |-> [Outside EXCEPT !.at = "check"], worker |-> Outside]
  /\ worker = "top" /\ curr = Default /\ old = "idle" /\ todo = {}
  /\ long = FALSE /\ partial = FALSE /\ tmp = {} /\ left = 0
  /\ fpga = [has |-> Probe, armed |-> FALSE]
  /\ signal \in Signals /\ posts = 0 /\ owed = 0

----------------------------------------------------------------------------
(* rp_set_params, in thread t. *)

At(t, step) == call[t].at = step
To(t, step) == call' = [call EXCEPT ![t].at = step]
Returns(t)  == call' = [call EXCEPT ![t] = Outside]

(* The posted values go into rp_main_params, under their mutex. *)
Merge(p) ==
  /\ At("web", "out") /\ posts < MaxPosts
  /\ main' = p
  /\ call' = [call EXCEPT !["web"] = [Outside EXCEPT !.at = "check",
                                                    !.change = p # main]]
  /\ posts' = posts + 1
  /\ owed' = IF p.single THEN owed + 1 ELSE owed
  /\ UNCHANGED <<params_init, ctrlVars, signals, worker, localVars, fpga, signal>>

(* mutant: parameters that auto-set has changed are not looked at *)
CheckChange(t) ==
  /\ At(t, "check")
  /\ IF call[t].change THEN To(t, "capture") ELSE Returns(t)
  /\ UNCHANGED <<paramVars, ctrlVars, signals, worker, localVars, fpga, envVars, owed>>

(* No lock is held from here on. *)
Check(t) ==
  /\ At(t, "check")
  /\ IF call[t].change \/ ~params_init THEN To(t, "capture") ELSE Returns(t)
  /\ UNCHANGED <<paramVars, ctrlVars, signals, worker, localVars, fpga, envVars, owed>>

Capture(t) ==
  /\ At(t, "capture")
  /\ call' = [call EXCEPT ![t].at = "mark", ![t].mode = main.set.mode]
  /\ UNCHANGED <<paramVars, ctrlVars, signals, worker, localVars, fpga, envVars, owed>>

Mark(t) ==
  /\ At(t, "mark")
  /\ params_init' = TRUE
  /\ To(t, "flag")
  /\ UNCHANGED <<main, ctrlVars, signals, worker, localVars, fpga, envVars, owed>>

CleanIf(c) == signals' = [signals EXCEPT !.fresh = @ /\ ~c]

Flag(t) ==
  /\ At(t, "flag")
  /\ CleanIf(main.auto)
  /\ To(t, IF main.auto THEN "auto" ELSE "update")
  /\ UNCHANGED <<paramVars, ctrlVars, worker, localVars, fpga, envVars, owed>>

AskAuto(t) ==
  /\ At(t, "auto")
  /\ ctrl' = "auto_set"
  /\ To(t, "wait")
  /\ UNCHANGED <<paramVars, wparams, dirty, signals, worker, localVars, fpga, envVars, owed>>

(* It polls until auto-set is over, ten seconds at most. *)
AwaitAuto(t) ==
  /\ At(t, "wait") /\ (ctrl # "auto_set" \/ worker \in Lingers)
  /\ Returns(t)
  /\ UNCHANGED <<paramVars, ctrlVars, signals, worker, localVars, fpga, envVars, owed>>

Update(t) ==
  /\ At(t, "update")
  /\ wparams' = main /\ dirty' = TRUE
  /\ To(t, "state")
  /\ UNCHANGED <<paramVars, ctrl, signals, worker, localVars, fpga, envVars, owed>>

(* The limits leave no other mode and no time range without a decimation, so
   that the early returns of this part are never taken. *)
ChangeState(t) ==
  /\ At(t, "state")
  /\ ctrl' = call[t].mode
  /\ To(t, "single")
  /\ UNCHANGED <<paramVars, wparams, dirty, signals, worker, localVars, fpga, envVars, owed>>

Single(t) ==
  /\ At(t, "single")
  /\ CleanIf(call[t].mode = "idle" \/ main.single)
  /\ main' = [main EXCEPT !.single = FALSE]
  /\ IF main.single THEN To(t, "shot") ELSE Returns(t)
  /\ UNCHANGED <<params_init, ctrlVars, worker, localVars, fpga, envVars, owed>>

Shot(t) ==
  /\ At(t, "shot")
  /\ ctrl' = "single"
  /\ owed' = IF owed > 0 THEN owed - 1 ELSE 0
  /\ Returns(t)
  /\ UNCHANGED <<paramVars, wparams, dirty, signals, worker, localVars, fpga, envVars>>

SetParams(t) ==
  \/ Check(t) \/ Capture(t) \/ Mark(t) \/ Flag(t) \/ AskAuto(t) \/ AwaitAuto(t)
  \/ Update(t) \/ ChangeState(t) \/ Single(t) \/ Shot(t)

(* rp_get_signals. *)
GetSignals ==
  /\ At("web", "out") /\ signals.fresh
  /\ CleanIf(TRUE)
  /\ UNCHANGED <<paramVars, ctrlVars, call, worker, localVars, fpga, envVars, owed>>

(* rp_app_exit, and its end, the join. *)
Quit ==
  /\ At("web", "out")
  /\ ctrl' = "quit"
  /\ To("web", "join")
  /\ UNCHANGED <<paramVars, wparams, dirty, signals, worker, localVars, fpga, envVars, owed>>

Joined ==
  /\ At("web", "join") /\ worker = "done"
  /\ To("web", "gone")
  /\ UNCHANGED <<paramVars, ctrlVars, signals, worker, localVars, fpga, envVars, owed>>

----------------------------------------------------------------------------
(* The worker. *)

(* The head of the loop: with the mutex of rp_osc_ctrl the worker takes the
   parameters if they are dirty.  fpga_update and time_vect_update then stay
   set until the state lets it see to them. *)
Take ==
  /\ worker = "top"
  /\ dirty' = FALSE
  /\ curr' = IF dirty THEN wparams ELSE curr
  /\ UNCHANGED <<paramVars, wparams, ctrl, signals, call, old, tmp, envVars, owed>>

Due == IF dirty THEN {"fpga", "time"} ELSE todo

(* osc_fpga_reset and osc_fpga_update_params.  The latter fails for a trigger
   source or a time range that does not exist only, and rp_set_params keeps
   every value it merges between the limits of its parameter. *)
Programmed(due) ==
  IF "fpga" \in due THEN [has |-> curr'.set, armed |-> FALSE] ELSE fpga

(* mutant: a new time window does not begin a new acquisition *)
GoesOnAnyway(due) == partial

(* A long acquisition goes on unless the window of time is new. *)
GoesOn(due) == partial /\ "time" \notin due

TakeQuit ==
  /\ Take /\ ctrl = "quit"
  /\ worker' = "done"
  /\ todo' = Due
  /\ UNCHANGED <<long, partial, left, fpga>>

TakeAuto ==
  /\ Take /\ ctrl = "auto_set"
  /\ worker' = "probe" /\ left' = Probes
  /\ todo' = Due
  /\ UNCHANGED <<long, partial, fpga>>

TakeIdle ==
  /\ Take /\ ctrl = "idle"
  /\ todo' = Due \ {"fpga"} /\ fpga' = Programmed(Due)
  /\ UNCHANGED <<worker, long, partial, left>>

TakeRun ==
  /\ Take /\ ctrl \notin {"quit", "auto_set", "idle"}
  /\ worker' = "started"
  /\ todo' = {}
  /\ long' = IF "time" \in Due THEN curr'.set.long ELSE long
  /\ partial' = GoesOn(Due)
  /\ fpga' = [Programmed(Due) EXCEPT !.armed = @ \/ ~partial']
  /\ UNCHANGED left

(* The state is read again: a change since the head of the loop is not seen
   as one. *)
Started ==
  /\ worker = "started"
  /\ old' = ctrl
  /\ worker' = CASE ctrl = "idle" -> "top"
                 [] ctrl = "quit" -> "done"
                 [] OTHER -> IF partial THEN "check" ELSE "poll"
  /\ UNCHANGED <<paramVars, ctrlVars, signals, call, curr, todo, long, partial,
                 tmp, left, fpga, envVars, owed>>

Changed == ctrl # old \/ dirty

(* mutant: the poll for the trigger does not look for new parameters *)
PollDeaf ==
  /\ worker = "poll"
  /\ \/ ctrl # old /\ worker' = "top"
     \/ ctrl = old /\ ~fpga.armed /\ worker' = "check"
  /\ UNCHANGED <<paramVars, ctrlVars, signals, call, localVars, fpga, envVars, owed>>

Poll ==
  /\ worker = "poll"
  /\ \/ Changed /\ worker' = "top"
     \/ ~Changed /\ ~fpga.armed /\ worker' = "check"
  /\ UNCHANGED <<paramVars, ctrlVars, signals, call, localVars, fpga, envVars, owed>>

(* The samples are read: all, or those that a long acquisition has so far. *)
Decimate ==
  /\ worker = "check"
  /\ IF Changed
     THEN worker' = "top" /\ UNCHANGED <<partial, tmp>>
     ELSE /\ partial' \in IF long THEN BOOLEAN ELSE {FALSE}
          /\ tmp' = IF partial THEN tmp \cup {fpga.has} ELSE {fpga.has}
          /\ worker' = IF long /\ ~partial' /\ ctrl = "single" THEN "shot" ELSE "again"
  /\ UNCHANGED <<paramVars, ctrlVars, signals, call, curr, old, todo, long, left,
                 fpga, envVars, owed>>

Again ==
  /\ worker = "again"
  /\ worker' = IF ctrl = "single" /\ ~long THEN "shot" ELSE "publish"
  /\ UNCHANGED <<paramVars, ctrlVars, signals, call, localVars, fpga, envVars, owed>>

(* The single acquisition is over; what the state is by now is not looked at.
   A long one reads it once more, for nothing. *)
ShotDone ==
  /\ worker = "shot"
  /\ ctrl' = "idle"
  /\ worker' = "publish"
  /\ UNCHANGED <<paramVars, wparams, dirty, signals, call, localVars, fpga, envVars, owed>>

Publish ==
  /\ worker = "publish"
  /\ signals' = [fresh |-> TRUE, as |-> curr.set, of |-> tmp]
  /\ worker' = "top"
  /\ UNCHANGED <<paramVars, ctrlVars, call, localVars, fpga, envVars, owed>>

----------------------------------------------------------------------------
(* Auto-set: a first loop of acquisitions without a trigger, and if there is
   a signal a second one, which waits for its trigger.  The state is read
   again before each pass of the first loop. *)
ProbeBegin ==
  /\ worker = "probe"
  /\ old' = ctrl
  /\ fpga' = [has |-> Probe, armed |-> TRUE]
  /\ worker' = "probing"
  /\ UNCHANGED <<paramVars, ctrlVars, signals, call, curr, todo, long, partial,
                 tmp, left, envVars, owed>>

AutoEnds(result) ==
  /\ curr' = result
  /\ worker' = "adopt"
  /\ UNCHANGED <<left, fpga>>

ProbeEnd ==
  /\ worker = "probing"
  /\ \/ Changed /\ AutoEnds(curr)
     \/ /\ ~Changed /\ ~fpga.armed
        /\ \/ /\ left > 1
              /\ worker' = "probe" /\ left' = left - 1
              /\ UNCHANGED <<curr, fpga>>
           \/ /\ left = 1
              /\ AutoEnds([curr EXCEPT !.set = NoSignal, !.auto = FALSE])
           \/ /\ left = 1
              /\ worker' = "search" /\ left' = Ranges
              /\ fpga' = [fpga EXCEPT !.armed = TRUE]
              /\ UNCHANGED curr
  /\ UNCHANGED <<paramVars, ctrlVars, signals, call, old, todo, long, partial, tmp,
                 envVars, owed>>

(* mutant: there is no last range *)
SearchOn ==
  /\ worker = "search"
  /\ \/ Changed /\ AutoEnds(curr)
     \/ /\ ~Changed /\ ~fpga.armed
        /\ \/ \E s \in Found : AutoEnds([curr EXCEPT !.set = s, !.auto = FALSE])
           \/ /\ left' = left - 1 /\ fpga' = [fpga EXCEPT !.armed = TRUE]
              /\ UNCHANGED <<worker, curr>>
  /\ UNCHANGED <<paramVars, ctrlVars, signals, call, old, todo, long, partial, tmp,
                 envVars, owed>>

(* The last range counts even when no period was found in it. *)
Search ==
  /\ worker = "search"
  /\ \/ Changed /\ AutoEnds(curr)
     \/ /\ ~Changed /\ ~fpga.armed
        /\ \/ \E s \in Found : AutoEnds([curr EXCEPT !.set = s, !.auto = FALSE])
           \/ /\ left > 1
              /\ left' = left - 1 /\ fpga' = [fpga EXCEPT !.armed = TRUE]
              /\ UNCHANGED <<worker, curr>>
  /\ UNCHANGED <<paramVars, ctrlVars, signals, call, old, todo, long, partial, tmp,
                 envVars, owed>>

(* rp_update_main_params, also after auto-set was given up. *)
Adopt ==
  /\ worker = "adopt"
  /\ main' = curr
  /\ worker' = "adopted"
  /\ UNCHANGED <<params_init, ctrlVars, signals, call, localVars, fpga, envVars, owed>>

(* mutant: rp_set_params does not learn that there is something new *)
AdoptedQuietly ==
  /\ worker = "adopted"
  /\ worker' = "set" /\ To("worker", "check")
  /\ UNCHANGED <<paramVars, ctrlVars, signals, localVars, fpga, envVars, owed>>

(* The list that the worker gives rp_set_params is rp_main_params itself, so
   it is merged without a change. *)
Adopted ==
  /\ worker = "adopted"
  /\ params_init' = FALSE
  /\ worker' = "set" /\ To("worker", "check")
  /\ UNCHANGED <<main, ctrlVars, signals, localVars, fpga, envVars, owed>>

SetDone ==
  /\ worker = "set" /\ At("worker", "out")
  /\ worker' = "top"
  /\ UNCHANGED <<paramVars, ctrlVars, signals, call, localVars, fpga, envVars, owed>>

Worker ==
  \/ TakeQuit \/ TakeAuto \/ TakeIdle \/ TakeRun
  \/ Started \/ Poll \/ Decimate \/ Again \/ ShotDone \/ Publish
  \/ ProbeBegin \/ ProbeEnd \/ Search \/ Adopt \/ Adopted \/ SetDone

(* The FPGA: the acquisition is triggered, at once if it was asked to. *)
AtOnce == worker = "probing" \/ (fpga.has # Probe /\ fpga.has.mode = "auto")

Trigger ==
  /\ fpga.armed /\ (AtOnce \/ signal)
  /\ fpga' = [fpga EXCEPT !.armed = FALSE]
  /\ UNCHANGED <<paramVars, ctrlVars, signals, call, worker, localVars, envVars, owed>>

Next ==
  \/ \E p \in Params : Posted(p) /\ Merge(p)
  \/ GetSignals \/ Quit \/ Joined
  \/ \E t \in Threads : SetParams(t)
  \/ Worker \/ Trigger

Spec == Init /\ [][Next]_vars

(* Both threads run, the ten seconds pass, and the FPGA triggers if there is
   something to trigger it.  Posts are not fair: nobody need use the scope. *)
FairSpec ==
  /\ Spec
  /\ \A t \in Threads : WF_vars(SetParams(t))
  /\ WF_vars(Worker) /\ WF_vars(Trigger)

----------------------------------------------------------------------------
(* Properties. *)

States == Modes \cup {"quit", "single", "auto_set"}
Places == {"out", "check", "capture", "mark", "flag", "auto", "wait", "update",
           "state", "single", "shot", "join", "gone"}
Calls  == [Threads -> [at : Places, change : BOOLEAN, mode : Modes]]
Output == [fresh : BOOLEAN, as : Settings, of : SUBSET (Settings \cup {Probe})]
Fpga   == [has : Settings \cup {Probe}, armed : BOOLEAN]

(* Every variable has a value of its type. *)
TypeOK ==
  /\ main \in Params /\ wparams \in Params /\ curr \in Params
  /\ params_init \in BOOLEAN /\ dirty \in BOOLEAN
  /\ ctrl \in States /\ old \in States
  /\ signals \in Output /\ call \in Calls /\ worker \in Steps /\ fpga \in Fpga
  /\ todo \subseteq {"fpga", "time"} /\ long \in BOOLEAN /\ partial \in BOOLEAN
  /\ tmp \subseteq Settings \cup {Probe} /\ left \in 0..(Probes + Ranges)
  /\ signal \in Signals /\ posts \in 0..MaxPosts /\ owed \in 0..posts

(* The copy for the worker holds the setting that the clients are told of,
   unless a thread is still in rp_set_params or auto-set is to replace it:
   although the two threads merge, adopt and copy without a common lock. *)
ParamsAgree ==
  (/\ call.web.at \in {"out", "join", "gone"}
   /\ worker \notin {"adopted", "set"}
   /\ ~main.auto)
  => wparams.set = main.set

(* What is published was acquired, every part of it, with the FPGA set to
   what the samples are converted and the axis of time is drawn with, also
   after auto-set, an abort, or a change in the middle of a long
   acquisition. *)
AcquiredAsProgrammed == signals.of = {signals.as}

(* Parameters that are posted reach the worker whatever it waits for, also a
   trigger that never comes. *)
ParamsTaken == dirty ~> (~dirty \/ worker = "done")

(* Auto-set comes to an end if there is a signal. *)
AutoSetEnds == (signal /\ ctrl = "auto_set") ~> (ctrl # "auto_set")

(* "single_button: 0 - ignore, 1 - trigger": a single acquisition begins only
   when it was asked for. *)
ShotsAskedFor == [][ctrl' = "single" /\ ctrl # "single" => owed > 0]_vars
============================================================================
