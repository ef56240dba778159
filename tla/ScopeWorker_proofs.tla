---------------------------- MODULE ScopeWorker_proofs ----------------------
(***************************************************************************)
(* Proofs about ScopeWorker, for any settings, any inputs, any number of   *)
(* posts and any length of auto-set.                                       *)
(***************************************************************************)
EXTENDS ScopeWorker, TLAPS

(* Thread t is going to copy rp_main_params, or to find auto-set asked for. *)
Pending(t) ==
  \/ At(t, "check") /\ (call[t].change \/ ~params_init)
  \/ call[t].at \in {"capture", "mark", "flag", "update"}

(* The worker calls rp_set_params from one place. *)
WorkerCalls == ~At("worker", "out") => worker = "set"

(* Where rp_osc_params differs from rp_main_params, some thread is under way
   to change that, or auto-set is to replace both. *)
CopyUnderWay ==
  \/ wparams.set = main.set \/ main.auto \/ worker = "adopted"
  \/ \E t \in Threads : Pending(t)

(* What the FPGA has, and the parts that were published already, belong to
   the worker's parameters, or the worker knows that they do not. *)
InStep ==
  /\ "fpga" \in todo \/ fpga.has = curr.set
  /\ partial => "time" \in todo \/ tmp = {curr.set}

AutoSet == {"probe", "probing", "search", "adopt", "adopted", "set"}
Running == {"started", "poll", "check", "again", "shot", "publish"}

(* The copy was made, the state not yet changed for it. *)
Changing(t) == call[t].at \in {"state", "single", "shot"}

(* InStep holds and will hold, for auto-set is not under way, or its end is
   not the end of what there is to program. *)
Safe == InStep /\ ("fpga" \in todo \/ worker \notin AutoSet)

(* Only auto-set leaves the FPGA out of step, and none of the states that
   acquire is entered before new parameters are there: whoever leaves
   auto_set or idle has made them dirty first, and the worker, if it took
   them since, keeps them in todo through auto-set. *)
StepKept ==
  /\ todo \in {{}, {"time"}, {"fpga", "time"}}
  /\ Safe \/ dirty \/ ctrl \in {"auto_set", "idle", "quit"}
  /\ Changing("worker") => dirty
  /\ Changing("web") => dirty \/ (Safe /\ ("fpga" \in todo \/ ctrl # "auto_set"))

(* While it acquires, the FPGA has the worker's setting. *)
RunsAsProgrammed ==
  /\ worker \in Running =>
       /\ todo = {} /\ fpga.has = curr.set
       /\ partial => tmp = {curr.set}
  /\ worker \in {"again", "shot", "publish"} => tmp = {curr.set}

(* The inductive invariant. *)
IInv == /\ TypeOK /\ WorkerCalls /\ CopyUnderWay
        /\ StepKept /\ RunsAsProgrammed /\ AcquiredAsProgrammed

(* Parameters with another setting, or without a button, are parameters. *)
LEMMA ParamsAt ==
  ASSUME NEW p \in Params
  PROVE  /\ p.set \in Settings /\ p.auto \in BOOLEAN /\ p.single \in BOOLEAN
         /\ p.set.mode \in Modes /\ p.set.long \in BOOLEAN
         /\ [p EXCEPT !.single = FALSE] \in Params
         /\ \A s \in Settings : [p EXCEPT !.set = s, !.auto = FALSE] \in Params
BY ScopeConstants DEF Params, ScopeConstants

(* A thread goes on in rp_set_params, and the other stays where it is. *)
LEMMA CallMoves ==
  ASSUME call \in Calls, NEW t \in Threads, NEW a \in Places, NEW m \in Modes
  PROVE  /\ [call EXCEPT ![t].at = a] \in Calls
         /\ [call EXCEPT ![t].at = a, ![t].mode = m] \in Calls
         /\ \A b \in BOOLEAN :
              [call EXCEPT ![t] = [Outside EXCEPT !.at = a, !.change = b]] \in Calls
         /\ [call EXCEPT ![t] = Outside] \in Calls
         /\ call[t].mode \in Modes
BY DEF Calls, Outside, Places, Modes


(* The initial state satisfies the invariant. *)
LEMMA InitHolds == Init => IInv
<1> SUFFICES ASSUME Init PROVE IInv
  OBVIOUS
<1>1. Default \in Params /\ First \in Settings
  BY ScopeConstants DEF Default, Params, ScopeConstants
<1>2. call \in Calls /\ call["worker"].at = "out" /\ call["web"].at = "check"
  <2>1. call = [web |-> [Outside EXCEPT !.at = "check"], worker |-> Outside]
    BY DEF Init
  <2>2. call = [t \in Threads |-> IF t = "web" THEN [Outside EXCEPT !.at = "check"]
                                 ELSE Outside]
    BY <2>1 DEF Threads
  <2>3. Outside \in [at : Places, change : BOOLEAN, mode : Modes]
    BY DEF Outside, Places, Modes
  <2>4. [Outside EXCEPT !.at = "check"] \in [at : Places, change : BOOLEAN, mode : Modes]
    BY <2>3 DEF Places
  <2>5. call["worker"].at = "out" /\ call["web"].at = "check"
    BY <2>1 DEF Outside
  <2> QED BY <2>2, <2>3, <2>4, <2>5 DEF Calls
<1>3. signals \in Output /\ signals.of = {signals.as}
  BY <1>1 DEF Init, Output
<1>4. fpga \in Fpga
  BY DEF Init, Fpga
<1>5. left \in 0..(Probes + Ranges) /\ posts \in 0..MaxPosts /\ owed \in 0..posts
  BY ScopeConstants DEF Init, ScopeConstants
<1>6. TypeOK
  BY <1>1, <1>2, <1>3, <1>4, <1>5 DEF Init, TypeOK, States, Modes, Steps
<1>7. WorkerCalls /\ CopyUnderWay /\ StepKept /\ RunsAsProgrammed
  BY <1>2 DEF Init, WorkerCalls, At, CopyUnderWay, StepKept, Changing,
     RunsAsProgrammed, Running
<1> QED BY <1>3, <1>6, <1>7 DEF IInv, AcquiredAsProgrammed

(* Every step keeps the types. *)
LEMMA TypeHolds ==
  ASSUME TypeOK, [Next]_vars
  PROVE  TypeOK'
<1>0. TypeOK
  OBVIOUS
<1>1. ASSUME NEW p \in Params, Merge(p)
      PROVE  TypeOK'
  <2>1. call' \in Calls
    <3>1. call' = [call EXCEPT !["web"] = [Outside EXCEPT !.at = "check",
                                                          !.change = (p # main)]]
      BY <1>1 DEF Merge
    <3>2. "web" \in Threads /\ "check" \in Places /\ "idle" \in Modes
          /\ (p # main) \in BOOLEAN
      BY DEF Threads, Places, Modes
    <3> QED BY <1>0, <3>1, <3>2, CallMoves DEF TypeOK
  <2>2. posts' \in 0..MaxPosts /\ owed' \in 0..posts'
    BY <1>0, <1>1, ScopeConstants DEF TypeOK, Merge, ScopeConstants
  <2> QED BY <1>0, <1>1, <2>1, <2>2 DEF TypeOK, Merge, ctrlVars, localVars
<1>2. ASSUME GetSignals
      PROVE  TypeOK'
  BY <1>0, <1>2 DEF TypeOK, GetSignals, paramVars, ctrlVars, localVars,
     envVars, CleanIf, At, Output
<1>3. ASSUME Quit
      PROVE  TypeOK'
  BY <1>0, <1>3, CallMoves, Zenon DEF TypeOK, Quit, paramVars, ctrlVars, localVars,
     envVars, At, To, Returns, Threads, Places, Modes, States
<1>4. ASSUME Joined
      PROVE  TypeOK'
  BY <1>0, <1>4, CallMoves, Zenon DEF TypeOK, Joined, paramVars, ctrlVars, localVars,
     envVars, At, To, Returns, Threads, Places, Modes
<1>5. ASSUME NEW t \in Threads, Check(t)
      PROVE  TypeOK'
  BY <1>0, <1>5, CallMoves, Zenon DEF TypeOK, Check, paramVars, ctrlVars, localVars,
     envVars, At, To, Returns, Threads, Places, Modes
<1>6. ASSUME NEW t \in Threads, Capture(t)
      PROVE  TypeOK'
  <2>1. main.set.mode \in Modes
    BY <1>0, ParamsAt DEF TypeOK
  <2>2. call' = [call EXCEPT ![t].at = "mark", ![t].mode = main.set.mode]
        /\ "mark" \in Places
    BY <1>6 DEF Capture, Places
  <2>3. call' \in Calls
    BY <1>0, <2>1, <2>2, CallMoves DEF TypeOK
  <2> QED BY <1>0, <1>6, <2>3 DEF TypeOK, Capture, paramVars, ctrlVars, localVars,
        envVars
<1>7. ASSUME NEW t \in Threads, Mark(t)
      PROVE  TypeOK'
  BY <1>0, <1>7, CallMoves, Zenon DEF TypeOK, Mark, paramVars, ctrlVars, localVars,
     envVars, At, To, Returns, Threads, Places, Modes
<1>8. ASSUME NEW t \in Threads, Flag(t)
      PROVE  TypeOK'
  <2>1. call' \in Calls
    BY <1>0, <1>8, CallMoves, Zenon DEF TypeOK, Flag, To, Places, Modes
  <2>2. signals' \in Output
    BY <1>0, <1>8, ParamsAt DEF TypeOK, Flag, CleanIf, Output
  <2> QED BY <1>0, <1>8, <2>1, <2>2 DEF TypeOK, Flag, paramVars, ctrlVars, localVars,
        envVars
<1>9. ASSUME NEW t \in Threads, AskAuto(t)
      PROVE  TypeOK'
  <2>1. call' \in Calls
    BY <1>0, <1>9, CallMoves, Zenon DEF TypeOK, AskAuto, To, Places, Modes
  <2>2. ctrl' \in States
    BY <1>9 DEF AskAuto, States
  <2> QED BY <1>0, <1>9, <2>1, <2>2 DEF TypeOK, AskAuto, paramVars, localVars,
        envVars
<1>10. ASSUME NEW t \in Threads, AwaitAuto(t)
      PROVE  TypeOK'
  BY <1>0, <1>10, CallMoves, Zenon DEF TypeOK, AwaitAuto, paramVars, ctrlVars,
     localVars, envVars, At, To, Returns, Threads, Places, Modes
<1>11. ASSUME NEW t \in Threads, Update(t)
      PROVE  TypeOK'
  BY <1>0, <1>11, CallMoves, Zenon DEF TypeOK, Update, paramVars, ctrlVars,
     localVars, envVars, At, To, Returns, Threads, Places, Modes
<1>12. ASSUME NEW t \in Threads, ChangeState(t)
      PROVE  TypeOK'
  <2>1. call' \in Calls
    BY <1>0, <1>12, CallMoves, Zenon DEF TypeOK, ChangeState, To, Places, Modes
  <2>2. ctrl' \in States
    <3>1. "idle" \in Modes /\ "out" \in Places
      BY DEF Modes, Places
    <3>2. call[t].mode \in Modes
      BY <1>0, <3>1, CallMoves DEF TypeOK
    <3> QED BY <1>12, <3>2 DEF ChangeState, States
  <2> QED BY <1>0, <1>12, <2>1, <2>2 DEF TypeOK, ChangeState, paramVars, localVars,
        envVars
<1>13. ASSUME NEW t \in Threads, Single(t)
      PROVE  TypeOK'
  <2>1. call' \in Calls
    BY <1>0, <1>13, CallMoves, Zenon DEF TypeOK, Single, To, Returns, Places, Modes
  <2>2. signals' \in Output
    BY <1>0, <1>13, ParamsAt DEF TypeOK, Single, CleanIf, Output
  <2>3. main' \in Params
    BY <1>0, <1>13, ParamsAt DEF TypeOK, Single
  <2> QED BY <1>0, <1>13, <2>1, <2>2, <2>3 DEF TypeOK, Single, ctrlVars, localVars,
        envVars
<1>14. ASSUME NEW t \in Threads, Shot(t)
      PROVE  TypeOK'
  <2>1. call' \in Calls
    BY <1>0, <1>14, CallMoves, Zenon DEF TypeOK, Shot, Returns, Places, Modes
  <2>2. ctrl' \in States /\ owed' \in 0..posts
    BY <1>0, <1>14, ScopeConstants DEF TypeOK, Shot, States, ScopeConstants
  <2> QED BY <1>0, <1>14, <2>1, <2>2 DEF TypeOK, Shot, paramVars, localVars,
        envVars
<1>15. ASSUME TakeQuit
      PROVE  TypeOK'
  BY <1>0, <1>15 DEF TypeOK, TakeQuit, paramVars, ctrlVars, localVars,
     envVars, Take, Due, Steps
<1>16. ASSUME TakeAuto
      PROVE  TypeOK'
  <2>1. worker' \in Steps /\ left' \in 0..(Probes + Ranges)
    BY <1>16, ScopeConstants DEF TakeAuto, Steps, ScopeConstants
  <2>2. todo' \subseteq {"fpga", "time"}
    BY <1>0, <1>16 DEF TypeOK, TakeAuto, Due
  <2> QED BY <1>0, <1>16, <2>1, <2>2 DEF TypeOK, TakeAuto, Take, paramVars, envVars
<1>17. ASSUME TakeIdle
      PROVE  TypeOK'
  BY <1>0, <1>17, ParamsAt DEF TypeOK, TakeIdle, paramVars, ctrlVars,
     localVars, envVars, Take, Due, Programmed, GoesOn, Steps, Fpga
<1>18. ASSUME TakeRun
      PROVE  TypeOK'
  BY <1>0, <1>18, ParamsAt DEF TypeOK, TakeRun, paramVars, ctrlVars,
     localVars, envVars, Take, Due, Programmed, GoesOn, Steps, Fpga
<1>19. ASSUME Started
      PROVE  TypeOK'
  BY <1>0, <1>19 DEF TypeOK, Started, paramVars, ctrlVars, localVars, envVars,
     Steps
<1>20. ASSUME Poll
      PROVE  TypeOK'
  BY <1>0, <1>20 DEF TypeOK, Poll, paramVars, ctrlVars, localVars, envVars,
     Steps
<1>21. ASSUME Decimate
      PROVE  TypeOK'
  BY <1>0, <1>21 DEF TypeOK, Decimate, paramVars, ctrlVars, localVars,
     envVars, Steps, Fpga
<1>22. ASSUME Again
      PROVE  TypeOK'
  BY <1>0, <1>22 DEF TypeOK, Again, paramVars, ctrlVars, localVars, envVars,
     Steps
<1>23. ASSUME ShotDone
      PROVE  TypeOK'
  BY <1>0, <1>23 DEF TypeOK, ShotDone, paramVars, ctrlVars, localVars,
     envVars, Steps, States, Modes
<1>24. ASSUME Publish
      PROVE  TypeOK'
  BY <1>0, <1>24, ParamsAt DEF TypeOK, Publish, paramVars, ctrlVars,
     localVars, envVars, Steps, Output
<1>25. ASSUME ProbeBegin
      PROVE  TypeOK'
  BY <1>0, <1>25 DEF TypeOK, ProbeBegin, paramVars, ctrlVars, localVars,
     envVars, Steps, Fpga
<1>26. ASSUME ProbeEnd
      PROVE  TypeOK'
  <2>1. curr' \in Params
    <3>1. NoSignal \in Settings
      BY ScopeConstants DEF ScopeConstants
    <3>2. curr' \in {curr, [curr EXCEPT !.set = NoSignal, !.auto = FALSE]}
      BY <1>26 DEF ProbeEnd, AutoEnds
    <3> QED BY <1>0, <3>1, <3>2, ParamsAt DEF TypeOK
  <2>2. worker' \in Steps /\ left' \in 0..(Probes + Ranges)
    BY <1>0, <1>26, ScopeConstants DEF TypeOK, ProbeEnd, AutoEnds, Steps,
       ScopeConstants
  <2>3. fpga' \in Fpga
    BY <1>0, <1>26 DEF TypeOK, ProbeEnd, AutoEnds, Fpga
  <2> QED BY <1>0, <1>26, <2>1, <2>2, <2>3 DEF TypeOK, ProbeEnd, paramVars, ctrlVars,
        envVars
<1>27. ASSUME Search
      PROVE  TypeOK'
  <2>1. PICK s \in Found \cup {curr.set} :
          \/ curr' = curr /\ worker' = "adopt" /\ UNCHANGED <<left, fpga>>
          \/ /\ curr' = [curr EXCEPT !.set = s, !.auto = FALSE]
             /\ worker' = "adopt" /\ UNCHANGED <<left, fpga>>
          \/ /\ left > 1 /\ left' = left - 1
             /\ fpga' = [fpga EXCEPT !.armed = TRUE] /\ UNCHANGED <<worker, curr>>
    BY <1>27 DEF Search, AutoEnds
  <2>2. s \in Settings
    BY <1>0, ParamsAt, ScopeConstants DEF TypeOK, ScopeConstants
  <2>3. curr' \in Params
    BY <1>0, <2>1, <2>2, ParamsAt DEF TypeOK
  <2>4. worker' \in Steps /\ left' \in 0..(Probes + Ranges)
    BY <1>0, <2>1, ScopeConstants DEF TypeOK, Steps, ScopeConstants
  <2>5. fpga' \in Fpga
    BY <1>0, <2>1 DEF TypeOK, Fpga
  <2> QED BY <1>0, <1>27, <2>3, <2>4, <2>5 DEF TypeOK, Search, paramVars, ctrlVars,
        envVars
<1>28. ASSUME Adopt
      PROVE  TypeOK'
  BY <1>0, <1>28 DEF TypeOK, Adopt, paramVars, ctrlVars, localVars, envVars,
     Steps
<1>29. ASSUME Adopted
      PROVE  TypeOK'
  BY <1>0, <1>29, CallMoves, Zenon DEF TypeOK, Adopted, paramVars, ctrlVars,
     localVars, envVars, At, To, Returns, Threads, Places, Modes, Steps
<1>30. ASSUME SetDone
      PROVE  TypeOK'
  BY <1>0, <1>30 DEF TypeOK, SetDone, paramVars, ctrlVars, localVars, envVars,
     At, Steps
<1>31. ASSUME Trigger
      PROVE  TypeOK'
  BY <1>0, <1>31 DEF TypeOK, Trigger, paramVars, ctrlVars, localVars, envVars,
     Fpga
<1>32. ASSUME UNCHANGED vars
      PROVE  TypeOK'
  BY <1>0, <1>32 DEF TypeOK, vars, paramVars, ctrlVars, localVars, envVars
<1> QED BY <1>1, <1>2, <1>3, <1>4, <1>5, <1>6, <1>7, <1>8, <1>9, <1>10,
          <1>11, <1>12, <1>13, <1>14, <1>15, <1>16, <1>17, <1>18, <1>19,
          <1>20, <1>21, <1>22, <1>23, <1>24, <1>25, <1>26, <1>27, <1>28,
          <1>29, <1>30, <1>31, <1>32 DEF Next, SetParams, Worker

(* Every step preserves the invariant. *)
LEMMA StepHolds ==
  ASSUME IInv, [Next]_vars
  PROVE  IInv'
<1> DEFINE Rest == /\ WorkerCalls /\ CopyUnderWay /\ StepKept
                   /\ RunsAsProgrammed /\ AcquiredAsProgrammed
<1>0. IInv
  OBVIOUS
<1>1. ASSUME NEW p \in Params, Merge(p)
      PROVE  Rest'
  <2>1. WorkerCalls'
    BY <1>0, <1>1 DEF IInv, TypeOK, Calls, WorkerCalls, Merge, At, Outside,
       Threads
  <2>2. CopyUnderWay'
    BY <1>0, <1>1 DEF IInv, TypeOK, Calls, CopyUnderWay, Pending, Merge, At,
       Outside, Threads, ctrlVars
  <2>3. StepKept' /\ RunsAsProgrammed' /\ AcquiredAsProgrammed'
    BY <1>0, <1>1 DEF IInv, TypeOK, Calls, StepKept, InStep, Safe, AutoSet,
       Running, RunsAsProgrammed, Changing, AcquiredAsProgrammed, Merge, At,
       Outside, Threads, ctrlVars, localVars
  <2> QED BY <2>1, <2>2, <2>3
<1>2. ASSUME GetSignals
      PROVE  Rest'
  BY <1>0, <1>2 DEF IInv, TypeOK, WorkerCalls, CopyUnderWay, Pending,
     StepKept, InStep, Safe, AutoSet, Running, RunsAsProgrammed, Changing,
     AcquiredAsProgrammed, At, Threads, GetSignals, paramVars, ctrlVars,
     localVars, envVars, CleanIf
<1>3. ASSUME Quit
      PROVE  Rest'
  BY <1>0, <1>3 DEF IInv, TypeOK, WorkerCalls, CopyUnderWay, Pending,
     StepKept, InStep, Safe, AutoSet, Running, RunsAsProgrammed, Changing,
     AcquiredAsProgrammed, At, Threads, Quit, paramVars, ctrlVars, localVars,
     envVars, To, Returns, Outside
<1>4. ASSUME Joined
      PROVE  Rest'
  BY <1>0, <1>4 DEF IInv, TypeOK, WorkerCalls, CopyUnderWay, Pending,
     StepKept, InStep, Safe, AutoSet, Running, RunsAsProgrammed, Changing,
     AcquiredAsProgrammed, At, Threads, Joined, paramVars, ctrlVars,
     localVars, envVars, To, Returns, Outside
<1>5. ASSUME NEW t \in Threads, Check(t)
      PROVE  Rest'
  <2>1. WorkerCalls'
    BY <1>0, <1>5 DEF IInv, TypeOK, Calls, WorkerCalls, Check, At, To,
       Returns, Outside, Threads
  <2>2. CopyUnderWay'
    BY <1>0, <1>5 DEF IInv, TypeOK, Calls, CopyUnderWay, Pending, Check, At,
       To, Returns, Outside, Threads, paramVars, ctrlVars
  <2>3. StepKept'
    BY <1>0, <1>5 DEF IInv, TypeOK, Calls, StepKept, InStep, Safe, AutoSet,
       Changing, Check, At, To, Returns, Outside, Threads, ctrlVars, localVars
  <2>4. RunsAsProgrammed' /\ AcquiredAsProgrammed'
    BY <1>0, <1>5 DEF IInv, RunsAsProgrammed, Running, AcquiredAsProgrammed,
       Check, ctrlVars, localVars
  <2> QED BY <2>1, <2>2, <2>3, <2>4
<1>6. ASSUME NEW t \in Threads, Capture(t)
      PROVE  Rest'
  <2>1. WorkerCalls'
    BY <1>0, <1>6 DEF IInv, TypeOK, Calls, WorkerCalls, Capture, At, To,
       Returns, Outside, Threads
  <2>2. CopyUnderWay'
    BY <1>0, <1>6 DEF IInv, TypeOK, Calls, CopyUnderWay, Pending, Capture, At,
       To, Returns, Outside, Threads, paramVars, ctrlVars
  <2>3. StepKept'
    BY <1>0, <1>6 DEF IInv, TypeOK, Calls, StepKept, InStep, Safe, AutoSet,
       Changing, Capture, At, To, Returns, Outside, Threads, ctrlVars,
       localVars
  <2>4. RunsAsProgrammed' /\ AcquiredAsProgrammed'
    BY <1>0, <1>6 DEF IInv, RunsAsProgrammed, Running, AcquiredAsProgrammed,
       Capture, ctrlVars, localVars
  <2> QED BY <2>1, <2>2, <2>3, <2>4
<1>7. ASSUME NEW t \in Threads, Mark(t)
      PROVE  Rest'
  BY <1>0, <1>7 DEF IInv, TypeOK, WorkerCalls, CopyUnderWay, Pending,
     StepKept, InStep, Safe, AutoSet, Running, RunsAsProgrammed, Changing,
     AcquiredAsProgrammed, At, Threads, Mark, paramVars, ctrlVars, localVars,
     envVars, To, Returns, Outside
<1>8. ASSUME NEW t \in Threads, Flag(t)
      PROVE  Rest'
  BY <1>0, <1>8 DEF IInv, TypeOK, WorkerCalls, CopyUnderWay, Pending,
     StepKept, InStep, Safe, AutoSet, Running, RunsAsProgrammed, Changing,
     AcquiredAsProgrammed, At, Threads, Flag, paramVars, ctrlVars, localVars,
     envVars, CleanIf, To, Returns, Outside
<1>9. ASSUME NEW t \in Threads, AskAuto(t)
      PROVE  Rest'
  BY <1>0, <1>9 DEF IInv, TypeOK, WorkerCalls, CopyUnderWay, Pending,
     StepKept, InStep, Safe, AutoSet, Running, RunsAsProgrammed, Changing,
     AcquiredAsProgrammed, At, Threads, AskAuto, paramVars, ctrlVars,
     localVars, envVars, To, Returns, Outside
<1>10. ASSUME NEW t \in Threads, AwaitAuto(t)
      PROVE  Rest'
  BY <1>0, <1>10 DEF IInv, TypeOK, WorkerCalls, CopyUnderWay, Pending,
     StepKept, InStep, Safe, AutoSet, Running, RunsAsProgrammed, Changing,
     AcquiredAsProgrammed, At, Threads, AwaitAuto, paramVars, ctrlVars,
     localVars, envVars, To, Returns, Outside
<1>11. ASSUME NEW t \in Threads, Update(t)
      PROVE  Rest'
  BY <1>0, <1>11 DEF IInv, TypeOK, WorkerCalls, CopyUnderWay, Pending,
     StepKept, InStep, Safe, AutoSet, Running, RunsAsProgrammed, Changing,
     AcquiredAsProgrammed, At, Threads, Update, paramVars, ctrlVars,
     localVars, envVars, To, Returns, Outside
<1>12. ASSUME NEW t \in Threads, ChangeState(t)
      PROVE  Rest'
  <2>1. WorkerCalls'
    BY <1>0, <1>12 DEF IInv, TypeOK, Calls, WorkerCalls, ChangeState, At, To,
       Returns, Outside, Threads
  <2>2. CopyUnderWay'
    BY <1>0, <1>12 DEF IInv, TypeOK, Calls, CopyUnderWay, Pending,
       ChangeState, At, To, Returns, Outside, Threads, paramVars, ctrlVars
  <2>3. StepKept'
    <3>0. call \in Calls
      BY <1>0 DEF IInv, TypeOK
    <3>1. call'["web"].at = (IF t = "web" THEN "single" ELSE call["web"].at)
          /\ call'["worker"].at = (IF t = "worker" THEN "single" ELSE call["worker"].at)
      BY <1>12, <3>0 DEF Calls, ChangeState, To, Threads
    <3>2. call[t].mode \in Modes
      BY <3>0 DEF Calls
    <3>3. Changing(t) /\ (t = "web" \/ t = "worker")
      BY <1>12 DEF ChangeState, At, Changing, Threads
    <3>4. Safe' = Safe /\ UNCHANGED <<todo, dirty>> /\ ctrl' \in Modes
      BY <1>12, <3>2 DEF ChangeState, Safe, InStep, AutoSet, localVars
    <3>5. "auto_set" \notin Modes
      BY DEF Modes
    <3> QED BY <1>0, <3>1, <3>3, <3>4, <3>5 DEF IInv, StepKept, Changing
  <2>4. RunsAsProgrammed' /\ AcquiredAsProgrammed'
    BY <1>0, <1>12 DEF IInv, RunsAsProgrammed, Running, AcquiredAsProgrammed,
       ChangeState, ctrlVars, localVars
  <2> QED BY <2>1, <2>2, <2>3, <2>4
<1>13. ASSUME NEW t \in Threads, Single(t)
      PROVE  Rest'
  <2>1. WorkerCalls'
    BY <1>0, <1>13 DEF IInv, TypeOK, Calls, WorkerCalls, Single, At, To,
       Returns, Outside, Threads
  <2>2. CopyUnderWay'
    <3>1. main'.set = main.set /\ main'.auto = main.auto
      BY <1>0, <1>13 DEF IInv, TypeOK, Params, Single
    <3>2. Pending(t) => FALSE
      BY <1>13 DEF Single, At, Pending
    <3>3. \A u \in Threads \ {t} : call'[u] = call[u]
      BY <1>0, <1>13 DEF IInv, TypeOK, Calls, Single, To, Returns
    <3> QED BY <1>0, <1>13, <3>1, <3>2, <3>3 DEF IInv, CopyUnderWay, Pending,
          Single, At, ctrlVars
  <2>3. StepKept'
    BY <1>0, <1>13 DEF IInv, TypeOK, Calls, StepKept, InStep, Safe, AutoSet,
       Changing, Single, At, To, Returns, Outside, Threads, ctrlVars,
       localVars
  <2>4. (RunsAsProgrammed /\ AcquiredAsProgrammed)'
    BY <1>0, <1>13 DEF IInv, TypeOK, Running, RunsAsProgrammed,
       AcquiredAsProgrammed, Single, CleanIf, Output, ctrlVars, localVars
  <2> QED BY <2>1, <2>2, <2>3, <2>4
<1>14. ASSUME NEW t \in Threads, Shot(t)
      PROVE  Rest'
  BY <1>0, <1>14 DEF IInv, TypeOK, WorkerCalls, CopyUnderWay, Pending,
     StepKept, InStep, Safe, AutoSet, Running, RunsAsProgrammed, Changing,
     AcquiredAsProgrammed, At, Threads, Shot, paramVars, ctrlVars, localVars,
     envVars, To, Returns, Outside
<1>15. ASSUME TakeQuit
      PROVE  Rest'
  BY <1>0, <1>15 DEF IInv, TypeOK, WorkerCalls, CopyUnderWay, Pending,
     StepKept, InStep, Safe, AutoSet, Running, RunsAsProgrammed, Changing,
     AcquiredAsProgrammed, At, Threads, TakeQuit, paramVars, ctrlVars,
     localVars, envVars, Take, Due
<1>16. ASSUME TakeAuto
      PROVE  Rest'
  BY <1>0, <1>16 DEF IInv, TypeOK, WorkerCalls, CopyUnderWay, Pending,
     StepKept, InStep, Safe, AutoSet, Running, RunsAsProgrammed, Changing,
     AcquiredAsProgrammed, At, Threads, TakeAuto, paramVars, ctrlVars,
     localVars, envVars, Take, Due
<1>17. ASSUME TakeIdle
      PROVE  Rest'
  BY <1>0, <1>17 DEF IInv, TypeOK, WorkerCalls, CopyUnderWay, Pending,
     StepKept, InStep, Safe, AutoSet, Running, RunsAsProgrammed, Changing,
     AcquiredAsProgrammed, At, Threads, TakeIdle, paramVars, ctrlVars,
     localVars, envVars, Take, Due, Programmed, GoesOn
<1>18. ASSUME TakeRun
      PROVE  Rest'
  <2>1. WorkerCalls' /\ CopyUnderWay' /\ AcquiredAsProgrammed'
    BY <1>0, <1>18 DEF IInv, TypeOK, WorkerCalls, CopyUnderWay, Pending,
       AcquiredAsProgrammed, TakeRun, Take, At, Threads, paramVars
  <2>2. /\ worker = "top" /\ worker' = "started"
        /\ todo' = {} /\ dirty' = FALSE /\ UNCHANGED <<call, tmp>>
    BY <1>18 DEF TakeRun, Take
  <2>3. InStep'
    <3>1. CASE dirty
      BY <1>0, <1>18, <3>1 DEF IInv, TypeOK, Fpga, InStep, TakeRun, Take,
         Programmed, GoesOn, Due
    <3>2. CASE ~dirty
      BY <1>0, <1>18, <3>2 DEF IInv, TypeOK, Fpga, StepKept, Safe, InStep,
         TakeRun, Take, Programmed, GoesOn, Due
    <3> QED BY <3>1, <3>2
  <2>4. ~Changing("worker")
    BY <1>0, <2>2 DEF IInv, WorkerCalls, At, Changing
  <2>5. StepKept' /\ RunsAsProgrammed'
    BY <1>0, <1>18, <2>2, <2>3, <2>4 DEF IInv, StepKept, Safe, InStep,
       AutoSet, Running, RunsAsProgrammed, Changing, TakeRun, Take
  <2> QED BY <2>1, <2>5
<1>19. ASSUME Started
      PROVE  Rest'
  BY <1>0, <1>19 DEF IInv, TypeOK, WorkerCalls, CopyUnderWay, Pending,
     StepKept, InStep, Safe, AutoSet, Running, RunsAsProgrammed, Changing,
     AcquiredAsProgrammed, At, Threads, Started, paramVars, ctrlVars,
     localVars, envVars
<1>20. ASSUME Poll
      PROVE  Rest'
  BY <1>0, <1>20 DEF IInv, TypeOK, WorkerCalls, CopyUnderWay, Pending,
     StepKept, InStep, Safe, AutoSet, Running, RunsAsProgrammed, Changing,
     AcquiredAsProgrammed, At, Threads, Poll, paramVars, ctrlVars, localVars,
     envVars, Changed
<1>21. ASSUME Decimate
      PROVE  Rest'
  BY <1>0, <1>21 DEF IInv, TypeOK, WorkerCalls, CopyUnderWay, Pending,
     StepKept, InStep, Safe, AutoSet, Running, RunsAsProgrammed, Changing,
     AcquiredAsProgrammed, At, Threads, Decimate, paramVars, ctrlVars,
     localVars, envVars, Changed
<1>22. ASSUME Again
      PROVE  Rest'
  BY <1>0, <1>22 DEF IInv, TypeOK, WorkerCalls, CopyUnderWay, Pending,
     StepKept, InStep, Safe, AutoSet, Running, RunsAsProgrammed, Changing,
     AcquiredAsProgrammed, At, Threads, Again, paramVars, ctrlVars, localVars,
     envVars
<1>23. ASSUME ShotDone
      PROVE  Rest'
  BY <1>0, <1>23 DEF IInv, TypeOK, WorkerCalls, CopyUnderWay, Pending,
     StepKept, InStep, Safe, AutoSet, Running, RunsAsProgrammed, Changing,
     AcquiredAsProgrammed, At, Threads, ShotDone, paramVars, ctrlVars,
     localVars, envVars
<1>24. ASSUME Publish
      PROVE  Rest'
  BY <1>0, <1>24 DEF IInv, TypeOK, WorkerCalls, CopyUnderWay, Pending,
     StepKept, InStep, Safe, AutoSet, Running, RunsAsProgrammed, Changing,
     AcquiredAsProgrammed, At, Threads, Publish, paramVars, ctrlVars,
     localVars, envVars
<1>25. ASSUME ProbeBegin
      PROVE  Rest'
  BY <1>0, <1>25 DEF IInv, TypeOK, WorkerCalls, CopyUnderWay, Pending,
     StepKept, InStep, Safe, AutoSet, Running, RunsAsProgrammed, Changing,
     AcquiredAsProgrammed, At, Threads, ProbeBegin, paramVars, ctrlVars,
     localVars, envVars
<1>26. ASSUME ProbeEnd
      PROVE  Rest'
  BY <1>0, <1>26 DEF IInv, TypeOK, WorkerCalls, CopyUnderWay, Pending,
     StepKept, InStep, Safe, AutoSet, Running, RunsAsProgrammed, Changing,
     AcquiredAsProgrammed, At, Threads, ProbeEnd, paramVars, ctrlVars,
     localVars, envVars, Changed, AutoEnds
<1>27. ASSUME Search
      PROVE  Rest'
  BY <1>0, <1>27 DEF IInv, TypeOK, WorkerCalls, CopyUnderWay, Pending,
     StepKept, InStep, Safe, AutoSet, Running, RunsAsProgrammed, Changing,
     AcquiredAsProgrammed, At, Threads, Search, paramVars, ctrlVars,
     localVars, envVars, Changed, AutoEnds
<1>28. ASSUME Adopt
      PROVE  Rest'
  BY <1>0, <1>28 DEF IInv, TypeOK, WorkerCalls, CopyUnderWay, Pending,
     StepKept, InStep, Safe, AutoSet, Running, RunsAsProgrammed, Changing,
     AcquiredAsProgrammed, At, Threads, Adopt, paramVars, ctrlVars, localVars,
     envVars
<1>29. ASSUME Adopted
      PROVE  Rest'
  <2>1. WorkerCalls'
    BY <1>0, <1>29 DEF IInv, TypeOK, Calls, WorkerCalls, Adopted, At, To,
       Returns, Outside, Threads
  <2>2. CopyUnderWay'
    BY <1>0, <1>29 DEF IInv, TypeOK, Calls, CopyUnderWay, Pending, Adopted,
       At, To, Returns, Outside, Threads, paramVars, ctrlVars
  <2>3. StepKept'
    BY <1>0, <1>29 DEF IInv, TypeOK, Calls, StepKept, InStep, Safe, AutoSet,
       Changing, Adopted, At, To, Returns, Outside, Threads, ctrlVars,
       localVars
  <2>4. (RunsAsProgrammed /\ AcquiredAsProgrammed)'
    BY <1>0, <1>29 DEF IInv, TypeOK, Running, RunsAsProgrammed,
       AcquiredAsProgrammed, Adopted, CleanIf, Output, ctrlVars, localVars
  <2> QED BY <2>1, <2>2, <2>3, <2>4
<1>30. ASSUME SetDone
      PROVE  Rest'
  BY <1>0, <1>30 DEF IInv, TypeOK, WorkerCalls, CopyUnderWay, Pending,
     StepKept, InStep, Safe, AutoSet, Running, RunsAsProgrammed, Changing,
     AcquiredAsProgrammed, At, Threads, SetDone, paramVars, ctrlVars,
     localVars, envVars
<1>31. ASSUME Trigger
      PROVE  Rest'
  BY <1>0, <1>31 DEF IInv, TypeOK, WorkerCalls, CopyUnderWay, Pending,
     StepKept, InStep, Safe, AutoSet, Running, RunsAsProgrammed, Changing,
     AcquiredAsProgrammed, At, Threads, Trigger, paramVars, ctrlVars,
     localVars, envVars
<1>32. ASSUME UNCHANGED vars
      PROVE  Rest'
  BY <1>0, <1>32 DEF IInv, WorkerCalls, CopyUnderWay, Pending, StepKept,
     InStep, Safe, Changing, RunsAsProgrammed, AcquiredAsProgrammed, At, vars,
     paramVars, ctrlVars, localVars, envVars
<1>33. Rest'
  BY <1>1, <1>2, <1>3, <1>4, <1>5, <1>6, <1>7, <1>8, <1>9, <1>10, <1>11,
     <1>12, <1>13, <1>14, <1>15, <1>16, <1>17, <1>18, <1>19, <1>20, <1>21,
     <1>22, <1>23, <1>24, <1>25, <1>26, <1>27, <1>28, <1>29, <1>30, <1>31,
     <1>32 DEF Next, SetParams, Worker
<1>34. TypeOK'
  BY TypeHolds DEF IInv
<1> QED BY <1>33, <1>34 DEF IInv

(* The inductive invariant holds. *)
THEOREM InvariantHolds == Spec => []IInv
<1>1. Init => IInv
  BY InitHolds
<1>2. IInv /\ [Next]_vars => IInv'
  BY StepHolds
<1> QED BY <1>1, <1>2, PTL DEF Spec

(* Every variable of the two threads and of the FPGA always holds a value of
   its type. *)
THEOREM TypeCorrect == Spec => []TypeOK
<1>1. IInv => TypeOK
  BY DEF IInv
<1> QED BY <1>1, InvariantHolds, PTL

(* When no thread is in rp_set_params and auto-set is not asked for, the copy
   for the worker holds the setting that the clients are told of. *)
THEOREM ParamsAgreeAtRest == Spec => []ParamsAgree
<1>1. IInv => ParamsAgree
  BY DEF IInv, TypeOK, WorkerCalls, CopyUnderWay, Pending, ParamsAgree, At, Threads
<1> QED BY <1>1, InvariantHolds, PTL

(* What is published was acquired, every part of it, with the FPGA set to
   what it is shown as. *)
THEOREM PublishedAsProgrammed == Spec => []AcquiredAsProgrammed
<1>1. IInv => AcquiredAsProgrammed
  BY DEF IInv
<1> QED BY <1>1, InvariantHolds, PTL
=============================================================================
