----------------------- MODULE RadioBoxWorker_proofs ------------------------
(***************************************************************************)
(* Proofs about RadioBoxWorker, for any routes, carriers and number of     *)
(* posts.  The first lemmas are about lists of parameters, the next ones   *)
(* about the five steps that move a list (a post that is queued, taken,    *)
(* compared, applied, exported); the other steps are in StepHolds.         *)
(***************************************************************************)
EXTENDS RadioBoxWorker, TLAPS

(* What a list says of the single-shot tag. *)
Calib(list) == IF "rb_calib" \in DOMAIN list THEN list["rb_calib"] ELSE 0

(* Two lists with the same settings: the single-shot tag is no setting. *)
Same(l, s) == \A n \in Names \ {"rb_calib"} : l[n] = s[n]

Exiting ==
  http \in {"exit_unmap", "exit_clear", "exit_quit", "exit_join", "unloaded"}

(* Where the worker has a list to work on, and that its own list lasts as
   long as it does. *)
WorkerLists ==
  /\ http \in {"set_queue", "set_flag"} =>
       request.idx \in Frames /\ request.list \in FrameLists(request.idx)
  /\ worker \in {"start", "top", "take", "flag_load", "flag_store", "rest", "ended"}
       => copy = NoList
  /\ worker \in {"normal", "enable", "set_ctrl", "inited", "read", "export"}
       => copy # NoList
  /\ worker # "ended" => params \in Lists

(* The first pass works on the worker's own list, which holds every name,
   and is over when the list is exported. *)
FirstPass ==
  /\ worker \in {"purge", "decide", "normal", "enable"} =>
       /\ l_init_done = init_done
       /\ ~l_init_done => copy = params
  /\ worker = "start" => ~init_done
  /\ worker \in {"read", "export"} => init_done

(* The order of the shutdown, seen from the mapping. *)
Shutdown ==
  /\ mapped => pointer
  /\ ~Exiting => (pointer => mapped)
  /\ http \in {"exit_clear", "exit_quit", "exit_join", "unloaded"} => ~mapped
  /\ ctrl = "quit" \/ l_state = "quit" => ~mapped

(* The tag never enters the worker's list, and leaves the copy at Enable. *)
CalibCleared ==
  mapped =>
    /\ worker # "ended" => params["rb_calib"] = 0
    /\ worker \in {"set_ctrl", "inited", "read", "export"} => Calib(copy) = 0

(* The registers say what a list says. *)
Follows(list) ==
  /\ regs.on = (list["rb_run"] = 1)
  /\ regs.on => regs.qrg = list["qrg"]
  /\ ~regs.on => regs.src = 0

(* After the first pass, and while they are mapped, they follow the worker's
   list up to Enable, and the new list from there on. *)
RegistersInStep ==
  ~Exiting /\ mapped =>
    /\ init_done /\ worker \in {"top", "take", "purge", "decide", "normal",
                                "enable", "flag_load", "flag_store", "rest"}
         => Follows(params)
    /\ worker \in {"inited", "read", "export"} => Follows(New)
    /\ worker = "set_ctrl" => regs.on /\ New["rb_run"] = 1

(* What is exported is the worker's list, and it is withdrawn while a pass
   is under way; what waits is the last post, and nothing else is missing. *)
ExportInStep ==
  /\ info # NoList => worker # "ended" /\ init_done /\ info = params
  /\ worker \in {"decide", "normal", "enable", "set_ctrl", "inited",
                 "read", "export"} /\ copy # NoList
       => info = NoList
  /\ worker # "ended" /\ cb_in # NoList => Same(New, before)
  /\ worker = "purge" /\ copy # NoList /\ l_init_done =>
       IF cb_in = NoList THEN Same(params, before)
       ELSE http = "set_flag" \/ (http = "get_flag" /\ busy)

(* The inductive invariant. *)
IInv == /\ TypeOK /\ WorkerLists /\ FirstPass /\ Shutdown
        /\ NothingLost /\ CalibOnce /\ CalibCleared
        /\ RegistersInStep /\ ExportInStep

(* No list is a list without names. *)
LEMMA Empty == DOMAIN NoList = {}
BY DEF NoList

(* A full list holds every name, and a typed value under each. *)
LEMMA ListAt ==
  ASSUME NEW l \in Lists
  PROVE  /\ DOMAIN l = Names
         /\ l["rb_run"] \in 0..1 /\ l["rb_calib"] \in 0..1
         /\ l["route"] \in Routes /\ l["qrg"] \in Qrgs
BY DEF Lists, Names

(* A function of the names with typed values is a full list. *)
LEMMA ListIs ==
  ASSUME NEW l, l = [n \in Names |-> l[n]],
         l["rb_run"] \in 0..1, l["rb_calib"] \in 0..1,
         l["route"] \in Routes, l["qrg"] \in Qrgs
  PROVE  l \in Lists
BY DEF Lists, Names

(* The list of a frame holds the names of the frame, and typed values. *)
LEMMA FrameAt ==
  ASSUME NEW f \in Frames, NEW p \in FrameLists(f)
  PROVE  /\ DOMAIN p = FrameNames(f) /\ p = [n \in FrameNames(f) |-> p[n]]
         /\ f = 1 => p["rb_run"] \in 0..1 /\ p["rb_calib"] \in 0..1 /\ p["route"] \in Routes
         /\ f = 2 => p["qrg"] \in Qrgs
         /\ p # NoList
<1>1. PICK l \in Lists : p = [n \in FrameNames(f) |-> l[n]]
  BY DEF FrameLists, Restrict
<1>2. f = 1 \/ f = 2
  BY DEF Frames
<1>3. FrameNames(1) = {"rb_run", "rb_calib", "route"} /\ FrameNames(2) = {"qrg"}
  BY DEF FrameNames
<1>4. DOMAIN p = FrameNames(f) /\ p = [n \in FrameNames(f) |-> p[n]]
  BY <1>1
<1>5. p # NoList
  BY <1>2, <1>3, <1>4, Empty
<1> QED BY <1>1, <1>2, <1>3, <1>4, <1>5, ListAt

(* A function of the names of a frame with typed values is one of its lists. *)
LEMMA FrameIs ==
  ASSUME NEW f \in Frames, NEW p, p = [n \in FrameNames(f) |-> p[n]],
         f = 1 => p["rb_run"] \in 0..1 /\ p["rb_calib"] \in 0..1 /\ p["route"] \in Routes,
         f = 2 => p["qrg"] \in Qrgs
  PROVE  p \in FrameLists(f)
<1> DEFINE l == [n \in Names |-> IF n \in FrameNames(f) THEN p[n] ELSE 0]
<1>1. l \in Lists
  <2>1. l = [n \in Names |-> l[n]]
    OBVIOUS
  <2>2. l["rb_run"] \in 0..1 /\ l["rb_calib"] \in 0..1
         /\ l["route"] \in Routes /\ l["qrg"] \in Qrgs
    BY WorkerConstants DEF Names, FrameNames, Frames, WorkerConstants
  <2> HIDE DEF l
  <2> QED BY <2>1, <2>2, ListIs
<1>2. p = Restrict(l, FrameNames(f))
  BY DEF Restrict, Names, FrameNames, Frames
<1> QED BY <1>1, <1>2 DEF FrameLists


(* What a list that is posted or copied may hold. *)
LEMMA PartAt ==
  ASSUME NEW p \in Partial \cup Lists
  PROVE  /\ DOMAIN p \subseteq Names
         /\ p = NoList <=> DOMAIN p = {}
         /\ p # NoList => p = [n \in DOMAIN p |-> p[n]]
         /\ "rb_run" \in DOMAIN p => p["rb_run"] \in 0..1
         /\ "rb_calib" \in DOMAIN p => p["rb_calib"] \in 0..1
         /\ "route" \in DOMAIN p => p["route"] \in Routes
         /\ "qrg" \in DOMAIN p => p["qrg"] \in Qrgs
         /\ Calib(p) \in 0..1
<1>1. CASE p = NoList
  BY <1>1, Empty DEF Calib
<1>2. CASE p \in FrameLists(1)
  <2>1. 1 \in Frames /\ FrameNames(1) = {"rb_run", "rb_calib", "route"}
    BY DEF Frames, FrameNames
  <2> QED BY <1>2, <2>1, FrameAt DEF Names, Calib
<1>3. CASE p \in FrameLists(2)
  <2>1. 2 \in Frames /\ FrameNames(2) = {"qrg"}
    BY DEF Frames, FrameNames
  <2> QED BY <1>3, <2>1, FrameAt DEF Names, Calib
<1>4. CASE p \in Lists
  <2>1. p = [n \in DOMAIN p |-> p[n]]
    BY <1>4 DEF Lists
  <2> QED BY <1>4, <2>1, ListAt, Empty DEF Names, Calib
<1> QED BY <1>1, <1>2, <1>3, <1>4 DEF Partial

(* Update yields a full list: the newer value where there is one. *)
LEMMA UpdateAt ==
  ASSUME NEW l \in Lists, NEW p \in Partial \cup Lists
  PROVE  /\ Update(l, p) \in Lists
         /\ \A n \in Names : Update(l, p)[n] = IF n \in DOMAIN p THEN p[n] ELSE l[n]
<1>1. Update(l, p) = [n \in Names |-> IF n \in DOMAIN p THEN p[n] ELSE l[n]]
  BY ListAt DEF Update
<1>2. \A n \in Names : Update(l, p)[n] = IF n \in DOMAIN p THEN p[n] ELSE l[n]
  BY <1>1
<1>3. Update(l, p) = [n \in Names |-> Update(l, p)[n]]
  BY <1>1
<1>4. /\ Update(l, p)["rb_run"] \in 0..1 /\ Update(l, p)["rb_calib"] \in 0..1
      /\ Update(l, p)["route"] \in Routes /\ Update(l, p)["qrg"] \in Qrgs
  BY <1>2, ListAt, PartAt DEF Names
<1> QED BY <1>2, <1>3, <1>4, ListIs

(* Clearing the single-shot tag leaves the list a list, and the rest of it. *)
LEMMA ClearedAt ==
  ASSUME NEW p \in Partial \cup Lists, "rb_calib" \in DOMAIN p
  PROVE  LET q == [p EXCEPT !["rb_calib"] = 0]
         IN  /\ q \in (Partial \cup Lists) \ {NoList}
             /\ DOMAIN q = DOMAIN p /\ Calib(q) = 0
             /\ \A n \in DOMAIN p \ {"rb_calib"} : q[n] = p[n]
<1> DEFINE q == [p EXCEPT !["rb_calib"] = 0]
<1>1. DOMAIN q = DOMAIN p /\ q["rb_calib"] = 0
      /\ \A n \in DOMAIN p \ {"rb_calib"} : q[n] = p[n]
  OBVIOUS
<1>2. q = [n \in DOMAIN p |-> q[n]]
  OBVIOUS
<1>3. 1 \in Frames /\ FrameNames(1) = {"rb_run", "rb_calib", "route"}
      /\ 2 \in Frames /\ FrameNames(2) = {"qrg"}
  BY DEF Frames, FrameNames
<1>4. Calib(q) = 0 /\ q # NoList
  BY <1>1, Empty DEF Calib
<1>5. CASE p \in FrameLists(1)
  <2>1. DOMAIN p = FrameNames(1) /\ p["rb_run"] \in 0..1 /\ p["route"] \in Routes
    BY <1>3, <1>5, FrameAt
  <2>2. q["rb_run"] \in 0..1 /\ q["rb_calib"] \in 0..1 /\ q["route"] \in Routes
    BY <1>1, <1>3, <2>1
  <2>3. q = [n \in FrameNames(1) |-> q[n]]
    BY <1>2, <2>1
  <2> HIDE DEF q
  <2>4. q \in FrameLists(1)
    BY <1>3, <2>2, <2>3, FrameIs
  <2> QED BY <1>1, <1>4, <2>4 DEF Partial, q
<1>6. CASE p \in Lists
  <2>1. DOMAIN p = Names
    BY <1>6, ListAt
  <2>2. q["rb_run"] \in 0..1 /\ q["rb_calib"] \in 0..1
        /\ q["route"] \in Routes /\ q["qrg"] \in Qrgs
    BY <1>1, <1>6, ListAt DEF Names
  <2>3. q = [n \in Names |-> q[n]]
    BY <1>2, <2>1
  <2> HIDE DEF q
  <2>4. q \in Lists
    BY <2>2, <2>3, ListIs
  <2> QED BY <1>1, <1>4, <2>4 DEF q
<1>7. ~(p \in FrameLists(2)) /\ p # NoList
  BY <1>3, FrameAt, Empty
<1> QED BY <1>5, <1>6, <1>7 DEF Partial

(* A post is queued: it is added to the sum, and waits. *)
LEMMA SetQueueHolds ==
  ASSUME IInv, SetQueue
  PROVE  IInv'
<1> DEFINE list == request.list
<1>0. IInv /\ SetQueue
  OBVIOUS
<1>1. /\ list \in Partial \ {NoList} /\ cb_in' = list /\ cb_in = NoList
      /\ UNCHANGED <<request, reply, workerVars, pktVars, fpgaVars, posts,
                     calibDone, info, init_done, ctrl>>
      /\ http' = "set_flag" /\ before' = posted /\ posted' = Update(posted, list)
  <2>1. request.idx \in {1, 2} /\ list \in FrameLists(request.idx)
    BY <1>0 DEF IInv, WorkerLists, SetQueue, Frames
  <2>2. list # NoList
    BY <2>1, FrameAt DEF Frames
  <2> QED BY <1>0, <2>1, <2>2 DEF SetQueue, Partial
<1>2. TypeOK'
  <2>1. posted' \in Lists /\ before' \in Lists
    BY <1>0, <1>1, UpdateAt DEF IInv, TypeOK
  <2>2. calibAsked' = calibAsked + Calib(list) /\ Calib(list) \in 0..1
    BY <1>0, <1>1, PartAt DEF SetQueue, Calib
  <2>3. calibAsked' \in Nat
    BY <1>0, <2>2 DEF IInv, TypeOK
  <2> QED BY <1>0, <1>1, <2>1, <2>3 DEF IInv, TypeOK, workerVars, pktVars, fpgaVars
<1>3. WorkerLists' /\ FirstPass' /\ Shutdown' /\ CalibCleared' /\ RegistersInStep'
  BY <1>0, <1>1 DEF IInv, WorkerLists, SetQueue, FirstPass, Shutdown, Exiting,
     CalibCleared, RegistersInStep, Follows, New, workerVars, pktVars, fpgaVars
<1>4. NothingLost'
  <2> SUFFICES ASSUME worker # "ended", NEW n \in Names \ {"rb_calib"}
               PROVE  Update(New, list)[n] = Update(posted, list)[n]
    BY <1>1 DEF NothingLost, New, workerVars
  <2>1. New \in Lists /\ posted \in Lists
    BY <1>0, UpdateAt DEF IInv, TypeOK, WorkerLists, New
  <2>2. New[n] = posted[n]
    <3>1. Update(New, NoList)[n] = posted[n]
      BY <1>0, <1>1 DEF IInv, NothingLost, New
    <3>2. Update(New, NoList)[n] = New[n]
      BY <2>1, UpdateAt, Empty DEF Partial
    <3> QED BY <3>1, <3>2
  <2> QED BY <1>1, <2>1, <2>2, UpdateAt
<1>5. CalibOnce'
  <2>1. calibAsked' = calibAsked + Calib(list) /\ Calib(list) \in 0..1
    BY <1>0, <1>1, PartAt DEF SetQueue, Calib
  <2>2. mapped => calibAsked = calibDone + 0 + Calib(copy)
    BY <1>0, <1>1, Empty DEF IInv, CalibOnce, Calib
  <2>3. Calib(copy) \in 0..1 /\ calibAsked \in Nat /\ calibDone \in Nat
    BY <1>0, PartAt DEF IInv, TypeOK
  <2>4. mapped => calibAsked' = calibDone + Calib(list) + Calib(copy)
    BY <2>1, <2>2, <2>3
  <2> QED BY <1>1, <2>4 DEF CalibOnce, Calib, workerVars, fpgaVars
<1>6. ExportInStep'
  <2>1. worker # "ended" => Same(New, posted)
    <3> SUFFICES ASSUME worker # "ended", NEW n \in Names \ {"rb_calib"}
                 PROVE  New[n] = posted[n]
      BY DEF Same
    <3>1. New \in Lists
      BY <1>0, UpdateAt DEF IInv, TypeOK, WorkerLists, New
    <3>2. Update(New, NoList)[n] = posted[n]
      BY <1>0, <1>1 DEF IInv, NothingLost, New
    <3> QED BY <3>1, <3>2, UpdateAt, Empty DEF Partial
  <2> QED BY <1>0, <1>1, <2>1 DEF IInv, ExportInStep, Same, New, workerVars
<1> QED BY <1>2, <1>3, <1>4, <1>5, <1>6 DEF IInv

(* The worker takes the list that waits, or its own in the first pass. *)
LEMMA TakeHolds ==
  ASSUME IInv, Take
  PROVE  IInv'
<1>0. IInv /\ Take
  OBVIOUS
<1>1. /\ worker = "take" /\ worker' = "purge" /\ l_init_done' = init_done
      /\ copy = NoList /\ params \in Lists
      /\ UNCHANGED <<httpVars, l_state, params, seenIdx, pktVars,
                     fpgaVars, histVars, info, init_done, ctrl>>
      /\ init_done => copy' = cb_in /\ cb_in' = NoList
      /\ ~init_done => copy' = params /\ cb_in' = cb_in
  BY <1>0 DEF IInv, WorkerLists, Take
<1>2. TypeOK' /\ WorkerLists' /\ FirstPass' /\ Shutdown'
  BY <1>0, <1>1 DEF IInv, TypeOK, Partial, WorkerLists, FirstPass, Shutdown,
     Exiting, httpVars, pktVars, fpgaVars, histVars
<1>3. NoList \in Partial /\ Update(params, NoList) \in Lists
      /\ \A n \in Names : Update(params, NoList)[n] = params[n]
  BY <1>1, UpdateAt, Empty DEF Partial
<1>4. NothingLost'
  <2> SUFFICES ASSUME NEW n \in Names \ {"rb_calib"}
               PROVE  Update(Update(params, copy'), cb_in')[n] = posted[n]
    BY <1>1 DEF NothingLost, histVars
  <2>1. Update(Update(params, NoList), cb_in)[n] = posted[n]
    BY <1>0, <1>1 DEF IInv, NothingLost
  <2>2. Update(Update(params, NoList), cb_in)[n]
          = IF n \in DOMAIN cb_in THEN cb_in[n] ELSE params[n]
    <3>1. cb_in \in Partial \cup Lists
      BY <1>0 DEF IInv, TypeOK
    <3>2. Update(Update(params, NoList), cb_in)[n]
            = IF n \in DOMAIN cb_in THEN cb_in[n] ELSE Update(params, NoList)[n]
      BY <1>3, <3>1, UpdateAt
    <3> QED BY <1>3, <3>2
  <2>3. CASE init_done
    <3>1. Update(params, cb_in) \in Lists
          /\ Update(params, cb_in)[n] = IF n \in DOMAIN cb_in THEN cb_in[n] ELSE params[n]
      BY <1>0, <1>1, UpdateAt DEF IInv, TypeOK
    <3>2. Update(Update(params, cb_in), NoList)[n] = Update(params, cb_in)[n]
      BY <1>3, <3>1, UpdateAt, Empty
    <3> QED BY <1>1, <2>1, <2>2, <2>3, <3>1, <3>2
  <2>4. CASE ~init_done
    <3>1. Update(params, params) \in Lists
          /\ Update(params, params)[n] = params[n]
      BY <1>1, UpdateAt
    <3>2. Update(Update(params, params), cb_in)[n]
            = IF n \in DOMAIN cb_in THEN cb_in[n] ELSE params[n]
      BY <1>0, <3>1, UpdateAt DEF IInv, TypeOK
    <3> QED BY <1>1, <2>1, <2>2, <2>4, <3>2
  <2> QED BY <2>3, <2>4
<1>5. CalibOnce'
  <2>1. mapped => calibAsked = calibDone + Calib(cb_in) + Calib(copy)
    BY <1>0 DEF IInv, CalibOnce, Calib
  <2>2. mapped => Calib(params) = 0
    BY <1>0, <1>1, ListAt DEF IInv, CalibCleared, Calib, Names
  <2>3. Calib(NoList) = 0 /\ Calib(cb_in) \in 0..1 /\ calibDone \in Nat
    BY <1>0, PartAt, Empty DEF IInv, TypeOK, Calib
  <2>4. mapped => calibAsked = calibDone + Calib(cb_in') + Calib(copy')
    BY <1>1, <2>1, <2>2, <2>3
  <2> QED BY <1>1, <2>4 DEF CalibOnce, Calib, fpgaVars, histVars
<1>6. CalibCleared' /\ RegistersInStep'
  BY <1>0, <1>1 DEF IInv, CalibCleared, RegistersInStep, Follows, Exiting,
     httpVars, fpgaVars
<1>7. ExportInStep'
  <2>1. Same(New, params)
    BY <1>1, <1>3 DEF Same, New
  <2>2. ~init_done => Same(Update(params, params), params)
    BY <1>1, UpdateAt DEF Same
  <2>3. cb_in # NoList => Same(params, before)
    BY <1>0, <1>1, <2>1 DEF IInv, ExportInStep, Same
  <2>4. cb_in' # NoList => Same(New', before)
    BY <1>1, <2>2, <2>3 DEF Same, New
  <2> QED BY <1>0, <1>1, <2>3, <2>4 DEF IInv, ExportInStep, Same, httpVars,
        pktVars, histVars
<1> QED BY <1>2, <1>4, <1>5, <1>6, <1>7 DEF IInv

(* A pass that changes nothing, or finds the registers unmapped. *)
LEMMA SkipUpdateHolds ==
  ASSUME IInv, SkipUpdate
  PROVE  IInv'
<1>0. IInv /\ SkipUpdate
  OBVIOUS
<1>1. /\ worker = "normal" /\ worker' \in {"read", "export"} /\ copy # NoList /\ params \in Lists
      /\ UNCHANGED <<httpVars, l_state, l_init_done, params, copy, seenIdx, pktVars,
                     fpgaVars, histVars, cb_in, info, ctrl>>
      /\ copy \in Partial \cup Lists /\ New \in Lists
      /\ \A n \in Names : New[n] = IF n \in DOMAIN copy THEN copy[n] ELSE params[n]
  BY <1>0, UpdateAt DEF IInv, TypeOK, WorkerLists, SkipUpdate, AfterUpdate, New
<1>2. init_done' = TRUE
  <2>1. CASE l_init_done
    BY <1>0, <1>1, <2>1 DEF IInv, FirstPass, SkipUpdate
  <2>2. CASE ~l_init_done
    <3>1. Marked = Names
      BY <1>0, <1>1, <2>2, ListAt DEF IInv, FirstPass, Marked
    <3> QED BY <1>0, <3>1 DEF SkipUpdate, Names
  <2> QED BY <2>1, <2>2
<1>3. mapped => init_done /\ \A n \in DOMAIN copy : copy[n] = params[n]
  <2>1. mapped => Marked = {}
    BY <1>0 DEF IInv, Shutdown, SkipUpdate
  <2>2. ~l_init_done => Marked = Names
    BY <1>0, <1>1, ListAt DEF IInv, FirstPass, Marked
  <2> QED BY <1>0, <1>1, <2>1, <2>2 DEF IInv, FirstPass, Marked, Names
<1>4. TypeOK' /\ WorkerLists' /\ FirstPass' /\ Shutdown'
  <2>1. TypeOK'
    BY <1>0, <1>1, <1>2 DEF IInv, TypeOK, httpVars, pktVars, fpgaVars, histVars
  <2>2. WorkerLists' /\ FirstPass' /\ Shutdown'
    BY <1>0, <1>1, <1>2 DEF IInv, WorkerLists, FirstPass, Shutdown, Exiting,
       httpVars, pktVars, fpgaVars, histVars
  <2> QED BY <2>1, <2>2
<1>5. NothingLost' /\ CalibOnce'
  BY <1>0, <1>1 DEF IInv, NothingLost, CalibOnce, fpgaVars, histVars
<1>6. CalibCleared'
  <2>1. mapped => Calib(copy) = 0
    BY <1>0, <1>1, <1>3 DEF IInv, CalibCleared, Calib
  <2> QED BY <1>0, <1>1, <2>1 DEF IInv, CalibCleared, Calib, fpgaVars
<1>7. RegistersInStep'
  <2>1. ~Exiting /\ mapped => Follows(params)
    BY <1>0, <1>1, <1>3 DEF IInv, RegistersInStep
  <2>2. ~Exiting /\ mapped => Follows(New)
    BY <1>1, <1>3, <2>1 DEF Follows, Names
  <2> QED BY <1>1, <2>2 DEF RegistersInStep, Follows, New, Exiting, httpVars,
        fpgaVars
<1>8. ExportInStep'
  BY <1>0, <1>1, <1>2 DEF IInv, ExportInStep, Same, New, httpVars, pktVars,
     histVars
<1> QED BY <1>4, <1>5, <1>6, <1>7, <1>8 DEF IInv

(* The radio is switched, and the request to calibrate is served. *)
LEMMA EnableHolds ==
  ASSUME IInv, Enable
  PROVE  IInv'
<1>0. IInv /\ Enable
  OBVIOUS
<1>1. /\ worker = "enable" /\ copy # NoList /\ params \in Lists
      /\ copy \in Partial \cup Lists /\ DOMAIN copy \subseteq Names
      /\ UNCHANGED <<httpVars, l_state, l_init_done, params, seenIdx, pktVars,
                     mapped, pointer, cache, posts, posted, before, calibAsked,
                     cb_in, info, init_done, ctrl>>
  BY <1>0, PartAt DEF IInv, TypeOK, WorkerLists, Enable
<1>2. /\ copy' \in (Partial \cup Lists) \ {NoList} /\ DOMAIN copy' = DOMAIN copy
      /\ \A n \in DOMAIN copy \ {"rb_calib"} : copy'[n] = copy[n]
  BY <1>0, <1>1, ClearedAt DEF Enable, Marked
<1>3. /\ New \in Lists /\ New' \in Lists
      /\ \A n \in Names : New[n] = IF n \in DOMAIN copy THEN copy[n] ELSE params[n]
      /\ Same(New', New)
  <2>1. New' = Update(params, copy')
    BY <1>1 DEF New
  <2>2. /\ New \in Lists /\ New' \in Lists
        /\ \A n \in Names : New[n] = IF n \in DOMAIN copy THEN copy[n] ELSE params[n]
    BY <1>1, <1>2, <2>1, UpdateAt DEF New
  <2>3. \A n \in Names : New'[n] = IF n \in DOMAIN copy' THEN copy'[n] ELSE params[n]
    BY <1>1, <1>2, <2>1, UpdateAt
  <2> QED BY <1>2, <2>2, <2>3 DEF Same
<1>4. worker' = IF New["rb_run"] = 1 THEN "set_ctrl" ELSE "inited"
  BY <1>0 DEF Enable
<1>5. TypeOK'
  <2>1. regs' \in [on : BOOLEAN, src : Routes \cup {PresetRoute}, qrg : Qrgs]
    BY <1>0, WorkerConstants DEF IInv, TypeOK, Enable, Enabled, Disabled,
       WorkerConstants
  <2>2. calibDone' \in Nat
    BY <1>0, <1>1, PartAt DEF IInv, TypeOK, Enable, Marked
  <2> QED BY <1>0, <1>1, <1>2, <1>4, <2>1, <2>2 DEF IInv, TypeOK, httpVars, pktVars
<1>6. WorkerLists' /\ FirstPass' /\ Shutdown'
  BY <1>0, <1>1, <1>2, <1>4 DEF IInv, WorkerLists, FirstPass, Shutdown, Exiting,
     httpVars, pktVars
<1>7. NothingLost'
  <2> SUFFICES ASSUME NEW n \in Names \ {"rb_calib"}
               PROVE  Update(New', cb_in)[n] = posted[n]
    BY <1>1 DEF NothingLost, New
  <2>1. Update(New, cb_in)[n] = posted[n]
    BY <1>0, <1>1 DEF IInv, NothingLost, New
  <2>2. cb_in \in Partial \cup Lists
    BY <1>0 DEF IInv, TypeOK
  <2>3. /\ Update(New, cb_in)[n] = IF n \in DOMAIN cb_in THEN cb_in[n] ELSE New[n]
        /\ Update(New', cb_in)[n] = IF n \in DOMAIN cb_in THEN cb_in[n] ELSE New'[n]
    BY <1>3, <2>2, UpdateAt
  <2> QED BY <1>3, <2>1, <2>3 DEF Same
<1>8. mapped =>
        /\ Calib(copy') = 0
        /\ calibDone' = calibDone + Calib(copy)
  <2>1. CASE "rb_calib" \in Marked
    BY <1>0, <1>1, <2>1, ClearedAt DEF Enable, Marked, Calib
  <2>2. CASE "rb_calib" \notin Marked
    <3>1. copy' = copy /\ calibDone' = calibDone
      BY <1>0, <2>2 DEF IInv, TypeOK, Enable
    <3>2. mapped => Calib(copy) = 0
      BY <1>0, <1>1, <2>2 DEF IInv, CalibCleared, Calib, Marked
    <3> QED BY <1>0, <3>1, <3>2 DEF IInv, TypeOK
  <2> QED BY <2>1, <2>2
<1>9. CalibOnce' /\ CalibCleared'
  <2>1. mapped => calibAsked = calibDone + Calib(cb_in) + Calib(copy)
    BY <1>0 DEF IInv, CalibOnce, Calib
  <2>2. Calib(cb_in) \in 0..1 /\ Calib(copy) \in 0..1 /\ calibDone \in Nat
    BY <1>0, PartAt DEF IInv, TypeOK
  <2>3. mapped => calibAsked = calibDone' + Calib(cb_in) + Calib(copy')
    BY <1>8, <2>1, <2>2
  <2>4. CalibOnce'
    BY <1>1, <2>3 DEF CalibOnce, Calib
  <2>5. CalibCleared'
    BY <1>0, <1>1, <1>8 DEF IInv, CalibCleared, Calib
  <2> QED BY <2>4, <2>5
<1>10. RegistersInStep'
  <2>1. mapped => mapped'
    BY <1>1
  <2>2. ~Exiting /\ mapped /\ init_done => Follows(params)
    BY <1>0, <1>1 DEF IInv, RegistersInStep
  <2>3. New'["rb_run"] = New["rb_run"] /\ New'["qrg"] = New["qrg"]
    BY <1>3 DEF Same, Names
  <2>4. CASE ~Switches
    <3>1. l_init_done = init_done /\ init_done
      BY <1>0, <1>1, <2>4, ListAt DEF IInv, TypeOK, FirstPass, Switches, Marked,
         Names
    <3>2. New["rb_run"] = params["rb_run"] /\ regs' = regs
      BY <1>0, <1>3, <2>4 DEF Enable, Switches, Marked, Names
    <3> QED BY <1>1, <1>4, <2>2, <2>3, <3>1, <3>2 DEF RegistersInStep, Follows,
          Exiting, httpVars
  <2>5. CASE Switches
    <3>1. mapped =>
            regs' = IF New["rb_run"] = 1 THEN Enabled(regs) ELSE Disabled(regs)
      BY <1>0, <2>5 DEF Enable
    <3>2. mapped => (regs'.on = (New["rb_run"] = 1)) /\ (~regs'.on => regs'.src = 0)
      BY <1>0, <3>1 DEF IInv, TypeOK, Enabled, Disabled
    <3> QED BY <1>1, <1>4, <2>1, <2>3, <3>2 DEF RegistersInStep, Follows,
          Exiting, httpVars
  <2> QED BY <2>4, <2>5
<1>11. ExportInStep'
  <2>1. worker # "ended" /\ cb_in # NoList => Same(New, before)
    BY <1>0 DEF IInv, ExportInStep
  <2>2. cb_in # NoList => Same(New', before)
    BY <1>1, <1>3, <2>1 DEF Same
  <2>3. info = NoList
    BY <1>0, <1>1 DEF IInv, ExportInStep
  <2> QED BY <1>1, <1>4, <2>2, <2>3 DEF ExportInStep, Same, New
<1> QED BY <1>5, <1>6, <1>7, <1>9, <1>10, <1>11 DEF IInv

(* The new list becomes the worker's, and is exported. *)
LEMMA ExportHolds ==
  ASSUME IInv, Export
  PROVE  IInv'
<1>0. IInv /\ Export
  OBVIOUS
<1>1. /\ worker = "export" /\ worker' = "flag_load" /\ params \in Lists
      /\ copy \in Partial \cup Lists /\ copy' = NoList /\ init_done
      /\ params' = New /\ info' = New /\ New \in Lists
      /\ \A n \in Names : New[n] = IF n \in DOMAIN copy THEN copy[n] ELSE params[n]
      /\ UNCHANGED <<httpVars, l_state, l_init_done, seenIdx, pktVars,
                     fpgaVars, histVars, cb_in, init_done, ctrl>>
  BY <1>0, UpdateAt DEF IInv, TypeOK, WorkerLists, FirstPass, Export, New
<1>2. New' \in Lists /\ \A n \in Names : New'[n] = New[n]
  BY <1>1, UpdateAt, Empty DEF New, Partial
<1>3. TypeOK'
  BY <1>0, <1>1 DEF IInv, TypeOK, Partial, httpVars, pktVars, fpgaVars, histVars
<1>4. WorkerLists' /\ FirstPass' /\ Shutdown'
  BY <1>0, <1>1 DEF IInv, WorkerLists, FirstPass, Shutdown, Exiting, httpVars,
     fpgaVars
<1>5. NothingLost'
  <2> SUFFICES ASSUME NEW n \in Names \ {"rb_calib"}
               PROVE  Update(New', cb_in)[n] = posted[n]
    BY <1>1 DEF NothingLost, New, histVars
  <2>1. Update(New, cb_in)[n] = posted[n]
    BY <1>0, <1>1 DEF IInv, NothingLost, New
  <2>2. cb_in \in Partial \cup Lists
    BY <1>0 DEF IInv, TypeOK
  <2>3. /\ Update(New, cb_in)[n] = IF n \in DOMAIN cb_in THEN cb_in[n] ELSE New[n]
        /\ Update(New', cb_in)[n] = IF n \in DOMAIN cb_in THEN cb_in[n] ELSE New'[n]
    BY <1>1, <1>2, <2>2, UpdateAt
  <2> QED BY <1>2, <2>1, <2>3
<1>6. mapped => Calib(copy) = 0 /\ New["rb_calib"] = 0
  <2>1. mapped => Calib(copy) = 0 /\ params["rb_calib"] = 0
    BY <1>0, <1>1 DEF IInv, CalibCleared
  <2> QED BY <1>1, <2>1 DEF Calib, Names
<1>7. CalibOnce' /\ CalibCleared'
  <2>1. mapped => calibAsked = calibDone + Calib(cb_in) + Calib(copy)
    BY <1>0 DEF IInv, CalibOnce, Calib
  <2>2. Calib(NoList) = 0
    BY Empty DEF Calib
  <2>3. mapped => calibAsked = calibDone + Calib(cb_in) + Calib(NoList)
    BY <1>6, <2>1, <2>2
  <2>4. CalibOnce'
    BY <1>1, <2>3 DEF CalibOnce, Calib, fpgaVars, histVars
  <2>5. CalibCleared'
    BY <1>1, <1>6 DEF CalibCleared, fpgaVars
  <2> QED BY <2>4, <2>5
<1>8. RegistersInStep'
  <2>1. ~Exiting /\ mapped => Follows(New)
    BY <1>0, <1>1 DEF IInv, RegistersInStep
  <2> QED BY <1>1, <2>1 DEF RegistersInStep, Follows, Exiting, httpVars, fpgaVars
<1>9. ExportInStep'
  <2>1. cb_in # NoList => Same(New, before)
    BY <1>0, <1>1 DEF IInv, ExportInStep
  <2>2. cb_in # NoList => Same(New', before)
    BY <1>2, <2>1 DEF Same
  <2> QED BY <1>1, <2>2 DEF ExportInStep, Same, New, histVars
<1> QED BY <1>3, <1>4, <1>5, <1>7, <1>8, <1>9 DEF IInv

(* The initial state satisfies the invariant. *)
LEMMA InitHolds == Init => IInv
<1> SUFFICES ASSUME Init PROVE IInv
  OBVIOUS
<1>1. Defaults \in Lists /\ DOMAIN Defaults = Names
      /\ \A n \in Names : Defaults[n] = 0
  <2>1. Defaults = [n \in Names |-> Defaults[n]]
    BY DEF Defaults
  <2>2. DOMAIN Defaults = Names /\ \A n \in Names : Defaults[n] = 0
    BY DEF Defaults
  <2> QED BY <2>1, <2>2, ListIs, WorkerConstants DEF Names, WorkerConstants
<1>2. NoList \in Partial
  BY DEF Partial
<1>3. TypeOK
  <2>1. regs \in [on : BOOLEAN, src : Routes \cup {PresetRoute}, qrg : Qrgs]
        /\ cache \in [src : Routes, qrg : Qrgs]
    BY WorkerConstants DEF Init, WorkerConstants
  <2>2. posts \in 0..MaxPosts
    BY WorkerConstants DEF Init, WorkerConstants
  <2> QED BY <1>1, <1>2, <2>1, <2>2 DEF Init, TypeOK
<1>4. WorkerLists /\ FirstPass /\ Shutdown
  BY <1>1 DEF Init, WorkerLists, FirstPass, Shutdown, Exiting
<1>5. NothingLost
  <2>1. Update(Defaults, NoList) \in Lists
        /\ \A n \in Names : Update(Defaults, NoList)[n] = Defaults[n]
    BY <1>1, <1>2, UpdateAt, Empty
  <2>2. \A n \in Names : Update(Update(Defaults, NoList), NoList)[n] = Defaults[n]
    BY <1>2, <2>1, UpdateAt, Empty
  <2> QED BY <2>2 DEF Init, NothingLost
<1>6. CalibOnce /\ CalibCleared
  BY <1>1, Empty DEF Init, CalibOnce, CalibCleared, Names
<1>7. RegistersInStep /\ ExportInStep
  BY DEF Init, RegistersInStep, ExportInStep
<1> QED BY <1>3, <1>4, <1>5, <1>6, <1>7 DEF IInv

(* Every step preserves it. *)
LEMMA StepHolds ==
  ASSUME IInv, [Next]_vars
  PROVE  IInv'
<1>0. IInv
  OBVIOUS
<1>1. CASE \E f \in Frames : Post(f)
  BY <1>0, <1>1, WorkerConstants DEF IInv, TypeOK, WorkerLists, FirstPass,
     Shutdown, Exiting, NothingLost, New, CalibOnce, CalibCleared,
     RegistersInStep, Follows, ExportInStep, Same, Post, httpVars,
     workerVars, pktVars, fpgaVars, histVars, WorkerConstants
<1>2. CASE SetQueue
  BY <1>0, <1>2, SetQueueHolds
<1>3. CASE SetFlag
  BY <1>0, <1>3 DEF IInv, TypeOK, WorkerLists, FirstPass, Shutdown, Exiting,
     NothingLost, New, CalibOnce, CalibCleared, RegistersInStep, Follows,
     ExportInStep, Same, SetFlag, httpVars, workerVars, pktVars, fpgaVars,
     histVars
<1>4. CASE Get
  BY <1>0, <1>4 DEF IInv, TypeOK, WorkerLists, FirstPass, Shutdown, Exiting,
     NothingLost, New, CalibOnce, CalibCleared, RegistersInStep, Follows,
     ExportInStep, Same, Get, httpVars, workerVars, pktVars, fpgaVars,
     histVars
<1>5. CASE GetFlag
  BY <1>0, <1>5 DEF IInv, TypeOK, WorkerLists, FirstPass, Shutdown, Exiting,
     NothingLost, New, CalibOnce, CalibCleared, RegistersInStep, Follows,
     ExportInStep, Same, GetFlag, httpVars, workerVars, pktVars, fpgaVars,
     histVars
<1>6. CASE GetInfo
  <2>1. TypeOK'
    BY <1>0, <1>6 DEF IInv, TypeOK, GetInfo, httpVars, workerVars, pktVars,
       fpgaVars, histVars
  <2>2. WorkerLists' /\ FirstPass' /\ Shutdown' /\ NothingLost' /\ CalibOnce'
        /\ CalibCleared' /\ RegistersInStep' /\ ExportInStep'
    BY <1>0, <1>6 DEF IInv, WorkerLists, FirstPass, Shutdown, Exiting,
       NothingLost, New, CalibOnce, CalibCleared, RegistersInStep, Follows,
       ExportInStep, Same, GetInfo, httpVars, workerVars, pktVars, fpgaVars,
       histVars
  <2> QED BY <2>1, <2>2 DEF IInv
<1>7. CASE ExitDisable
  <2>1. TypeOK'
    <3>1. regs' \in [on : BOOLEAN, src : Routes \cup {PresetRoute}, qrg : Qrgs]
      BY <1>0, <1>7, WorkerConstants DEF IInv, TypeOK, ExitDisable, Disabled,
         WorkerConstants
    <3> QED BY <1>0, <1>7, <3>1 DEF IInv, TypeOK, ExitDisable, workerVars,
          pktVars, histVars
  <2>2. WorkerLists' /\ FirstPass' /\ Shutdown' /\ NothingLost' /\ CalibOnce'
        /\ CalibCleared' /\ ExportInStep'
    BY <1>0, <1>7 DEF IInv, WorkerLists, FirstPass, Shutdown, Exiting,
       NothingLost, New, CalibOnce, CalibCleared, ExportInStep, Same,
       ExitDisable, httpVars, workerVars, pktVars, fpgaVars, histVars
  <2>3. RegistersInStep'
    BY <1>0, <1>7 DEF IInv, TypeOK, WorkerLists, RegistersInStep, Follows,
       Exiting, New, ExitDisable, httpVars, workerVars, pktVars, fpgaVars,
       histVars
  <2> QED BY <2>1, <2>2, <2>3 DEF IInv
<1>8. CASE ExitUnmap
  <2>1. TypeOK'
    <3>1. {busy, init_done, l_init_done, mapped, pointer}' \subseteq BOOLEAN
      BY <1>0, <1>8 DEF IInv, TypeOK, ExitUnmap, workerVars, pktVars
    <3> QED BY <1>0, <1>8, <3>1 DEF IInv, TypeOK, ExitUnmap, workerVars,
          pktVars, histVars
  <2>2. WorkerLists' /\ FirstPass' /\ Shutdown' /\ NothingLost' /\ CalibOnce'
        /\ CalibCleared' /\ RegistersInStep' /\ ExportInStep'
    BY <1>0, <1>8 DEF IInv, WorkerLists, FirstPass, Shutdown, Exiting,
       NothingLost, New, CalibOnce, CalibCleared, RegistersInStep, Follows,
       ExportInStep, Same, ExitUnmap, httpVars, workerVars, pktVars,
       fpgaVars, histVars
  <2> QED BY <2>1, <2>2 DEF IInv
<1>9. CASE ExitClear
  <2>1. TypeOK'
    <3>1. {busy, init_done, l_init_done, mapped, pointer}' \subseteq BOOLEAN
      BY <1>0, <1>9 DEF IInv, TypeOK, ExitClear, workerVars, pktVars
    <3> QED BY <1>0, <1>9, <3>1 DEF IInv, TypeOK, ExitClear, workerVars,
          pktVars, histVars
  <2>2. WorkerLists' /\ FirstPass' /\ Shutdown' /\ NothingLost' /\ CalibOnce'
        /\ CalibCleared' /\ RegistersInStep' /\ ExportInStep'
    BY <1>0, <1>9 DEF IInv, WorkerLists, FirstPass, Shutdown, Exiting,
       NothingLost, New, CalibOnce, CalibCleared, RegistersInStep, Follows,
       ExportInStep, Same, ExitClear, httpVars, workerVars, pktVars,
       fpgaVars, histVars
  <2> QED BY <2>1, <2>2 DEF IInv
<1>10. CASE ExitQuit
  BY <1>0, <1>10 DEF IInv, TypeOK, WorkerLists, FirstPass, Shutdown, Exiting,
     NothingLost, New, CalibOnce, CalibCleared, RegistersInStep, Follows,
     ExportInStep, Same, ExitQuit, httpVars, workerVars, pktVars, fpgaVars,
     histVars
<1>11. CASE ExitJoin
  BY <1>0, <1>11 DEF IInv, TypeOK, WorkerLists, FirstPass, Shutdown, Exiting,
     NothingLost, New, CalibOnce, CalibCleared, RegistersInStep, Follows,
     ExportInStep, Same, ExitJoin, httpVars, workerVars, pktVars, fpgaVars,
     histVars
<1>12. CASE Start
  BY <1>0, <1>12 DEF IInv, TypeOK, WorkerLists, FirstPass, Shutdown, Exiting,
     NothingLost, New, CalibOnce, CalibCleared, RegistersInStep, Follows,
     ExportInStep, Same, Start, httpVars, workerVars, pktVars, fpgaVars,
     histVars
<1>13. CASE ReadState
  BY <1>0, <1>13 DEF IInv, TypeOK, WorkerLists, FirstPass, Shutdown, Exiting,
     NothingLost, New, CalibOnce, CalibCleared, RegistersInStep, Follows,
     ExportInStep, Same, ReadState, httpVars, workerVars, pktVars, fpgaVars,
     histVars
<1>14. CASE Take
  BY <1>0, <1>14, TakeHolds
<1>15. CASE Purge
  BY <1>0, <1>15 DEF IInv, TypeOK, WorkerLists, FirstPass, Shutdown, Exiting,
     NothingLost, New, CalibOnce, CalibCleared, RegistersInStep, Follows,
     ExportInStep, Same, Purge, httpVars, workerVars, pktVars, fpgaVars,
     histVars
<1>16. CASE GoNormal
  BY <1>0, <1>16 DEF IInv, TypeOK, WorkerLists, FirstPass, Shutdown, Exiting,
     NothingLost, New, CalibOnce, CalibCleared, RegistersInStep, Follows,
     ExportInStep, Same, GoNormal, httpVars, workerVars, pktVars, fpgaVars,
     histVars
<1>17. CASE StayIdle
  BY <1>0, <1>17 DEF IInv, TypeOK, WorkerLists, FirstPass, Shutdown, Exiting,
     NothingLost, New, CalibOnce, CalibCleared, RegistersInStep, Follows,
     ExportInStep, Same, StayIdle, httpVars, workerVars, pktVars, fpgaVars,
     histVars
<1>18. CASE Quit
  <2>1. TypeOK'
    <3>1. cb_in' \in Partial /\ info' \in {NoList} \cup Lists
      BY <1>18 DEF Quit, Partial
    <3> QED BY <1>0, <1>18, <3>1 DEF IInv, TypeOK, Quit, httpVars, pktVars,
          fpgaVars, histVars
  <2>2. CalibOnce' /\ CalibCleared'
    BY <1>0, <1>18 DEF IInv, Shutdown, CalibOnce, CalibCleared, Quit,
       fpgaVars
  <2>3. WorkerLists' /\ FirstPass' /\ Shutdown' /\ NothingLost' /\ RegistersInStep'
        /\ ExportInStep'
    BY <1>0, <1>18 DEF IInv, WorkerLists, FirstPass, Shutdown, Exiting,
       NothingLost, New, RegistersInStep, Follows, ExportInStep, Same, Quit,
       httpVars, workerVars, pktVars, fpgaVars, histVars
  <2> QED BY <2>1, <2>2, <2>3 DEF IInv
<1>19. CASE SkipUpdate
  BY <1>0, <1>19, SkipUpdateHolds
<1>20. CASE BeginUpdate
  BY <1>0, <1>20 DEF IInv, TypeOK, WorkerLists, FirstPass, Shutdown, Exiting,
     NothingLost, New, CalibOnce, CalibCleared, RegistersInStep, Follows,
     ExportInStep, Same, BeginUpdate, httpVars, workerVars, pktVars,
     fpgaVars, histVars
<1>21. CASE Enable
  BY <1>0, <1>21, EnableHolds
<1>22. CASE SetCtrl
  <2>1. TypeOK'
    <3>1. New["route"] \in Routes /\ New["qrg"] \in Qrgs
      BY <1>0, <1>22, UpdateAt, ListAt DEF IInv, TypeOK, WorkerLists, New, SetCtrl
    <3>2. /\ cache' \in [src : Routes, qrg : Qrgs]
          /\ regs' \in [on : BOOLEAN, src : Routes \cup {PresetRoute}, qrg : Qrgs]
      BY <1>0, <1>22, <3>1 DEF IInv, TypeOK, SetCtrl
    <3> QED BY <1>0, <1>22, <3>2 DEF IInv, TypeOK, SetCtrl, httpVars, pktVars,
          histVars
  <2>2. WorkerLists' /\ FirstPass' /\ Shutdown' /\ NothingLost' /\ CalibOnce'
        /\ CalibCleared' /\ ExportInStep'
    BY <1>0, <1>22 DEF IInv, WorkerLists, FirstPass, Shutdown, Exiting,
       NothingLost, New, CalibOnce, CalibCleared, ExportInStep, Same,
       SetCtrl, httpVars, workerVars, pktVars, fpgaVars, histVars
  <2>3. RegistersInStep'
    BY <1>0, <1>22 DEF IInv, TypeOK, WorkerLists, RegistersInStep, Follows,
       Exiting, New, SetCtrl, httpVars, workerVars, pktVars, fpgaVars,
       histVars
  <2> QED BY <2>1, <2>2, <2>3 DEF IInv
<1>23. CASE Crash
  BY <1>0, <1>23 DEF IInv, TypeOK, WorkerLists, FirstPass, Shutdown, Exiting,
     NothingLost, New, CalibOnce, CalibCleared, RegistersInStep, Follows,
     ExportInStep, Same, Crash, httpVars, workerVars, pktVars, fpgaVars,
     histVars
<1>24. CASE InitDone
  BY <1>0, <1>24 DEF IInv, TypeOK, WorkerLists, FirstPass, Shutdown, Exiting,
     NothingLost, New, CalibOnce, CalibCleared, RegistersInStep, Follows,
     ExportInStep, Same, InitDone, AfterUpdate, httpVars, workerVars, pktVars, fpgaVars,
     histVars
<1>25. CASE ReadBack
  BY <1>0, <1>25 DEF IInv, TypeOK, WorkerLists, FirstPass, Shutdown, Exiting,
     NothingLost, New, CalibOnce, CalibCleared, RegistersInStep, Follows,
     ExportInStep, Same, ReadBack, httpVars, workerVars, pktVars, fpgaVars,
     histVars
<1>26. CASE Export
  BY <1>0, <1>26, ExportHolds
<1>27. CASE FlagLoad
  BY <1>0, <1>27 DEF IInv, TypeOK, WorkerLists, FirstPass, Shutdown, Exiting,
     NothingLost, New, CalibOnce, CalibCleared, RegistersInStep, Follows,
     ExportInStep, Same, FlagLoad, httpVars, workerVars, pktVars, fpgaVars,
     histVars
<1>28. CASE FlagStore
  <2>1. TypeOK'
    BY <1>0, <1>28 DEF IInv, TypeOK, FlagStore, httpVars, workerVars,
       pktVars, fpgaVars, histVars
  <2>2. WorkerLists' /\ FirstPass' /\ Shutdown' /\ NothingLost' /\ CalibOnce'
        /\ CalibCleared' /\ RegistersInStep' /\ ExportInStep'
    BY <1>0, <1>28 DEF IInv, WorkerLists, FirstPass, Shutdown, Exiting,
       NothingLost, New, CalibOnce, CalibCleared, RegistersInStep, Follows,
       ExportInStep, Same, FlagStore, httpVars, workerVars, pktVars,
       fpgaVars, histVars
  <2> QED BY <2>1, <2>2 DEF IInv
<1>29. CASE Rest
  BY <1>0, <1>29 DEF IInv, TypeOK, WorkerLists, FirstPass, Shutdown, Exiting,
     NothingLost, New, CalibOnce, CalibCleared, RegistersInStep, Follows,
     ExportInStep, Same, Rest, httpVars, workerVars, pktVars, fpgaVars,
     histVars
<1>30. CASE UNCHANGED vars
  BY <1>0, <1>30 DEF IInv, TypeOK, WorkerLists, FirstPass, Shutdown, Exiting,
     NothingLost, New, CalibOnce, CalibCleared, RegistersInStep, Follows,
     ExportInStep, Same, vars, httpVars, workerVars, pktVars, fpgaVars,
     histVars
<1> QED BY <1>1, <1>2, <1>3, <1>4, <1>5, <1>6, <1>7, <1>8, <1>9, <1>10,
          <1>11, <1>12, <1>13, <1>14, <1>15, <1>16, <1>17, <1>18, <1>19,
          <1>20, <1>21, <1>22, <1>23, <1>24, <1>25, <1>26, <1>27, <1>28,
          <1>29, <1>30 DEF Next, Http, Worker, Asks, Called

(* The inductive invariant holds. *)
THEOREM InvariantHolds == Spec => []IInv
<1>1. Init => IInv
  BY InitHolds
<1>2. IInv /\ [Next]_vars => IInv'
  BY StepHolds
<1> QED BY <1>1, <1>2, PTL DEF Spec

(* Every variable of the web server's thread and of the worker always holds
   a value of its type: the lists hold the names they should and typed
   values under them. *)
THEOREM TypeCorrect == Spec => []TypeOK
<1>1. IInv => TypeOK
  BY DEF IInv
<1> QED BY <1>1, InvariantHolds, PTL

(* No posted value is lost or overtaken by an older one on its way from
   rp_set_params to the worker's list. *)
THEOREM NothingIsLost == Spec => []NothingLost
<1>1. IInv => NothingLost
  BY DEF IInv
<1> QED BY <1>1, InvariantHolds, PTL

(* As long as the FPGA is mapped, every request to calibrate is honoured
   once. *)
THEOREM CalibratedOnce == Spec => []CalibOnce
<1>1. IInv => CalibOnce
  BY DEF IInv
<1> QED BY <1>1, InvariantHolds, PTL

(* Between two passes the registers switch the radio and set its carrier as
   the worker's list says, from the first pass to the beginning of the exit. *)
THEOREM RegistersFollowList == Spec => []RegistersFollow
<1>1. IInv => RegistersFollow
  BY DEF IInv, Shutdown, RegistersInStep, RegistersFollow, Settled, Follows,
     Exiting
<1> QED BY <1>1, InvariantHolds, PTL

(* What a GET finds exported is the sum of the posts, or of all but the
   last. *)
LEMMA InfoOneBehind ==
  ASSUME IInv, http = "get_info", info # NoList, worker # "crashed"
  PROVE  info \in Lists /\ (Same(info, posted) \/ Same(info, before))
<1>1. info = params /\ info \in Lists /\ worker # "ended" /\ init_done
  BY DEF IInv, TypeOK, ExportInStep
<1>2. copy = NoList \/ worker = "purge"
  BY <1>1 DEF IInv, TypeOK, WorkerLists, ExportInStep
<1>3. NoList \in Partial
  BY DEF Partial
<1>4. ASSUME copy = NoList
      PROVE  Same(info, posted) \/ Same(info, before)
  <2>1. New \in Lists /\ \A n \in Names : New[n] = params[n]
    BY <1>1, <1>3, <1>4, UpdateAt, Empty DEF New
  <2>2. CASE cb_in = NoList
    <3>1. \A n \in Names : Update(New, NoList)[n] = New[n]
      BY <1>3, <2>1, UpdateAt, Empty
    <3>2. \A n \in Names \ {"rb_calib"} : Update(New, NoList)[n] = posted[n]
      BY <1>1, <2>2 DEF IInv, NothingLost, New
    <3> QED BY <1>1, <2>1, <3>1, <3>2 DEF Same
  <2>3. CASE cb_in # NoList
    BY <1>1, <2>1, <2>3 DEF IInv, ExportInStep, Same
  <2> QED BY <2>2, <2>3
<1>5. ASSUME worker = "purge", copy # NoList
      PROVE  Same(info, before)
  BY <1>1, <1>5 DEF IInv, FirstPass, ExportInStep
<1> QED BY <1>1, <1>2, <1>4, <1>5

(* A reply is never more than one post behind: rp_get_params returns the
   values of one state, with every post or with every post but the last. *)
THEOREM RepliesOneBehind == Spec => ReplyOneBehind
<1>1. ASSUME IInv, [Next]_vars
      PROVE  [Answer => \E s \in {posted, before} :
                \A n \in DOMAIN reply' \ {"rb_calib"} : reply'[n] = s[n]]_vars
  <2> SUFFICES ASSUME Next, Answer
               PROVE  \E s \in {posted, before} :
                        \A n \in DOMAIN reply' \ {"rb_calib"} : reply'[n] = s[n]
    BY <1>1
  <2>1. GetInfo /\ worker # "crashed"
    <3>1. http = "get_info" /\ http' = "idle"
      BY DEF Answer
    <3>2. ~Worker
      BY <3>1 DEF Worker, Start, ReadState, Take, Purge, GoNormal, StayIdle,
         Quit, SkipUpdate, BeginUpdate, Enable, SetCtrl, Crash, InitDone,
         ReadBack, Export, FlagLoad, FlagStore, Rest, httpVars
    <3> QED BY <3>1, <3>2 DEF Next, Http, Asks, Called, Post, SetQueue, SetFlag,
          Get, GetFlag, GetInfo, ExitDisable, ExitUnmap, ExitClear, ExitQuit,
          ExitJoin
  <2>2. info \in Lists /\ (Same(info, posted) \/ Same(info, before))
    BY <1>1, <2>1, InfoOneBehind DEF GetInfo
  <2>3. ReplyNames(pktIdx) \subseteq Names
    BY DEF ReplyNames, FrameNames, Names
  <2>4. \A n \in DOMAIN reply' : n \in Names /\ reply'[n] = info[n]
    BY <2>1, <2>2, <2>3, ListAt DEF GetInfo, Restrict
  <2> QED BY <2>2, <2>4 DEF Same
<1> QED BY <1>1, InvariantHolds, PTL DEF Spec, ReplyOneBehind
=============================================================================
