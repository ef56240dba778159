--------------------------- MODULE BazaarApp_proofs --------------------------
(***************************************************************************)
(* Proofs about BazaarApp, for any applications: of those with functions   *)
(* for web sockets, with an image, with both or with neither, whether or   *)
(* not their rp_app_init fails and leaves threads behind.                  *)
(***************************************************************************)
EXTENDS BazaarApp, TLAPS

(* LoadedIsReady holds while the applications are listed too: the listing
   does not touch the application that runs. *)
Ready ==
  nginx \in {"idle", "list", "look", "again"} /\ app.handle # Nobody =>
    /\ app.initialized /\ app.id = app.handle
    /\ app.handle \in ImageApps => fpga = app.handle

(* How far a start has come, at each of its steps, and that exactly the
   initialised application has threads. *)
Course ==
  /\ nginx \in {"idle", "list", "look", "again"} => want = Nobody
  /\ nginx \in {"image", "load", "init", "serve"} => want \in Apps
  /\ nginx \in {"image", "load"} => app.handle = Nobody
  /\ nginx \in {"init", "serve"} => app.handle = want
  /\ nginx \in {"load", "init", "serve"} =>
       app.id = want /\ (want \in ImageApps => fpga = want)
  /\ nginx \in {"exit", "image", "load", "init", "serve"} => server = Nobody
  /\ nginx = "serve" => app.initialized
  /\ nginx \in {"image", "load", "init"} => ~app.initialized
  /\ app.initialized => app.handle \in Apps
  /\ threads = IF app.initialized THEN {app.handle} ELSE {}
  /\ nginx \in {"look", "again"} => temp.of \in Apps

IInv ==
  TypeOK /\ ServerInsideApp /\ ThreadsInsideApp /\ HandlesHeld /\ Ready /\ Course

(* The values that stand for nothing have the type of their variable. *)
LEMMA NothingTyped ==
  /\ NoApp \in [handle : Apps \cup {Nobody}, id : Apps \cup {Nobody},
                initialized : BOOLEAN]
  /\ NoTemp \in [of : Apps \cup {Nobody}, open : BOOLEAN, again : BOOLEAN]
BY DEF NoApp, NoTemp

(* The initial state satisfies the invariant. *)
LEMMA InitHolds == Init => IInv
<1> SUFFICES ASSUME Init PROVE IInv
  OBVIOUS
<1>1. TypeOK
  <2>1. opened \in [Apps -> 0..2]
    BY DEF Init
  <2>2. app = NoApp /\ temp = NoTemp
    BY DEF Init
  <2>3. app \in [handle : Apps \cup {Nobody}, id : Apps \cup {Nobody},
                initialized : BOOLEAN]
        /\ temp \in [of : Apps \cup {Nobody}, open : BOOLEAN, again : BOOLEAN]
    BY <2>2, NothingTyped
  <2> QED BY <2>1, <2>3 DEF Init, TypeOK, Boot
<1>2. ServerInsideApp /\ ThreadsInsideApp /\ Ready
  BY DEF Init, ServerInsideApp, ThreadsInsideApp, Ready, NoApp
<1>3. HandlesHeld
  <2>1. ASSUME NEW a \in Apps
        PROVE  opened[a] = 0 /\ app.handle # a /\ nginx # "look"
    BY AppConstants DEF Init, NoApp
  <2> SUFFICES ASSUME NEW a \in Apps
               PROVE  opened[a] = (IF app.handle = a THEN 1 ELSE 0)
                        + (IF nginx = "look" /\ temp.open /\ temp.of = a THEN 1 ELSE 0)
    BY DEF HandlesHeld, One
  <2> QED BY <2>1
<1>4. Course
  BY DEF Init, Course, NoApp
<1> QED BY <1>1, <1>2, <1>3, <1>4 DEF IInv

(* Every step preserves it. *)
LEMMA StepHolds ==
  ASSUME IInv, [Next]_vars
  PROVE  IInv'
<1>0. IInv
  OBVIOUS
<1>1. CASE Stop
  BY <1>0, <1>1, AppConstants DEF IInv, TypeOK, ServerInsideApp,
     ThreadsInsideApp, HandlesHeld, One, Ready, Course, Stop, listVars,
     wsVars, startVars, appVars
<1>2. CASE \E a \in Apps : Start(a)
  BY <1>0, <1>2, AppConstants DEF IInv, TypeOK, ServerInsideApp,
     ThreadsInsideApp, HandlesHeld, One, Ready, Course, Start, listVars,
     wsVars, startVars, appVars
<1>3. CASE UnloadServer
  BY <1>0, <1>3, AppConstants DEF IInv, TypeOK, ServerInsideApp,
     ThreadsInsideApp, HandlesHeld, One, Ready, Course, UnloadServer,
     StopServer, listVars, wsVars, startVars, appVars
<1>4. CASE UnloadLibrary
  <2>1. TypeOK'
    BY <1>0, <1>4, AppConstants, NothingTyped DEF IInv, TypeOK, HandlesHeld,
       One, Course, UnloadLibrary, Closes, AfterUnload, listVars, wsVars,
       startVars, appVars
  <2>2. ServerInsideApp'
    BY <1>0, <1>4, AppConstants DEF IInv, TypeOK, Course, ServerInsideApp,
       UnloadLibrary, Closes, AfterUnload, NoApp, listVars, wsVars, startVars, appVars
  <2>3. ThreadsInsideApp'
    BY <1>0, <1>4, AppConstants DEF IInv, TypeOK, Course, HandlesHeld, One,
       ThreadsInsideApp, UnloadLibrary, Closes, AfterUnload, NoApp, listVars,
       wsVars, startVars, appVars
  <2>4. HandlesHeld'
    BY <1>0, <1>4, AppConstants DEF IInv, TypeOK, One, Course, HandlesHeld,
       UnloadLibrary, Closes, AfterUnload, NoApp, listVars, wsVars, startVars, appVars
  <2>5. Ready'
    BY <1>0, <1>4, AppConstants DEF IInv, TypeOK, Course, Ready,
       UnloadLibrary, Closes, AfterUnload, NoApp, listVars, wsVars, startVars, appVars
  <2>6. Course'
    BY <1>0, <1>4, AppConstants DEF IInv, TypeOK, Ready, ServerInsideApp,
       Course, UnloadLibrary, Closes, AfterUnload, NoApp, listVars, wsVars,
       startVars, appVars
  <2> QED BY <2>1, <2>2, <2>3, <2>4, <2>5, <2>6 DEF IInv
<1>5. CASE LoadImage
  BY <1>0, <1>5, AppConstants DEF IInv, TypeOK, ServerInsideApp,
     ThreadsInsideApp, HandlesHeld, One, Ready, Course, LoadImage, listVars,
     wsVars, startVars, appVars
<1>6. CASE LoadLibrary
  BY <1>0, <1>6, AppConstants DEF IInv, TypeOK, ServerInsideApp,
     ThreadsInsideApp, HandlesHeld, One, Ready, Course, LoadLibrary, Opens,
     listVars, wsVars, startVars, appVars
<1>7. CASE InitApp
  <2>1. TypeOK'
    BY <1>0, <1>7, AppConstants DEF IInv, TypeOK, HandlesHeld, One, Course,
       InitApp, listVars, wsVars, startVars, appVars
  <2>2. ServerInsideApp'
    BY <1>0, <1>7, AppConstants DEF IInv, TypeOK, Course, ServerInsideApp,
       InitApp, listVars, wsVars, startVars, appVars
  <2>3. ThreadsInsideApp'
    BY <1>0, <1>7, AppConstants DEF IInv, TypeOK, Course, HandlesHeld, One,
       ThreadsInsideApp, InitApp, listVars, wsVars, startVars, appVars
  <2>4. HandlesHeld'
    BY <1>0, <1>7, AppConstants DEF IInv, TypeOK, One, Course, HandlesHeld,
       InitApp, listVars, wsVars, startVars, appVars
  <2>5. Ready'
    BY <1>0, <1>7, AppConstants DEF IInv, TypeOK, Course, Ready, InitApp,
       listVars, wsVars, startVars, appVars
  <2>6. Course'
    BY <1>0, <1>7, AppConstants DEF IInv, TypeOK, Ready, ServerInsideApp,
       Course, InitApp, listVars, wsVars, startVars, appVars
  <2> QED BY <2>1, <2>2, <2>3, <2>4, <2>5, <2>6 DEF IInv
<1>8. CASE ServeApp
  BY <1>0, <1>8, AppConstants DEF IInv, TypeOK, ServerInsideApp,
     ThreadsInsideApp, HandlesHeld, One, Ready, Course, ServeApp, listVars,
     wsVars, startVars, appVars
<1>9. CASE List
  BY <1>0, <1>9, AppConstants DEF IInv, TypeOK, ServerInsideApp,
     ThreadsInsideApp, HandlesHeld, One, Ready, Course, List, listVars,
     wsVars, startVars, appVars
<1>10. CASE \E a \in Apps : LookOpen(a)
  <2>1. PICK a \in Apps : LookOpen(a)
    BY <1>10
  <2>2. UNCHANGED <<want, app, threads, strays, server, calling, doomed, fpga, post>>
    BY <2>1 DEF LookOpen, appVars, wsVars
  <2>3. nginx \in {"list", "again"} /\ nginx' \in {"look", "list"} /\ looks' \subseteq looks
    BY <2>1 DEF LookOpen
  <2>4. \/ /\ temp' = [of |-> a, open |-> TRUE, again |-> nginx = "again"]
           /\ nginx' = "look" /\ Opens(a)
        \/ /\ temp' = [of |-> a, open |-> FALSE, again |-> nginx = "again"]
           /\ nginx' = "look" /\ UNCHANGED opened
        \/ temp' = NoTemp /\ nginx' = "list" /\ UNCHANGED opened
    BY <2>1 DEF LookOpen
  <2>5. HandlesHeld' /\ opened' \in [Apps -> 0..2]
    BY <1>0, <2>2, <2>3, <2>4, AppConstants DEF IInv, TypeOK, HandlesHeld, One, Opens, NoTemp
  <2>6. TypeOK'
    <3>1. temp' \in [of : Apps \cup {Nobody}, open : BOOLEAN, again : BOOLEAN]
      <4>1. PICK g \in BOOLEAN : g = (nginx = "again")
        OBVIOUS
      <4>2. \/ temp' = [of |-> a, open |-> TRUE, again |-> g]
            \/ temp' = [of |-> a, open |-> FALSE, again |-> g]
            \/ temp' = NoTemp
        BY <2>4, <4>1, Zenon
      <4>3. \A o \in BOOLEAN : [of |-> a, open |-> o, again |-> g] \in
              [of : Apps \cup {Nobody}, open : BOOLEAN, again : BOOLEAN]
        OBVIOUS
      <4> QED BY <4>2, <4>3, NothingTyped, Zenon
    <3>2. looks' \subseteq Apps
      BY <1>0, <2>3 DEF IInv, TypeOK
    <3> QED BY <1>0, <2>2, <2>3, <2>5, <3>1, <3>2 DEF IInv, TypeOK
  <2>7. \A b \in Apps : opened'[b] >= opened[b]
    BY <1>0, <2>4 DEF IInv, TypeOK, Opens
  <2>8. ServerInsideApp' /\ ThreadsInsideApp'
    BY <1>0, <2>2, <2>5, <2>7 DEF IInv, TypeOK, ServerInsideApp, ThreadsInsideApp
  <2>9. Ready' /\ Course'
    BY <1>0, <2>2, <2>3, <2>4 DEF IInv, TypeOK, Ready, Course
  <2> QED BY <2>5, <2>6, <2>8, <2>9 DEF IInv
<1>11. CASE LookClose
  <2>1. TypeOK'
    BY <1>0, <1>11, AppConstants, NothingTyped DEF IInv, TypeOK, HandlesHeld,
       One, Course, LookClose, StopServer, Closes, listVars, wsVars, startVars, appVars
  <2>2. ServerInsideApp'
    BY <1>11 DEF ServerInsideApp, LookClose, StopServer
  <2>3. ThreadsInsideApp'
    BY <1>0, <1>11, AppConstants DEF IInv, TypeOK, Course, HandlesHeld, One,
       ThreadsInsideApp, LookClose, StopServer, Closes, NoTemp, listVars,
       wsVars, startVars, appVars
  <2>4. HandlesHeld'
    BY <1>0, <1>11, AppConstants DEF IInv, TypeOK, One, Course, HandlesHeld,
       LookClose, StopServer, Closes, NoTemp, listVars, wsVars, startVars, appVars
  <2>5. Ready'
    BY <1>0, <1>11, AppConstants DEF IInv, TypeOK, Course, Ready, LookClose,
       StopServer, Closes, NoTemp, listVars, wsVars, startVars, appVars
  <2>6. Course'
    BY <1>0, <1>11, AppConstants DEF IInv, TypeOK, Ready, ServerInsideApp,
       Course, LookClose, StopServer, Closes, NoTemp, listVars, wsVars,
       startVars, appVars
  <2> QED BY <2>1, <2>2, <2>3, <2>4, <2>5, <2>6 DEF IInv
<1>12. CASE ListDone
  BY <1>0, <1>12, AppConstants DEF IInv, TypeOK, ServerInsideApp,
     ThreadsInsideApp, HandlesHeld, One, Ready, Course, ListDone, listVars,
     wsVars, startVars, appVars
<1>13. CASE PostHead
  BY <1>0, <1>13, AppConstants DEF IInv, TypeOK, ServerInsideApp,
     ThreadsInsideApp, HandlesHeld, One, Ready, Course, PostHead, listVars,
     wsVars, startVars, appVars
<1>14. CASE PostBody
  BY <1>0, <1>14, AppConstants DEF IInv, TypeOK, ServerInsideApp,
     ThreadsInsideApp, HandlesHeld, One, Ready, Course, PostBody, listVars,
     wsVars, startVars, appVars
<1>15. CASE PostAborted
  <2>1. TypeOK'
    BY <1>0, <1>15 DEF IInv, TypeOK, ServerInsideApp, PostAborted, listVars,
       wsVars, startVars, appVars
  <2>2. ServerInsideApp'
    BY <1>0, <1>15, AppConstants DEF IInv, TypeOK, Course, ServerInsideApp,
       PostAborted, listVars, wsVars, startVars, appVars
  <2>3. ThreadsInsideApp'
    BY <1>0, <1>15, AppConstants DEF IInv, TypeOK, Course, HandlesHeld, One,
       ThreadsInsideApp, PostAborted, listVars, wsVars, startVars, appVars
  <2>4. HandlesHeld'
    BY <1>0, <1>15, AppConstants DEF IInv, TypeOK, One, Course, HandlesHeld,
       PostAborted, listVars, wsVars, startVars, appVars
  <2>5. Ready'
    BY <1>0, <1>15, AppConstants DEF IInv, TypeOK, Course, Ready, PostAborted,
       listVars, wsVars, startVars, appVars
  <2>6. Course'
    BY <1>0, <1>15, AppConstants DEF IInv, TypeOK, Ready, ServerInsideApp,
       Course, PostAborted, listVars, wsVars, startVars, appVars
  <2> QED BY <2>1, <2>2, <2>3, <2>4, <2>5, <2>6 DEF IInv
<1>16. CASE WsCall
  BY <1>0, <1>16, AppConstants DEF IInv, TypeOK, ServerInsideApp,
     ThreadsInsideApp, HandlesHeld, One, Ready, Course, WsCall, listVars,
     wsVars, startVars, appVars
<1>17. CASE WsReturn
  <2>1. TypeOK'
    <3>1. UNCHANGED <<startVars, listVars, opened, appVars, server, doomed, fpga, post>>
      BY <1>17 DEF WsReturn
    <3>2. calling' \in BOOLEAN
      BY <1>17 DEF WsReturn
    <3> QED BY <1>0, <3>1, <3>2 DEF IInv, TypeOK, startVars, appVars, listVars
  <2>2. ServerInsideApp'
    BY <1>0, <1>17, AppConstants DEF IInv, TypeOK, Course, ServerInsideApp,
       WsReturn, listVars, wsVars, startVars, appVars
  <2>3. ThreadsInsideApp'
    BY <1>0, <1>17, AppConstants DEF IInv, TypeOK, Course, HandlesHeld, One,
       ThreadsInsideApp, WsReturn, listVars, wsVars, startVars, appVars
  <2>4. HandlesHeld'
    BY <1>0, <1>17, AppConstants DEF IInv, TypeOK, One, Course, HandlesHeld,
       WsReturn, listVars, wsVars, startVars, appVars
  <2>5. Ready'
    BY <1>0, <1>17, AppConstants DEF IInv, TypeOK, Course, Ready, WsReturn,
       listVars, wsVars, startVars, appVars
  <2>6. Course'
    BY <1>0, <1>17, AppConstants DEF IInv, TypeOK, Ready, ServerInsideApp,
       Course, WsReturn, listVars, wsVars, startVars, appVars
  <2> QED BY <2>1, <2>2, <2>3, <2>4, <2>5, <2>6 DEF IInv
<1>18. CASE TimerExit \/ ClientCloses \/ BodyCrash \/ StrayCrash
  <2>1. TypeOK'
    <3>1. Exits
      BY <1>18 DEF TimerExit, ClientCloses, BodyCrash, StrayCrash
    <3>2. app' = NoApp /\ temp' = NoTemp
      BY <3>1 DEF Exits
    <3>3. /\ app' \in [handle : Apps \cup {Nobody}, id : Apps \cup {Nobody},
                       initialized : BOOLEAN]
          /\ temp' \in [of : Apps \cup {Nobody}, open : BOOLEAN, again : BOOLEAN]
      BY <3>2, NothingTyped
    <3>4. opened' \in [Apps -> 0..2]
      BY <3>1 DEF Exits
    <3>5. fpga' \in ImageApps \cup {Boot, Broken}
      BY <1>0, <3>1 DEF Exits, IInv, TypeOK
    <3> QED BY <3>1, <3>3, <3>4, <3>5 DEF Exits, TypeOK
  <2>2. ServerInsideApp'
    BY <1>0, <1>18, AppConstants DEF IInv, TypeOK, Course, ServerInsideApp,
       TimerExit, ClientCloses, BodyCrash, StrayCrash, Exits, NoApp, NoTemp, Boot, Broken,
       listVars, wsVars, startVars, appVars
  <2>3. ThreadsInsideApp'
    BY <1>0, <1>18, AppConstants DEF IInv, TypeOK, Course, HandlesHeld, One,
       ThreadsInsideApp, TimerExit, ClientCloses, BodyCrash, StrayCrash, Exits, NoApp,
       NoTemp, Boot, Broken, listVars, wsVars, startVars, appVars
  <2>4. HandlesHeld'
    BY <1>0, <1>18, AppConstants DEF IInv, TypeOK, One, Course, HandlesHeld,
       TimerExit, ClientCloses, BodyCrash, StrayCrash, Exits, NoApp, NoTemp, Boot, Broken,
       listVars, wsVars, startVars, appVars
  <2>5. Ready'
    BY <1>18 DEF Ready, TimerExit, ClientCloses, BodyCrash, StrayCrash, Exits, NoApp
  <2>6. Course'
    BY <1>0, <1>18, AppConstants DEF IInv, TypeOK, Ready, ServerInsideApp,
       Course, TimerExit, ClientCloses, BodyCrash, StrayCrash, Exits, NoApp, NoTemp, Boot,
       Broken, listVars, wsVars, startVars, appVars
  <2> QED BY <2>1, <2>2, <2>3, <2>4, <2>5, <2>6 DEF IInv
<1>19. CASE UNCHANGED vars
  BY <1>0, <1>19 DEF IInv, TypeOK, ServerInsideApp, ThreadsInsideApp,
     HandlesHeld, One, Ready, Course, vars, startVars, appVars, listVars, wsVars
<1> QED
  BY <1>1, <1>2, <1>3, <1>4, <1>5, <1>6, <1>7, <1>8, <1>9, <1>10, <1>11,
     <1>12, <1>13, <1>14, <1>15, <1>16, <1>17, <1>18, <1>19 DEF Next

----------------------------------------------------------------------------
(* The invariant holds in every state of every behaviour. *)
THEOREM InvariantHolds == Spec => []IInv
<1>1. IInv /\ [Next]_vars => IInv'
  BY StepHolds
<1> QED BY <1>1, InitHolds, PTL DEF Spec

(* Every variable keeps its type; in particular no library is open more than
   twice. *)
THEOREM TypesHold == Spec => []TypeOK
<1>1. IInv => TypeOK
  BY DEF IInv
<1> QED BY <1>1, InvariantHolds, PTL

(* The web socket server calls nothing but the application that is loaded
   and initialised. *)
THEOREM ServerNeverOutlives == Spec => []ServerInsideApp
<1>1. IInv => ServerInsideApp
  BY DEF IInv
<1> QED BY <1>1, InvariantHolds, PTL

(* No thread of an application whose rp_app_init succeeded outlives its
   library in rp_module_ctx.app, also beside the threads that a failed one
   has left (of which nothing is said: they do outlive it). *)
THEOREM ThreadsNeverOutlive == Spec => []ThreadsInsideApp
<1>1. IInv => ThreadsInsideApp
  BY DEF IInv
<1> QED BY <1>1, InvariantHolds, PTL

(* No handle of dlopen is lost or closed twice. *)
THEOREM NoHandleLost == Spec => []HandlesHeld
<1>1. IInv => HandlesHeld
  BY DEF IInv
<1> QED BY <1>1, InvariantHolds, PTL

(* Between two requests, an application that is loaded is ready. *)
THEOREM LoadedMeansReady == Spec => []LoadedIsReady
<1>1. IInv => LoadedIsReady
  BY DEF IInv, Ready, LoadedIsReady
<1> QED BY <1>1, InvariantHolds, PTL

(* The image of the FPGA is replaced under no application that was started,
   and no web socket server. *)
THEOREM ImageReplacedUnderNoApp == Spec => ImageUnderNoApp
<1>1. ASSUME IInv, [Next]_vars, fpga' # fpga
      PROVE  threads = {} /\ server = Nobody
  <2>1. nginx = "image"
    BY <1>1 DEF Next, Stop, Start, UnloadServer, UnloadLibrary, LoadImage,
       LoadLibrary, InitApp, ServeApp, List, LookOpen, LookClose, ListDone,
       PostHead, PostBody, PostAborted, WsCall, WsReturn, TimerExit,
       ClientCloses, BodyCrash, StrayCrash, Exits, vars
  <2> QED BY <1>1, <2>1 DEF IInv, Course
<1>2. IInv /\ [Next]_vars => [fpga' # fpga => threads = {} /\ server = Nobody]_fpga
  BY <1>1
<1> QED BY <1>2, InvariantHolds, PTL DEF Spec, ImageUnderNoApp
============================================================================
