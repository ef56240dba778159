----------------------------- MODULE BazaarApp -----------------------------
(***************************************************************************)
(* How the web server runs the applications (Bazaar/nginx/ngx_ext_modules):*)
(* the commands start, stop and apps (rp_bazaar_cmd.c, rp_bazaar_app.c),   *)
(* the POST of parameters (rp_data_cmd.c) and the web socket server        *)
(* (ws_server.cpp, rp_websocket_server.cpp).                               *)
(*                                                                         *)
(* An application is a shared library.  There is one worker process of     *)
(* nginx (patches/nginx.conf), and in it the thread of nginx, which runs   *)
(* one request after the other, the thread of the web socket server, which *)
(* calls functions of the application, the threads that the application    *)
(* itself has started in rp_app_init, and the threads that                 *)
(* rp_websocket_server::stop detaches to end the process a second later.   *)
(* When the process ends the master of nginx starts another, with nothing  *)
(* loaded; only the FPGA keeps its image.                                  *)
(***************************************************************************)
EXTENDS Naturals

CONSTANTS Apps,          \* the installed applications
          WsApps,        \* those with all the functions for web sockets
          ImageApps,     \* those whose fpga.conf names an image
          Nobody         \* no application

ASSUME AppConstants ==
  /\ WsApps \subseteq Apps /\ ImageApps \subseteq Apps
  /\ Nobody \notin Apps

VARIABLES nginx,         \* the step the thread of nginx is at
          want,          \* the application that start was asked for
          app,           \* rp_module_ctx.app
          looks,         \* the applications that apps still looks at
          temp,          \* what apps has opened to look at
          opened,        \* handles of each library that dlopen gave out
          threads,       \* applications whose rp_app_init started threads
          strays,        \* those whose failed rp_app_init left a thread
          server,        \* whose functions the web socket server calls
          calling,       \* whether it is in one of them
          doomed,        \* a thread waits to end the process
          fpga,          \* the image in the FPGA
          post           \* a POST waits for its body

startVars == <<nginx, want, app>>
listVars  == <<looks, temp>>
appVars   == <<threads, strays>>
wsVars    == <<server, calling, doomed>>
vars == <<startVars, listVars, opened, appVars, wsVars, fpga, post>>

NoApp  == [handle |-> Nobody, id |-> Nobody, initialized |-> FALSE]
NoTemp == [of |-> Nobody, open |-> FALSE, again |-> FALSE]
Boot   == "boot"         \* the image the FPGA starts with
Broken == "broken"       \* what a failed write leaves in it

Init ==
  /\ nginx = "idle" /\ want = Nobody /\ app = NoApp
  /\ looks = {} /\ temp = NoTemp
  /\ opened = [a \in Apps |-> 0] /\ threads = {} /\ strays = {}
  /\ server = Nobody /\ calling = FALSE /\ doomed = FALSE
  /\ fpga = Boot
  /\ post = FALSE

----------------------------------------------------------------------------
(* stop_ws_server: stop joins the thread of the server, so that no call of
   it is on its way any more, and leaves a thread behind that ends the
   process. *)
StopServer ==
  /\ ~calling
  /\ doomed' = (doomed \/ server # Nobody)
  /\ server' = Nobody
  /\ UNCHANGED calling

Opens(a)  == opened' = [opened EXCEPT ![a] = @ + 1]
Closes(a) == opened' = [opened EXCEPT ![a] = @ - 1]

(* mutant: exit_func is called and the library closed while the server runs *)
UnloadServerRuns ==
  /\ nginx = "unload"
  /\ nginx' = "exit"
  /\ UNCHANGED <<want, app, listVars, opened, appVars, wsVars, fpga, post>>

(* rp_bazaar_app_unload_module for the application that runs: the server
   is stopped before exit_func is called and the library closed. *)
UnloadServer ==
  /\ nginx = "unload" /\ StopServer
  /\ nginx' = "exit"
  /\ UNCHANGED <<want, app, listVars, opened, appVars, fpga, post>>

(* An unload is part of stop, of a start that failed, or of a start. *)
AfterUnload == IF want # Nobody THEN "image" ELSE "idle"

(* mutant: exit_func is not called *)
UnloadNoExit ==
  /\ nginx = "exit"
  /\ IF app.handle # Nobody
     THEN /\ Closes(app.handle) /\ app' = NoApp /\ UNCHANGED threads
     ELSE UNCHANGED <<opened, threads, app>>
  /\ nginx' = AfterUnload
  /\ UNCHANGED <<want, listVars, strays, wsVars, fpga, post>>

UnloadLibrary ==
  /\ nginx = "exit"
  /\ IF app.handle # Nobody
     THEN /\ threads' = IF app.initialized THEN threads \ {app.handle} ELSE threads
          /\ Closes(app.handle) /\ app' = NoApp
     ELSE UNCHANGED <<opened, threads, app>>
  /\ nginx' = AfterUnload
  /\ UNCHANGED <<want, listVars, strays, wsVars, fpga, post>>

----------------------------------------------------------------------------
(* rp_bazaar_stop: nothing to do when no application is loaded. *)
Stop ==
  /\ nginx = "idle" /\ app.handle # Nobody
  /\ nginx' = "unload" /\ want' = Nobody
  /\ UNCHANGED <<app, listVars, opened, appVars, wsVars, fpga, post>>

(* mutant: start does not unload the application that runs *)
StartOver(a) ==
  /\ nginx = "idle"
  /\ want' = a
  /\ nginx' = "image"
  /\ UNCHANGED <<app, listVars, opened, appVars, wsVars, fpga, post>>

(* rp_bazaar_start, step by step; want is Nobody again once it has failed. *)
Start(a) ==
  /\ nginx = "idle"
  /\ want' = a
  /\ nginx' = IF app.handle # Nobody THEN "unload" ELSE "image"
  /\ UNCHANGED <<app, listVars, opened, appVars, wsVars, fpga, post>>

(* mutant: an image that cannot be written is not an error *)
LoadImageAnyway ==
  /\ nginx = "image"
  /\ app' = [app EXCEPT !.id = want]
  /\ \/ want \in ImageApps /\ fpga' \in {want, Broken}
     \/ want \notin ImageApps /\ UNCHANGED fpga
  /\ nginx' = "load"
  /\ UNCHANGED <<want, listVars, opened, appVars, wsVars, post>>

(* The FPGA gets the image that fpga.conf names; without one, or with an
   empty fpga.conf, the application runs on the image that is there. *)
LoadImage ==
  /\ nginx = "image"
  /\ app' = [app EXCEPT !.id = want]
  /\ \/ want \in ImageApps /\ fpga' = want /\ nginx' = "load" /\ UNCHANGED want
     \/ want \in ImageApps /\ fpga' \in {fpga, Broken}
        /\ nginx' = "idle" /\ want' = Nobody
     \/ want \notin ImageApps /\ nginx' = "load" /\ UNCHANGED <<fpga, want>>
  /\ UNCHANGED <<listVars, opened, appVars, wsVars, post>>

(* mutant: a library without its functions is left open *)
LoadLibraryKept ==
  /\ nginx = "load"
  /\ \/ /\ Opens(want) /\ app' = [app EXCEPT !.handle = want]
        /\ nginx' = "init" /\ UNCHANGED want
     \/ /\ Opens(want) /\ app' = [app EXCEPT !.handle = want]
        /\ nginx' = "idle" /\ want' = Nobody
  /\ UNCHANGED <<listVars, appVars, wsVars, fpga, post>>

(* rp_bazaar_app_load_module fails because there is no library, or later,
   with the library open, because it lacks a function. *)
LoadLibrary ==
  /\ nginx = "load"
  /\ \/ /\ Opens(want) /\ app' = [app EXCEPT !.handle = want]
        /\ \/ nginx' = "init" /\ UNCHANGED want
           \/ nginx' = "unload" /\ want' = Nobody
     \/ /\ nginx' = "unload" /\ want' = Nobody
        /\ UNCHANGED <<opened, app>>
  /\ UNCHANGED <<listVars, appVars, wsVars, fpga, post>>

(* An application that fails halfway may have a thread by then: the
   oscilloscope starts its worker before the generator, whose failure ends
   its init.  Nobody remembers such a thread: without initialized, exit_func
   is not called, and the library is closed under it. *)
InitApp ==
  /\ nginx = "init"
  /\ \/ /\ threads' = threads \cup {want}
        /\ app' = [app EXCEPT !.initialized = TRUE]
        /\ nginx' = "serve" /\ UNCHANGED <<want, strays>>
     \/ /\ strays' \in {strays, strays \cup {want}}
        /\ nginx' = "unload" /\ want' = Nobody /\ UNCHANGED <<app, threads>>
  /\ UNCHANGED <<listVars, opened, wsVars, fpga, post>>

(* start_ws_server, which would stop an old server first; the answer is OK. *)
ServeApp ==
  /\ nginx = "serve"
  /\ IF want \in WsApps
     THEN /\ ~calling /\ doomed' = (doomed \/ server # Nobody)
          /\ server' = want /\ UNCHANGED calling
     ELSE UNCHANGED wsVars
  /\ nginx' = "idle" /\ want' = Nobody
  /\ UNCHANGED <<app, listVars, opened, appVars, fpga, post>>

----------------------------------------------------------------------------
(* apps, and the entry page: every application is opened and closed twice,
   by is_controller_ok and by is_registered, with a structure of its own
   but with the same rp_bazaar_app_unload_module, and so the same server.
   A file that is missing, or not executable, is not looked at. *)
List ==
  /\ nginx = "idle"
  /\ nginx' = "list" /\ looks' = Apps
  /\ UNCHANGED <<want, app, temp, opened, appVars, wsVars, fpga, post>>

LookOpen(a) ==
  /\ \/ nginx = "list" /\ a \in looks
     \/ nginx = "again" /\ a = temp.of
  /\ looks' = looks \ {a}
  /\ \/ \E ok \in BOOLEAN :
          /\ temp' = [of |-> a, open |-> ok, again |-> nginx = "again"]
          /\ IF ok THEN Opens(a) ELSE UNCHANGED opened
          /\ nginx' = "look"
     \/ temp' = NoTemp /\ nginx' = "list" /\ UNCHANGED opened
  /\ UNCHANGED <<want, app, appVars, wsVars, fpga, post>>

(* mutant: is_registered leaves the library open *)
LookCloseOnce ==
  /\ nginx = "look" /\ StopServer
  /\ IF temp.open /\ ~temp.again THEN Closes(temp.of) ELSE UNCHANGED opened
  /\ \/ temp.open /\ ~temp.again /\ nginx' = "again" /\ UNCHANGED temp
     \/ nginx' = "list" /\ temp' = NoTemp
  /\ UNCHANGED <<want, app, looks, appVars, fpga, post>>

LookClose ==
  /\ nginx = "look" /\ StopServer
  /\ IF temp.open THEN Closes(temp.of) ELSE UNCHANGED opened
  /\ \/ temp.open /\ ~temp.again /\ nginx' = "again" /\ UNCHANGED temp
     \/ nginx' = "list" /\ temp' = NoTemp
  /\ UNCHANGED <<want, app, looks, appVars, fpga, post>>

ListDone ==
  /\ nginx = "list" /\ looks = {}
  /\ nginx' = "idle"
  /\ UNCHANGED <<want, app, listVars, opened, appVars, wsVars, fpga, post>>

----------------------------------------------------------------------------
(* A POST of parameters: the handler looks whether an application is loaded;
   the body may come later, after other requests, and goes to set_params_func
   of the application of that time. *)
PostHead ==
  /\ nginx = "idle" /\ app.handle # Nobody /\ ~post
  /\ post' = TRUE
  /\ UNCHANGED <<startVars, listVars, opened, appVars, wsVars, fpga>>

(* The body arrives, or the client gives up. *)
PostBody ==
  /\ nginx = "idle" /\ post /\ app.handle # Nobody
  /\ post' = FALSE
  /\ UNCHANGED <<startVars, listVars, opened, appVars, wsVars, fpga>>

PostAborted ==
  /\ nginx = "idle" /\ post
  /\ post' = FALSE
  /\ UNCHANGED <<startVars, listVars, opened, appVars, wsVars, fpga>>

----------------------------------------------------------------------------
(* The thread of the web socket server: its timers and messages. *)
WsCall ==
  /\ server # Nobody /\ ~calling
  /\ calling' = TRUE
  /\ UNCHANGED <<startVars, listVars, opened, appVars, server, doomed, fpga,
                 post>>

WsReturn ==
  /\ calling
  /\ calling' = FALSE
  /\ UNCHANGED <<startVars, listVars, opened, appVars, server, doomed, fpga,
                 post>>

(* The process ends, at any point of the thread of nginx: by the thread that
   stop left behind, by the web socket server when its client goes away
   (on_close), because the body of a POST finds no set_params_func, or
   because a stray thread runs in a library that was closed.  An image that
   was being written is left broken. *)
Exits ==
  /\ nginx' = "idle" /\ want' = Nobody /\ app' = NoApp
  /\ looks' = {} /\ temp' = NoTemp
  /\ opened' = [a \in Apps |-> 0] /\ threads' = {} /\ strays' = {}
  /\ server' = Nobody /\ calling' = FALSE /\ doomed' = FALSE
  /\ post' = FALSE
  /\ \/ UNCHANGED fpga
     \/ nginx = "image" /\ want \in ImageApps /\ fpga' = Broken

TimerExit == doomed /\ Exits
ClientCloses == server # Nobody /\ ~calling /\ Exits
BodyCrash == nginx = "idle" /\ post /\ app.handle = Nobody /\ Exits
StrayCrash == (\E a \in strays : opened[a] = 0) /\ Exits

Next ==
  \/ Stop \/ (\E a \in Apps : Start(a)) \/ UnloadServer \/ UnloadLibrary
  \/ LoadImage \/ LoadLibrary \/ InitApp \/ ServeApp
  \/ List \/ (\E a \in Apps : LookOpen(a)) \/ LookClose \/ ListDone
  \/ PostHead \/ PostBody \/ PostAborted
  \/ WsCall \/ WsReturn \/ TimerExit \/ ClientCloses \/ BodyCrash
  \/ StrayCrash

Spec == Init /\ [][Next]_vars

----------------------------------------------------------------------------
(* Properties. *)

(* Every variable has a value of its type. *)
TypeOK ==
  /\ nginx \in {"idle", "unload", "exit", "image", "load", "init", "serve",
                "list", "look", "again"}
  /\ want \in Apps \cup {Nobody}
  /\ app \in [handle : Apps \cup {Nobody}, id : Apps \cup {Nobody},
              initialized : BOOLEAN]
  /\ looks \subseteq Apps
  /\ temp \in [of : Apps \cup {Nobody}, open : BOOLEAN, again : BOOLEAN]
  /\ opened \in [Apps -> 0..2]
  /\ threads \subseteq Apps /\ strays \subseteq Apps
  /\ server \in WsApps \cup {Nobody} /\ calling \in BOOLEAN /\ doomed \in BOOLEAN
  /\ fpga \in ImageApps \cup {Boot, Broken}
  /\ post \in BOOLEAN

(* No thread runs code of a library that may be unmapped: the web socket
   server, also in the middle of a call, belongs to the application that is
   loaded, initialised and not yet left by exit_func, whatever the
   thread of nginx does meanwhile, the listing of the libraries included
   (rp_bazaar_app_unload_module joins the server first). *)
ServerInsideApp ==
  /\ calling => server # Nobody
  /\ server # Nobody =>
       /\ server = app.handle /\ app.initialized
       /\ server \in threads /\ opened[server] > 0

(* The threads of an application whose rp_app_init succeeded live only while
   its library is open in rp_module_ctx.app: exit_func is called before the
   library is closed, so two of them never run at a time and none runs
   unmapped code.  A failed rp_app_init owes nothing of this. *)
ThreadsInsideApp ==
  \A a \in threads : a = app.handle /\ opened[a] > 0

One(b) == IF b THEN 1 ELSE 0

(* Every handle that dlopen gave out is held by rp_module_ctx.app or by the
   structure of the listing: none is lost on a path of an error, and the
   listing closes what it opened and not what runs. *)
HandlesHeld ==
  \A a \in Apps :
    opened[a] = One(app.handle = a) + One(nginx = "look" /\ temp.open /\ temp.of = a)

(* The handlers of data look at the handle and at nothing else: between two
   requests an application that is loaded is also initialised, has its id,
   and runs on the image that it asked for, after every failed start. *)
LoadedIsReady ==
  nginx = "idle" /\ app.handle # Nobody =>
    /\ app.initialized /\ app.id = app.handle
    /\ app.handle \in ImageApps => fpga = app.handle

(* The image is replaced only when no application that was started, and no
   server, runs on it. *)
ImageUnderNoApp ==
  [][fpga' # fpga => threads = {} /\ server = Nobody]_fpga

(* "Here we do not have application running anymore - load new FPGA"
   (rp_bazaar_cmd.c:462): no thread of any application either. *)
ImageUnderNobody ==
  [][fpga' # fpga => threads = {} /\ strays = {} /\ server = Nobody]_fpga
============================================================================
