------------------------------- MODULE Server -------------------------------
(***************************************************************************)
(* The server object of src/server/server.c and the transports it manages: *)
(* one listener, the clients its callback accepts (passive) and the ones   *)
(* the application opens (active).  The main thread runs server_loop and   *)
(* then destroy_server; another thread calls server_stop (or server_pause) *)
(* meanwhile.  A transport's own life is abstracted to attached, detached, *)
(* being released, gone (module Xprt has the detail); what is kept is all  *)
(* that happens under serv->lock, the reference count of the server, the   *)
(* list, the limit, and the listener's cool-down.                          *)
(***************************************************************************)
EXTENDS Integers, Sequences, FiniteSets, ListOps

CONSTANTS Passive, Active,   \* transports of type TCPTEMP and TCPCLNT
          Listener,
          MaxXprts,
          MaxAccepts,        \* CONFIG_MAX_ACCEPTS
          DescriptorsRunOut  \* whether accept() may fail with EMFILE

VARIABLES
  serv,      \* [stats, refs, nr, freed]
  xprt_list,
  xst,       \* xst[x] of {"none", "attached", "detached", "released", "resume", "put", "gone"}
  lstn,      \* [cool, event, closed, users]: users are the clients' lstn_xprt references
  accept,    \* the event thread inside xprt_tcpserv_recv: [pc, client, nr]
  opener,    \* the application opening an active transport: [pc, xprt]
  loop,      \* the main thread's program counter
  stopper,   \* [pc, all]: all is __server_stop's destroy_xprts
  victim     \* victim[t]: what t is destroying in stop_xprts

svrvars == <<serv, xprt_list, xst, lstn, accept, opener, loop, stopper, victim>>

None == "none"
Xprts == Passive \cup Active \cup {Listener}
__server_has_stopped == serv.stats \in {"STOPPING", "STOPPED", "DESTROYED"}
__server_has_fulled == serv.nr >= MaxXprts
Live(x) == xst[x] \in {"attached", "detached", "released", "resume", "put"}

ServerInit ==
  /\ serv = [stats |-> "INITING", refs |-> 2, nr |-> 1, freed |-> FALSE]
  /\ xprt_list = <<Listener>>
  /\ xst = [x \in Xprts |-> IF x = Listener THEN "attached" ELSE "none"]
  /\ lstn = [cool |-> FALSE, event |-> TRUE, closed |-> FALSE, users |-> 0]
  /\ accept = [pc |-> "none", client |-> None, nr |-> 0]
  /\ opener = [pc |-> "idle", xprt |-> None]
  /\ loop = "start"
  /\ stopper = [pc |-> "idle", all |-> FALSE]
  /\ victim = [t \in {"main", "stop"} |-> None]

(* A transport attached without a reference to its server. *)
AttachNoReference(x) == /\ serv' = [serv EXCEPT !.nr = @ + 1]
                        /\ xprt_list' = list_add_tail(xprt_list, x)
                        /\ xst' = [xst EXCEPT ![x] = "attached"]

(* attach_xprt under the lock, once server_get succeeded *)
Attach(x) == /\ serv' = [serv EXCEPT !.refs = @ + 1, !.nr = @ + 1]
             /\ xprt_list' = list_add_tail(xprt_list, x)
             /\ xst' = [xst EXCEPT ![x] = "attached"]
(* detach_xprt *)
Detach(x) == /\ serv' = [serv EXCEPT !.nr = @ - 1]
             /\ xprt_list' = list_del(xprt_list, x)
             /\ xst' = [xst EXCEPT ![x] = "detached"]
-----------------------------------------------------------------------------
(* the listener is readable: xprt_tcpserv_recv *)
ListenerReadable ==
  /\ accept.pc = "none" /\ lstn.event
  /\ \E c \in Passive : xst[c] = "none"
  /\ accept' = [pc |-> "accept", client |-> None, nr |-> 0]
  /\ UNCHANGED <<serv, xprt_list, xst, lstn, opener, loop, stopper, victim>>

(* xprt_tcpserv_accept up to attach_xprt: a connection, no descriptor, none
   left, or an error for which the listener is shut down *)
Accept ==
  /\ accept.pc = "accept"
  /\ \/ /\ accept.nr < MaxAccepts /\ ~lstn.closed
        /\ \E c \in Passive :
             /\ xst[c] = "none"
             /\ accept' = [accept EXCEPT !.pc = "attach", !.client = c]
        /\ lstn' = [lstn EXCEPT !.users = @ + 1]
     \/ /\ DescriptorsRunOut /\ accept.nr < MaxAccepts /\ ~lstn.closed
        /\ accept' = [accept EXCEPT !.pc = "cool"]
        /\ UNCHANGED lstn
     \/ /\ \E pc \in {"none", "shut"} : accept' = [accept EXCEPT !.pc = pc]
        /\ UNCHANGED lstn
  /\ UNCHANGED <<serv, xprt_list, xst, opener, loop, stopper, victim>>

AcceptAttach ==
  /\ accept.pc = "attach"
  /\ IF __server_has_fulled
       THEN /\ lstn' = [lstn EXCEPT !.users = @ - 1]
            /\ accept' = [accept EXCEPT !.pc = "cool", !.client = None]
            /\ UNCHANGED <<serv, xprt_list, xst>>
       ELSE /\ Attach(accept.client)
            /\ accept' = [pc |-> "accept", client |-> None, nr |-> accept.nr + 1]
            /\ UNCHANGED lstn
  /\ UNCHANGED <<opener, loop, stopper, victim>>

(* xprt_tcpserv_cooldown *)
CoolDown ==
  /\ accept.pc = "cool"
  /\ lstn' = IF lstn.cool THEN lstn ELSE [lstn EXCEPT !.cool = TRUE, !.event = FALSE]
  /\ accept' = [accept EXCEPT !.pc = "none"]
  /\ UNCHANGED <<serv, xprt_list, xst, opener, loop, stopper, victim>>

(* shutdown_xprt of the listener in its callback: closed, then detached *)
ListenerShut ==
  \/ /\ accept.pc = "shut"
     /\ lstn' = [lstn EXCEPT !.closed = TRUE, !.event = FALSE]
     /\ accept' = [accept EXCEPT !.pc = "detach"]
     /\ UNCHANGED <<serv, xprt_list, xst, opener, loop, stopper, victim>>
  \/ /\ accept.pc = "detach"
     /\ IF xst[Listener] = "attached" THEN Detach(Listener) ELSE UNCHANGED <<serv, xprt_list, xst>>
     /\ accept' = [accept EXCEPT !.pc = "none"]
     /\ UNCHANGED <<lstn, opener, loop, stopper, victim>>

(* create_xprt of an active transport: the unlocked test, then attach_xprt *)
OpenCheck ==
  /\ opener.pc = "idle" /\ ~__server_has_stopped
  /\ \E x \in Active : xst[x] = "none" /\ opener' = [pc |-> "attach", xprt |-> x]
  /\ UNCHANGED <<serv, xprt_list, xst, lstn, accept, loop, stopper, victim>>

OpenAttach ==
  /\ opener.pc = "attach"
  /\ IF __server_has_fulled THEN UNCHANGED <<serv, xprt_list, xst>> ELSE Attach(opener.xprt)
  /\ opener' = [pc |-> "idle", xprt |-> None]
  /\ UNCHANGED <<lstn, accept, loop, stopper, victim>>
-----------------------------------------------------------------------------
(* a transport closes in its own event callback *)
CloseSelf(x) ==
  /\ xst[x] = "attached" /\ x # Listener
  /\ Detach(x)
  /\ UNCHANGED <<lstn, accept, opener, loop, stopper, victim>>

(* the last xprt_put: xprt_dict_free looks at the listener without the lock *)
Release(x) ==
  /\ xst[x] = "detached" /\ x \notin {victim["main"], victim["stop"]}
  /\ x = Listener => lstn.closed /\ lstn.users = 0 /\ accept.pc = "none"
  /\ xst' = [xst EXCEPT ![x] = IF x \in Passive /\ lstn.cool THEN "resume" ELSE "put"]
  /\ UNCHANGED <<serv, xprt_list, lstn, accept, opener, loop, stopper, victim>>

ResumeListener(x) ==
  /\ xst[x] = "resume"
  /\ lstn' = IF ~lstn.closed /\ xst[Listener] = "attached" /\ lstn.cool
               THEN [lstn EXCEPT !.cool = FALSE, !.event = TRUE] ELSE lstn
  /\ xst' = [xst EXCEPT ![x] = "put"]
  /\ UNCHANGED <<serv, xprt_list, accept, opener, loop, stopper, victim>>

(* A released client keeps its server. *)
ServerPutForgotten(x) ==
  /\ xst[x] = "put"
  /\ lstn' = IF x \in Passive THEN [lstn EXCEPT !.users = @ - 1] ELSE lstn
  /\ xst' = [xst EXCEPT ![x] = "gone"]
  /\ UNCHANGED <<serv, xprt_list, accept, opener, loop, stopper, victim>>

(* xprt_put(lstn), the destructor, server_put *)
ServerPut(x) ==
  /\ xst[x] = "put"
  /\ serv' = [serv EXCEPT !.refs = @ - 1]
  /\ lstn' = IF x \in Passive THEN [lstn EXCEPT !.users = @ - 1] ELSE lstn
  /\ xst' = [xst EXCEPT ![x] = "gone"]
  /\ UNCHANGED <<xprt_list, accept, opener, loop, stopper, victim>>
-----------------------------------------------------------------------------
(* stop_xprts(serv, &serv->xprt_list) by t: take the first, destroy it *)
TakeFirst(t) ==
  /\ victim[t] = None /\ xprt_list # <<>>
  /\ victim' = [victim EXCEPT ![t] = Head(xprt_list)]

DestroyXprt(t) ==
  /\ victim[t] # None
  /\ \/ /\ xst[victim[t]] = "attached" /\ Detach(victim[t])
        /\ UNCHANGED <<victim, lstn>>
     \/ /\ xst[victim[t]] = "detached" /\ victim[t] = Listener /\ lstn.event
        /\ lstn' = [lstn EXCEPT !.event = FALSE]           \* uev_stream_delete_sync
        /\ UNCHANGED <<victim, serv, xprt_list, xst>>
     \/ /\ xst[victim[t]] = "detached"
        /\ victim[t] = Listener => ~lstn.event /\ accept.pc = "none"
        /\ lstn' = [lstn EXCEPT !.closed = @ \/ victim[t] = Listener]
        /\ victim' = [victim EXCEPT ![t] = None]
        /\ UNCHANGED <<serv, xprt_list, xst>>
  /\ UNCHANGED <<accept, opener, loop, stopper>>

(* __server_stop: wait while INITING, stop the transports, end the loop *)
StopBegin ==
  /\ stopper.pc = "idle" /\ serv.stats # "INITING"
  /\ \E all \in BOOLEAN :
       stopper' = [pc |-> IF __server_has_stopped THEN "done"
                          ELSE IF all THEN "xprts" ELSE "stop", all |-> all]
  /\ UNCHANGED <<serv, xprt_list, xst, lstn, accept, opener, loop, victim>>

StopXprts ==
  /\ stopper.pc = "xprts"
  /\ \/ TakeFirst("stop") /\ UNCHANGED stopper
     \/ /\ victim["stop"] = None /\ xprt_list = <<>>
        /\ stopper' = [stopper EXCEPT !.pc = "stop"] /\ UNCHANGED victim
  /\ UNCHANGED <<serv, xprt_list, xst, lstn, accept, opener, loop>>

StopEnd ==
  /\ stopper.pc = "stop"
  /\ serv' = [serv EXCEPT !.stats = IF @ = "RUNNING" THEN "STOPPING" ELSE @]
  /\ stopper' = [stopper EXCEPT !.pc = "done"]
  /\ UNCHANGED <<xprt_list, xst, lstn, accept, opener, loop, victim>>

(* server_loop *)
LoopBegin ==
  /\ loop = "start"
  /\ serv' = [serv EXCEPT !.stats = IF __server_has_stopped THEN "STOPPED" ELSE "RUNNING"]
  /\ loop' = IF __server_has_stopped THEN "destroy" ELSE "looping"
  /\ UNCHANGED <<xprt_list, xst, lstn, accept, opener, stopper, victim>>

LoopEnd ==
  /\ loop = "looping" /\ __server_has_stopped
  /\ serv' = [serv EXCEPT !.stats = IF @ = "STOPPING" THEN "STOPPED" ELSE @]
  /\ loop' = "destroy"
  /\ UNCHANGED <<xprt_list, xst, lstn, accept, opener, stopper, victim>>

(* destroy_server, by a caller that opens no transport meanwhile *)
DestroyBegin ==
  /\ loop = "destroy" /\ opener.pc = "idle"
  /\ serv' = [serv EXCEPT !.stats = "DESTROYED"]
  /\ loop' = "waitusers"
  /\ UNCHANGED <<xprt_list, xst, lstn, accept, opener, stopper, victim>>

(* wait_users: woken or after a second *)
WaitUsers ==
  /\ loop = "waitusers"
  /\ loop' = IF serv.refs > 1 THEN "xprts" ELSE "free"
  /\ UNCHANGED <<serv, xprt_list, xst, lstn, accept, opener, stopper, victim>>

DestroyXprts ==
  /\ loop = "xprts"
  /\ \/ TakeFirst("main") /\ UNCHANGED loop
     \/ /\ victim["main"] = None /\ xprt_list = <<>>
        /\ loop' = "waitusers" /\ UNCHANGED victim
  /\ UNCHANGED <<serv, xprt_list, xst, lstn, accept, opener, stopper>>

FreeServer ==
  /\ loop = "free"
  /\ serv' = [serv EXCEPT !.freed = TRUE]
  /\ loop' = "done"
  /\ UNCHANGED <<xprt_list, xst, lstn, accept, opener, stopper, victim>>

ServerGone == loop = "done" /\ UNCHANGED svrvars

(* the steps of each thread, apart from what a peer or the application may choose *)
AcceptSteps == Accept \/ AcceptAttach \/ CoolDown \/ ListenerShut
StopSteps == StopBegin \/ StopXprts \/ StopEnd \/ DestroyXprt("stop")
MainSteps == LoopBegin \/ LoopEnd \/ DestroyBegin \/ WaitUsers \/ DestroyXprts \/ FreeServer
             \/ DestroyXprt("main")
ReleaseSteps(x) == Release(x) \/ ResumeListener(x) \/ ServerPut(x)

ServerNext ==
  \/ ListenerReadable \/ AcceptSteps \/ OpenCheck \/ OpenAttach
  \/ \E x \in Xprts : CloseSelf(x) \/ ReleaseSteps(x)
  \/ StopSteps \/ MainSteps \/ ServerGone

ServerSpec == ServerInit /\ [][ServerNext]_svrvars
-----------------------------------------------------------------------------
(***************************************************************************)
(* The list, its length and its limit agree, each transport on it once;    *)
(* the server's references are its owner's and the unreleased transports'; *)
(* and destroy_server's BUG_ONs hold: when it frees the server nothing is  *)
(* attached, nobody else refers to it and no callback of its is running.   *)
(***************************************************************************)
ServerAccounts ==
  /\ serv.nr = Len(xprt_list) /\ serv.nr <= MaxXprts
  /\ Distinct(xprt_list)
  /\ \A x \in Xprts : Occurs(xprt_list, x) <=> xst[x] = "attached"
  /\ serv.refs = 1 + Cardinality({x \in Xprts : Live(x)})
  /\ loop \in {"free", "done"} =>
       xprt_list = <<>> /\ serv.refs = 1 /\ accept.pc = "none" /\ victim["stop"] = None

(***************************************************************************)
(* A listener paused "because it accepted too many passive connections"    *)
(* (xprt.h) has a passive connection whose release will resume it.         *)
(***************************************************************************)
PausedListenerResumes ==
  lstn.cool /\ ~lstn.closed /\ xst[Listener] = "attached" =>
    \E c \in Passive : xst[c] \in {"attached", "detached", "resume"}
=============================================================================
