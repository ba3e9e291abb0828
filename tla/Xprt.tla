-------------------------------- MODULE Xprt --------------------------------
(***************************************************************************)
(* One transport of src/server/xprt.c: its flag word, its reference count, *)
(* its place in the server's list and its stream event, under              *)
(*   - the event thread, in process_xprt_event;                            *)
(*   - the user, who holds a reference and may shut it down, destroy it or *)
(*     drop the reference;                                                 *)
(*   - the server, whose stop_xprts takes a reference and destroys it.     *)
(* Every compare-and-swap and every locked section is one step.  The event *)
(* layer is seen through its interface: a mask, deletion that does or does *)
(* not wait for a running callback.                                        *)
(***************************************************************************)
EXTENDS Integers

CONSTANTS Handshakes   \* do_handshake's possible results, of {"ok", "again", "fail"}

VARIABLES
  xflags,    \* of {"connecting", "opened", "closed", "shutrd", "shutwr", "refused",
             \*     "handshaked", "attached"}
  xrefs, listed,
  mask,      \* the registered events, of {"read", "write"}
  evpc, evmask,   \* the event thread and the events it was called for
  xpc,       \* xpc["user"], xpc["server"]
  cblog,     \* callbacks so far: opened, closed, late (any after closed)
  xfree      \* released: what xprt_dict_free found, {"no"} before

xvars == <<xflags, xrefs, listed, mask, evpc, evmask, xpc, cblog, xfree>>

Destroyers == {"user", "server"}
ShutRdWr == {"shutrd", "shutwr"}
Hows == {{"shutrd"}, {"shutwr"}, ShutRdWr}
EventsOf(how) == {IF b = "shutrd" THEN "read" ELSE "write" : b \in how}
xprt_flags_closed == "closed" \in xflags \/ ShutRdWr \subseteq xflags

(* create_xprt of a client: attached, referenced by its list and its creator *)
XprtInit ==
  /\ xflags \in {{"attached", "connecting"}, {"attached"}}
  /\ xrefs = 2 /\ listed = TRUE
  /\ mask = {} /\ evpc = "none" /\ evmask = {}
  /\ xpc = [user |-> "arm", server |-> "idle"]
  /\ cblog = [opened |-> 0, closed |-> 0, late |-> FALSE]
  /\ xfree = {"no"}

EvGoto(pc) == evpc' = pc /\ UNCHANGED evmask
Called(f) == [opened |-> cblog.opened + (IF f = "opened" THEN 1 ELSE 0),
              closed |-> cblog.closed + (IF f = "closed" THEN 1 ELSE 0),
              late |-> cblog.late \/ cblog.closed > 0]
(* A reference count that sticks at one. *)
DropKeepsLast ==
  /\ xrefs' = IF xrefs = 1 THEN 1 ELSE xrefs - 1
  /\ UNCHANGED <<mask, xfree>>

(* xprt_put; the last one is xprt_dict_free *)
Drop ==
  /\ xrefs' = xrefs - 1
  /\ IF xrefs = 1
       THEN /\ xfree' = (IF mask # {} THEN {"event"} ELSE {})
                        \cup (xflags \cap {"attached", "shutrd", "shutwr", "connecting"})
                        \cup (IF "closed" \in xflags THEN {} ELSE {"notclosed"})
            /\ mask' = {}
       ELSE UNCHANGED <<mask, xfree>>

(* shutdown_xprt_stats: what the compare-and-swap installs, if anything *)
Shuts(how) == "closed" \notin xflags /\ ~(how \subseteq xflags)
ShutFlags(how) == (xflags \cup how) \ (IF how = ShutRdWr THEN {"connecting"} ELSE {})
-----------------------------------------------------------------------------
(* the event layer calls process_xprt_event *)
EventFires ==
  /\ evpc = "none"
  /\ \E m \in {{"read"}, {"write"}, {"error"}} :
       /\ (m = {"error"} /\ mask # {}) \/ m \subseteq mask
       /\ evmask' = m
       /\ mask' = mask \ (m \cap {"write"})       \* writes are armed for one event
  /\ evpc' = "get"
  /\ UNCHANGED <<xflags, xrefs, listed, xpc, cblog, xfree>>

EvGet ==
  /\ evpc = "get"
  /\ IF xrefs = 0 THEN EvGoto("none") /\ UNCHANGED xrefs
     ELSE EvGoto("connecting") /\ xrefs' = xrefs + 1
  /\ UNCHANGED <<xflags, listed, mask, xpc, cblog, xfree>>

(* eat_xprt_connecting *)
EvConnecting ==
  \/ /\ evpc = "connecting"
     /\ xflags' = xflags \ {"connecting"}
     /\ EvGoto(IF "connecting" \in xflags THEN "connect" ELSE "handshake")
     /\ UNCHANGED <<xrefs, listed, mask, xpc, cblog, xfree>>
  \/ /\ evpc = "connect"
     /\ IF xprt_flags_closed THEN EvGoto("shut")
        ELSE IF evmask = {"error"} THEN EvGoto("refuse")
        ELSE EvGoto("handshake") \/ EvGoto("refuse") \/ EvGoto("out")   \* connect() again
     /\ UNCHANGED <<xflags, xrefs, listed, mask, xpc, cblog, xfree>>

(* do_xprt_handshake *)
EvHandshake ==
  \/ /\ evpc = "handshake"
     /\ IF "handshaked" \in xflags THEN EvGoto("open")
        ELSE IF xprt_flags_closed THEN EvGoto("refuse")
        ELSE \E rc \in Handshakes :
               EvGoto(CASE rc = "ok" -> "shaken" [] rc = "again" -> "out" [] OTHER -> "refuse")
     /\ UNCHANGED <<xflags, xrefs, listed, mask, xpc, cblog, xfree>>
  \/ /\ evpc = "shaken"
     /\ xflags' = xflags \cup {"handshaked"}
     /\ EvGoto("open")
     /\ UNCHANGED <<xrefs, listed, mask, xpc, cblog, xfree>>

(* intl_xprt_shutdown: refused, shut down, closed *)
EvRefuse ==
  \/ /\ evpc = "refuse"
     /\ xflags' = xflags \cup {"refused"}
     /\ EvGoto("refuseshut")
     /\ UNCHANGED <<xrefs, listed, mask, xpc, cblog, xfree>>
  \/ /\ evpc \in {"refuseshut", "errorshut"}
     /\ IF Shuts(ShutRdWr) THEN xflags' = ShutFlags(ShutRdWr) /\ mask' = {}
        ELSE UNCHANGED <<xflags, mask>>
     /\ EvGoto(IF evpc = "refuseshut" THEN "refuseclose" ELSE "close")
     /\ UNCHANGED <<xrefs, listed, xpc, cblog, xfree>>

EvOpen ==
  /\ evpc = "open"
  /\ IF "opened" \in xflags \/ xprt_flags_closed THEN UNCHANGED <<xflags, cblog>>
     ELSE xflags' = xflags \cup {"opened"} /\ cblog' = Called("opened")
  /\ EvGoto("read")
  /\ UNCHANGED <<xrefs, listed, mask, xpc, xfree>>

(* eat_xprt_rdready; on_recv may shut the transport down *)
EvRead ==
  \/ /\ evpc = "read"
     /\ IF evmask = {"write"} \/ xflags \cap {"closed", "shutrd"} # {}
          THEN EvGoto("write") /\ UNCHANGED cblog
          ELSE EvGoto("recv") /\ cblog' = Called("recv")
     /\ UNCHANGED <<xflags, xrefs, listed, mask, xpc, xfree>>
  \/ /\ evpc = "recv"
     /\ \/ UNCHANGED <<xflags, mask>>
        \/ \E how \in Hows : Shuts(how) /\ xflags' = ShutFlags(how) /\ mask' = mask \ EventsOf(how)
     /\ EvGoto("write")
     /\ UNCHANGED <<xrefs, listed, xpc, cblog, xfree>>

(* eat_xprt_wrready *)
EvWrite ==
  /\ evpc = "write"
  /\ IF evmask = {"read"} \/ xflags \cap {"closed", "shutwr"} # {}
       THEN EvGoto("close") /\ UNCHANGED cblog
       ELSE /\ cblog' = Called("send")
            /\ EvGoto(IF evmask = {"error"} THEN "errorshut" ELSE "close")
  /\ UNCHANGED <<xflags, xrefs, listed, mask, xpc, xfree>>

(* The closing callback does not claim the CLOSED bit first. *)
CloseUnclaimed ==
  /\ evpc \in {"close", "refuseclose"}
  /\ IF ShutRdWr \subseteq xflags
       THEN /\ EvGoto("shut")
            /\ IF xflags \cap {"opened", "refused"} # {}
                 THEN cblog' = Called("closed") /\ mask' = {}
                 ELSE UNCHANGED <<cblog, mask>>
       ELSE /\ EvGoto(IF "closed" \in xflags THEN "shut" ELSE "out")
            /\ UNCHANGED <<cblog, mask>>
  /\ UNCHANGED <<xflags, xrefs, listed, xpc, xfree>>

(* eat_xprt_close *)
EvClose ==
  /\ evpc \in {"close", "refuseclose"}
  /\ IF "closed" \notin xflags /\ ShutRdWr \subseteq xflags
       THEN /\ xflags' = (xflags \ ShutRdWr) \cup {"closed"}
            /\ EvGoto("shut")
            /\ IF xflags \cap {"opened", "refused"} # {}
                 THEN cblog' = Called("closed") /\ mask' = {}
                 ELSE UNCHANGED <<cblog, mask>>
       ELSE /\ EvGoto(IF "closed" \in xflags THEN "shut" ELSE "out")
            /\ UNCHANGED <<xflags, cblog, mask>>
  /\ UNCHANGED <<xrefs, listed, xpc, xfree>>

(* detach_xprt, then the reference of the list *)
EvShut ==
  \/ /\ evpc = "shut"
     /\ xflags' = xflags \ {"attached"}
     /\ EvGoto(IF "attached" \in xflags THEN "unlist" ELSE "out")
     /\ UNCHANGED <<xrefs, listed, mask, xpc, cblog, xfree>>
  \/ /\ evpc = "unlist"
     /\ listed' = FALSE /\ Drop
     /\ EvGoto("out")
     /\ UNCHANGED <<xflags, xpc, cblog>>

EvOut ==
  /\ evpc = "out" /\ Drop
  /\ evpc' = "none" /\ evmask' = {}
  /\ UNCHANGED <<xflags, listed, xpc, cblog>>
-----------------------------------------------------------------------------
XGoto(d, pc) == xpc' = [xpc EXCEPT ![d] = pc]

(* create_xprt registers the events once the transport is attached *)
UserArms ==
  /\ xpc["user"] = "arm"
  /\ mask' = {"read", "write"}
  /\ XGoto("user", "idle")
  /\ UNCHANGED <<xflags, xrefs, listed, evpc, evmask, cblog, xfree>>

UserShutdown ==
  /\ xpc["user"] = "idle"
  /\ \E how \in Hows : Shuts(how) /\ xflags' = ShutFlags(how)
  /\ UNCHANGED <<xrefs, listed, mask, evpc, evmask, xpc, cblog, xfree>>

UserPut ==
  /\ xpc["user"] = "idle" /\ Drop
  /\ XGoto("user", "gone")
  /\ UNCHANGED <<xflags, listed, evpc, evmask, cblog>>

(* stop_xprts takes the transport from the list *)
StopTakes ==
  /\ xpc["server"] = "idle" /\ listed
  /\ xrefs' = xrefs + 1
  /\ XGoto("server", "detach")
  /\ UNCHANGED <<xflags, listed, mask, evpc, evmask, cblog, xfree>>

UserDestroys ==
  /\ xpc["user"] = "idle"
  /\ XGoto("user", "detach")
  /\ UNCHANGED <<xflags, xrefs, listed, mask, evpc, evmask, cblog, xfree>>

(* destroy_xprt *)
DestroyDetach(d) ==
  \/ /\ xpc[d] = "detach"
     /\ xflags' = xflags \ {"attached"}
     /\ XGoto(d, IF "attached" \in xflags THEN "unlist" ELSE "stopevent")
     /\ UNCHANGED <<xrefs, listed, mask, evpc, evmask, cblog, xfree>>
  \/ /\ xpc[d] = "unlist"
     /\ listed' = FALSE /\ Drop
     /\ XGoto(d, "stopevent")
     /\ UNCHANGED <<xflags, evpc, evmask, cblog>>

(* uev_stream_delete_sync: unregister, then wait for the callback *)
DestroyStopEvent(d) ==
  \/ /\ xpc[d] = "stopevent"
     /\ mask' = {}
     /\ XGoto(d, "waitevent")
     /\ UNCHANGED <<xflags, xrefs, listed, evpc, evmask, cblog, xfree>>
  \/ /\ xpc[d] = "waitevent" /\ evpc = "none"
     /\ XGoto(d, "setclosed")
     /\ UNCHANGED <<xflags, xrefs, listed, mask, evpc, evmask, cblog, xfree>>

DestroyClose(d) ==
  \/ /\ xpc[d] = "setclosed"
     /\ xflags' = xflags \cup {"closed"}
     /\ XGoto(d, IF "closed" \in xflags THEN "put" ELSE "unshut")
     /\ UNCHANGED <<xrefs, listed, mask, evpc, evmask, cblog, xfree>>
  \/ /\ xpc[d] = "unshut"
     /\ xflags' = xflags \ (ShutRdWr \cup {"connecting"})
     /\ cblog' = IF "connecting" \notin xflags /\ "opened" \in xflags THEN Called("closed") ELSE cblog
     /\ XGoto(d, "put")
     /\ UNCHANGED <<xrefs, listed, mask, evpc, evmask, xfree>>

DestroyPut(d) ==
  /\ xpc[d] = "put" /\ Drop
  /\ XGoto(d, IF d = "user" THEN "gone" ELSE "idle")
  /\ UNCHANGED <<xflags, listed, evpc, evmask, cblog>>

(* nothing is left to happen to a transport that is gone, or that nobody polls *)
XprtRests ==
  /\ xpc["user"] = "gone" /\ xpc["server"] = "idle" /\ evpc = "none"
  /\ ~listed /\ UNCHANGED xvars

XprtNext ==
  \/ EventFires \/ EvGet \/ EvConnecting \/ EvHandshake \/ EvRefuse \/ EvOpen \/ EvRead
  \/ EvWrite \/ EvClose \/ EvShut \/ EvOut
  \/ UserArms \/ UserShutdown \/ UserPut \/ StopTakes \/ UserDestroys
  \/ \E d \in Destroyers :
       DestroyDetach(d) \/ DestroyStopEvent(d) \/ DestroyClose(d) \/ DestroyPut(d)
  \/ XprtRests

XprtSpec == XprtInit /\ [][XprtNext]_xvars
-----------------------------------------------------------------------------
(***************************************************************************)
(* The order of callbacks xprt.h promises: opened at most once; closed at  *)
(* most once, as the last callback ("关闭事件必然是最后一次事件"), and only *)
(* for a transport that was opened or whose connection was refused.        *)
(***************************************************************************)
CallbackOrder ==
  /\ cblog.opened <= 1 /\ cblog.closed <= 1 /\ ~cblog.late
  /\ cblog.closed = 1 => "closed" \in xflags /\ (cblog.opened = 1 \/ "refused" \in xflags)

(***************************************************************************)
(* The reference count counts: the list, the user, the destroyers and the  *)
(* callback each hold one, so nobody holds a transport that was released.  *)
(***************************************************************************)
RefsCountHolders ==
  LET One(holds) == IF holds THEN 1 ELSE 0
  IN  xrefs = One(listed) + One(xpc["user"] # "gone") + One(xpc["server"] # "idle")
                + One(evpc \notin {"none", "get"})

(***************************************************************************)
(* The callbacks of a transport come in the order xprt.h promises: opened  *)
(* once, closed once and last; and its references are exactly its holders, *)
(* so nobody holds a transport that was released.                          *)
(***************************************************************************)
TransportLife == CallbackOrder /\ RefsCountHolders

(***************************************************************************)
(* What xprt_dict_free finds is a transport closed in the right order: no  *)
(* event registered (WARN_ON(xprt_event_delete(xprt) > 0)), CLOSED set and *)
(* no shutdown, connecting or attached bit left (the XPRT_WARN_ONs).       *)
(***************************************************************************)
ReleasedClean == xfree \in {{"no"}, {}}
=============================================================================
