----------------------------- MODULE EventCores -----------------------------
(***************************************************************************)
(* The event objects of src/process/event.c: streams, timers and signals   *)
(* registered with the slots (one event thread per CPU), the threads that  *)
(* call their callbacks, and threads that add, modify and delete them,     *)
(* synchronously or not, while callbacks run.  Whatever happens under a    *)
(* slot's mutex is one step; get_slot_and_lock's recheck of the index is   *)
(* what lets the choice of the slot belong to that step.  Time is left to  *)
(* module EventLoop: here a queued timer may expire at any moment.       *)
(***************************************************************************)
EXTENDS Integers, Sequences, FiniteSets

CONSTANTS Slots,        \* 0 .. NR_CPUS - 1; signals are handled by slot 0
          Streams, Timers, Signals,
          FdOf,         \* the descriptor of a stream: a closed one may be used again
          SignoOf,
          Clients,
          MaxId,        \* PER_CPU_EVENTS - 1
          MaxAdds,      \* registrations in a behaviour
          Casts         \* [objects, clients]: who takes part in a behaviour

VARIABLES
  core,      \* core[c] = [idx, pending, id, mask]; idx of {EVENT_IDX_MAX} \cup Slots
  slot,      \* slot[s] = [ids, last, heap, sigs, current, pc, ready, active]
  client,    \* client[t] = [pc, obj, idx, destroy, left]
  dead,      \* objects their owner destroyed after a synchronous deletion
  adds, misfired   \* misfired: an event was given to another stream, or a BUG_ON met

evvars == <<core, slot, client, dead, adds, misfired>>

Cores == Streams \cup Timers \cup Signals
Nil == "nil"
EVENT_IDX_MAX == -1
ClientIdle == [pc |-> "idle", obj |-> Nil, idx |-> EVENT_IDX_MAX, destroy |-> FALSE, left |-> {}]

EvInit ==
  /\ core = [c \in Cores |-> [idx |-> EVENT_IDX_MAX, pending |-> FALSE, id |-> MaxId + 1, mask |-> FALSE]]
  /\ slot = [s \in Slots |-> [ids |-> [i \in 0 .. MaxId |-> Nil], last |-> -1, heap |-> {},
                              sigs |-> [n \in {SignoOf[g] : g \in Signals} |-> Nil],
                              current |-> Nil, pc |-> "poll", ready |-> {}, active |-> {}]]
  /\ \E cast \in Casts :
       /\ client = [t \in Clients |-> [ClientIdle EXCEPT !.pc = IF t \in cast.clients THEN @ ELSE "gone"]]
       /\ dead = Cores \ cast.objects
  /\ adds = 0 /\ misfired = FALSE

(* uev_core_setcpu and acquire_slot: where an object may be dispatched *)
acquire_slot(c) ==
  IF core[c].idx # EVENT_IDX_MAX THEN {core[c].idx}
  ELSE IF c \in Signals THEN {0}
  ELSE IF c \in Timers THEN Slots
  ELSE {s \in Slots : \E i \in 0 .. MaxId : slot[s].ids[i] = Nil}

(* idr_alloc continues after the last identifier it gave *)
FreeIds(s) == {i \in 0 .. MaxId : slot[s].ids[i] = Nil}
Distance(s, i) == (i - slot[s].last - 1) % (MaxId + 1)
(* The lowest free identifier is given again at once. *)
LowestId(s) == CHOOSE i \in FreeIds(s) : \A j \in FreeIds(s) : i <= j

NextId(s) == CHOOSE i \in FreeIds(s) : \A j \in FreeIds(s) : Distance(s, i) <= Distance(s, j)
-----------------------------------------------------------------------------
(* stream_insert and the reactor: a new identifier, or only another mask *)
__uev_stream_modify(c, s, on) ==
  /\ c \in Streams
  /\ IF core[c].pending
       THEN core' = [core EXCEPT ![c].mask = on] /\ UNCHANGED <<slot, adds>>
       ELSE /\ adds < MaxAdds /\ adds' = adds + 1
            /\ core' = [core EXCEPT ![c] = [idx |-> s, pending |-> TRUE, id |-> NextId(s), mask |-> on]]
            /\ slot' = [slot EXCEPT ![s].ids[NextId(s)] = c, ![s].last = NextId(s)]

(* a queued timer stays queued, with another time *)
__uev_timer_modify(c, s) ==
  /\ c \in Timers /\ ~core[c].pending /\ adds < MaxAdds
  /\ adds' = adds + 1
  /\ core' = [core EXCEPT ![c].idx = s, ![c].pending = TRUE]
  /\ slot' = [slot EXCEPT ![s].heap = @ \cup {c}]

(* -EBUSY when the signal has another object *)
__uev_signal_register(c, s) ==
  LET free == slot[s].sigs[SignoOf[c]] = Nil IN
  /\ c \in Signals /\ ~core[c].pending /\ adds < MaxAdds
  /\ adds' = adds + 1
  /\ core' = [core EXCEPT ![c].idx = s, ![c].pending = free]
  /\ slot' = IF free THEN [slot EXCEPT ![s].sigs[SignoOf[c]] = c] ELSE slot

Modify(c, s, on) ==
  /\ s \in acquire_slot(c)
  /\ \/ __uev_stream_modify(c, s, on)
     \/ on /\ __uev_timer_modify(c, s)
     \/ on /\ __uev_signal_register(c, s)

stream_remove(c, s) == [slot[s] EXCEPT !.ids[core[c].id] = Nil]
timer_remove(c, s) == [slot[s] EXCEPT !.heap = @ \ {c}]
signal_remove(c, s) == [slot[s] EXCEPT !.sigs[SignoOf[c]] = Nil]
Removed(c, s) ==
  IF ~core[c].pending THEN slot[s]
  ELSE IF c \in Streams THEN stream_remove(c, s)
  ELSE IF c \in Timers THEN timer_remove(c, s)
  ELSE signal_remove(c, s)
Unpended(c, idx) == [idx |-> idx, pending |-> FALSE, id |-> MaxId + 1,
                     mask |-> core[c].mask]
-----------------------------------------------------------------------------
(* worker_cb: reactor_poll collects descriptors with their identifiers, and signals *)
Poll(s) ==
  /\ slot[s].pc = "poll"
  /\ \E r \in SUBSET {c \in Streams : core[c].pending /\ core[c].idx = s /\ core[c].mask},
        a \in SUBSET {n \in DOMAIN slot[s].sigs : slot[s].sigs[n] # Nil} :
       slot' = [slot EXCEPT ![s].pc = "streams", ![s].active = a,
                  ![s].ready = {[id |-> core[c].id, fd |-> FdOf[c], of |-> c] : c \in r}]
  /\ UNCHANGED <<core, client, dead, adds, misfired>>

(* slot_invoke_start; the callback runs without the lock *)
Invoke(s, c, ready, active, heap, pc) ==
  [slot[s] EXCEPT !.current = c, !.ready = ready, !.active = active, !.heap = heap, !.pc = pc]

(* process_streams, one collected event *)
ProcessStream(s) ==
  /\ slot[s].pc = "streams" /\ slot[s].current = Nil
  /\ \E e \in slot[s].ready :
       LET ev == slot[s].ids[e.id]
           found == ev # Nil /\ FdOf[ev] = e.fd              \* stream_lookup
           calls == found /\ core[ev].mask
       IN /\ slot' = [slot EXCEPT ![s] =
                 IF calls THEN Invoke(s, ev, @.ready \ {e}, @.active, @.heap, "streams")
                          ELSE [@ EXCEPT !.ready = @ \ {e}]]
          /\ misfired' = (misfired \/ (found /\ (ev # e.of \/ ~core[ev].pending \/ core[ev].idx # s)))
  /\ UNCHANGED <<core, client, dead, adds>>

(* process_timers: a timer that expired leaves the heap before its callback *)
ProcessTimer(s) ==
  /\ slot[s].pc = "timers" /\ slot[s].current = Nil
  /\ \E c \in slot[s].heap :
       /\ slot' = [slot EXCEPT ![s] = Invoke(s, c, @.ready, @.active, @.heap \ {c}, "timers")]
       /\ core' = [core EXCEPT ![c].pending = FALSE]
  /\ UNCHANGED <<client, dead, adds, misfired>>

(* process_signals *)
ProcessSignal(s) ==
  /\ slot[s].pc = "signals" /\ slot[s].current = Nil
  /\ \E n \in slot[s].active :
       slot' = [slot EXCEPT ![s] =
                 IF @.sigs[n] = Nil THEN [@ EXCEPT !.active = @ \ {n}]
                 ELSE Invoke(s, @.sigs[n], @.ready, @.active \ {n}, @.heap, "signals")]
  /\ UNCHANGED <<core, client, dead, adds, misfired>>

NextPhase(s) ==
  /\ slot[s].current = Nil
  /\ \/ slot[s].pc = "streams" /\ slot[s].ready = {} /\ slot' = [slot EXCEPT ![s].pc = "timers"]
     \/ slot[s].pc = "timers" /\ slot' = [slot EXCEPT ![s].pc = IF s = 0 THEN "signals" ELSE "poll"]
     \/ slot[s].pc = "signals" /\ slot[s].active = {} /\ slot' = [slot EXCEPT ![s].pc = "poll"]
  /\ UNCHANGED <<core, client, dead, adds, misfired>>

(* what a callback may do to its own object *)
CallbackModifies(s) ==
  /\ slot[s].current # Nil
  /\ \E on \in BOOLEAN : Modify(slot[s].current, core[slot[s].current].idx, on)
  /\ UNCHANGED <<client, dead, misfired>>

CallbackDeletes(s) ==
  LET c == slot[s].current IN
  /\ c # Nil /\ core[c].pending
  /\ slot' = [slot EXCEPT ![s] = Removed(c, s)]
  /\ core' = [core EXCEPT ![c] = Unpended(c, s)]
  /\ UNCHANGED <<client, dead, adds, misfired>>

(* slot_invoke_finish *)
InvokeFinish(s) ==
  /\ slot[s].current # Nil
  /\ slot' = [slot EXCEPT ![s].current = Nil]
  /\ UNCHANGED <<core, client, dead, adds, misfired>>
-----------------------------------------------------------------------------
Destroying(c) == c \in dead \/ \E t \in Clients : client[t].obj = c /\ client[t].destroy

ClientModifies(t) ==
  /\ client[t].pc = "idle"
  /\ \E c \in Cores, s \in Slots, on \in BOOLEAN : ~Destroying(c) /\ Modify(c, s, on)
  /\ UNCHANGED <<client, dead, misfired>>

DeleteAsync(t) ==
  /\ client[t].pc = "idle"
  /\ \E c \in Cores \ dead :
       /\ core[c].pending
       /\ slot' = [slot EXCEPT ![core[c].idx] = Removed(c, core[c].idx)]
       /\ core' = [core EXCEPT ![c] = Unpended(c, core[c].idx)]
  /\ UNCHANGED <<client, dead, adds, misfired>>

(* __uev_stream_delete(.., sync, idx) and its timer and signal forms; idx may migrate it *)
DeleteSync(t) ==
  /\ client[t].pc = "idle"
  /\ \E c \in Cores, idx \in Slots \cup {EVENT_IDX_MAX}, destroy \in BOOLEAN :
       /\ ~Destroying(c)
       /\ destroy \/ c \in Signals => idx = EVENT_IDX_MAX
       /\ client' = [client EXCEPT ![t] = [pc |-> "delete", obj |-> c, idx |-> idx,
                                           destroy |-> destroy, left |-> {}]]
  /\ UNCHANGED <<core, slot, dead, adds, misfired>>

Done(t) == /\ client' = [client EXCEPT ![t] = ClientIdle]
           /\ dead' = IF client[t].destroy THEN dead \cup {client[t].obj} ELSE dead

(* A synchronous deletion that does not look whether the callback runs. *)
DeleteNoWait(t) ==
  LET c == client[t].obj  s == core[c].idx IN
  /\ client[t].pc = "delete" /\ s # EVENT_IDX_MAX
  /\ slot' = [slot EXCEPT ![s] = Removed(c, s)]
  /\ core' = [core EXCEPT ![c] = Unpended(c, client[t].idx)] /\ Done(t)
  /\ UNCHANGED <<adds, misfired>>

DeleteLocked(t) ==
  LET c == client[t].obj  s == core[c].idx IN
  /\ client[t].pc = "delete" /\ s # EVENT_IDX_MAX
  /\ slot' = [slot EXCEPT ![s] = Removed(c, s)]
  /\ IF slot[s].current = c
       THEN /\ core' = [core EXCEPT ![c] = Unpended(c, s)]
            /\ client' = [client EXCEPT ![t].pc = "wait", ![t].left = {s}]
            /\ UNCHANGED dead
       ELSE core' = [core EXCEPT ![c] = Unpended(c, client[t].idx)] /\ Done(t)    \* uev_core_chgidx
  /\ UNCHANGED <<adds, misfired>>

(* uev_wait_finish_sync, woken: again if the index changed or the object is back *)
DeleteWoken(t) ==
  LET c == client[t].obj  s == core[c].idx IN
  /\ client[t].pc = "wait"
  /\ \A w \in client[t].left : slot[w].current # c
  /\ IF s \in client[t].left /\ ~core[c].pending
       THEN core' = [core EXCEPT ![c] = Unpended(c, client[t].idx)] /\ Done(t)
       ELSE client' = [client EXCEPT ![t].pc = "delete"] /\ UNCHANGED <<core, dead>>
  /\ UNCHANGED <<slot, adds, misfired>>

(* uev_slow_wait_finish: an object of no slot is looked for on all of them *)
DeleteSlow(t) ==
  LET c == client[t].obj IN
  /\ client[t].pc \in {"delete", "slow"}
  /\ \/ /\ client[t].pc = "delete" /\ core[c].idx = EVENT_IDX_MAX
        /\ client' = [client EXCEPT ![t].pc = "slow", ![t].left = Slots]
        /\ UNCHANGED dead
     \/ /\ client[t].pc = "slow" /\ client[t].left # {}
        /\ LET s == CHOOSE w \in client[t].left : \A v \in client[t].left : w <= v IN
             /\ slot[s].current # c
             /\ client' = [client EXCEPT ![t].left = @ \ {s}]
        /\ UNCHANGED dead
     \/ client[t].pc = "slow" /\ client[t].left = {} /\ Done(t)
  /\ UNCHANGED <<core, slot, adds, misfired>>

EvNext ==
  \/ \E s \in Slots : Poll(s) \/ ProcessStream(s) \/ ProcessTimer(s) \/ ProcessSignal(s)
       \/ NextPhase(s) \/ CallbackModifies(s) \/ CallbackDeletes(s) \/ InvokeFinish(s)
  \/ \E t \in Clients : ClientModifies(t) \/ DeleteAsync(t) \/ DeleteSync(t)
       \/ DeleteLocked(t) \/ DeleteWoken(t) \/ DeleteSlow(t)
-----------------------------------------------------------------------------
Queued(c, s) == \/ \E i \in 0 .. MaxId : slot[s].ids[i] = c
                \/ c \in slot[s].heap
                \/ \E n \in DOMAIN slot[s].sigs : slot[s].sigs[n] = c

(***************************************************************************)
(* An object is queued where its index says and only if it is PENDING; its *)
(* callback runs only on the slot of its index; and one that was deleted   *)
(* synchronously by its owner is neither queued nor running, whatever its  *)
(* own callback did during the deletion: its memory may be freed.          *)
(***************************************************************************)
DeletedIsQuiet ==
  \A c \in Cores, s \in Slots :
    /\ Queued(c, s) <=> core[c].pending /\ core[c].idx = s
    /\ slot[s].current = c => core[c].idx = s /\ c \notin dead
    /\ c \in dead => ~core[c].pending

(***************************************************************************)
(* An event collected before its stream was deleted is not given to        *)
(* another stream that got the same descriptor since, and stream_lookup's  *)
(* BUG_ONs ("ABA cause this") hold, while the slot has more identifiers    *)
(* than registrations happen meanwhile.                                    *)
(***************************************************************************)
NoStrayEvent == ~misfired
=============================================================================
