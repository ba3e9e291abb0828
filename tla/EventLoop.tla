----------------------------- MODULE EventLoop ------------------------------
(***************************************************************************)
(* Time in src/process/event.c: one event thread in worker_cb, its timer   *)
(* heap, the timeout it sleeps with, and the notifier (a uev_async: a      *)
(* counter and a pipe) by which other threads interrupt its sleep.  The    *)
(* clock counts the granularity of timers; it advances only while the      *)
(* event thread sleeps with nothing to wake it, so that what is late is    *)
(* late because of the code and not of the scheduler.                      *)
(***************************************************************************)
EXTENDS Integers, FiniteSets

CONSTANTS LoopTimers, LoopClients, NoOne,
          Expires,        \* arguments of uev_timer_modify
          PollInterval,   \* EV_POLL_INTERVAL
          MaxClock,
          MaxCount        \* where the model stops counting notifications

VARIABLES
  clock,
  due,       \* due[t]: when a queued timer expires, or -1
  loop_pc,   \* of {"sleep", "streams", "drain", "timers"}
  wake, now, \* when the sleep times out; the time the round works with
  running,   \* worker->current: a timer, "notifier" or NoOne
  async,     \* [cnt, pipe]
  emitting   \* emitting[c] of {"no", "inc", "write"}

lpvars == <<clock, due, loop_pc, wake, now, running, async, emitting>>

Queue == {t \in LoopTimers : due[t] # -1}
Earliest(d, S) == CHOOSE x \in {d[t] : t \in S} : \A t \in S : x <= d[t]

LoopInit ==
  /\ clock = 0 /\ due = [t \in LoopTimers |-> -1]
  /\ loop_pc = "sleep" /\ wake = PollInterval /\ now = 0
  /\ running = NoOne
  /\ async = [cnt |-> -1, pipe |-> 0]
  /\ emitting = [c \in LoopClients |-> "no"]

(* the sleep in reactor_poll ends: the pipe is readable or the timeout is over *)
Awake == loop_pc # "sleep" \/ async.pipe > 0 \/ clock >= wake

Tick ==
  /\ ~Awake /\ clock < MaxClock
  /\ clock' = clock + 1
  /\ UNCHANGED <<due, loop_pc, wake, now, running, async, emitting>>

WakeUp ==
  /\ loop_pc = "sleep" /\ Awake
  /\ loop_pc' = "streams" /\ now' = clock
  /\ UNCHANGED <<clock, due, wake, running, async, emitting>>

(* async_stream_cb: exchange the counter, then empty the pipe *)
NotifierStart ==
  /\ loop_pc = "streams"
  /\ IF async.pipe > 0
       THEN loop_pc' = "drain" /\ running' = "notifier" /\ async' = [async EXCEPT !.cnt = -1]
       ELSE loop_pc' = "timers" /\ UNCHANGED <<running, async>>
  /\ UNCHANGED <<clock, due, wake, now, emitting>>

NotifierDrain ==
  /\ loop_pc = "drain"
  /\ async' = [async EXCEPT !.pipe = 0]
  /\ loop_pc' = "timers" /\ running' = NoOne
  /\ UNCHANGED <<clock, due, wake, now, emitting>>

(* process_timers: the first of the heap, if it expired *)
TimerExpires ==
  /\ loop_pc = "timers" /\ running = NoOne
  /\ \E t \in Queue :
       /\ due[t] = Earliest(due, Queue) /\ due[t] <= now
       /\ due' = [due EXCEPT ![t] = -1] /\ running' = t
  /\ UNCHANGED <<clock, loop_pc, wake, now, async, emitting>>

(* a timer's callback may arm timers; the event thread never notifies itself *)
CallbackArms ==
  /\ loop_pc = "timers" /\ running # NoOne
  /\ \/ \E t \in LoopTimers, e \in Expires : due' = [due EXCEPT ![t] = clock + e]
     \/ UNCHANGED due
  /\ running' = NoOne
  /\ UNCHANGED <<clock, loop_pc, wake, now, async, emitting>>

(* A sleep until the first timer, however far. *)
SleepUncapped ==
  /\ loop_pc = "timers" /\ running = NoOne
  /\ \A t \in Queue : due[t] > now
  /\ loop_pc' = "sleep"
  /\ wake' = clock + (IF Queue # {} THEN Earliest(due, Queue) - now ELSE PollInterval)
  /\ UNCHANGED <<clock, due, now, running, async, emitting>>

(* calc_timeout, then the next poll *)
Sleep ==
  /\ loop_pc = "timers" /\ running = NoOne
  /\ \A t \in Queue : due[t] > now
  /\ loop_pc' = "sleep"
  /\ wake' = clock + (IF \E t \in Queue : due[t] - now < PollInterval
                        THEN Earliest(due, Queue) - now ELSE PollInterval)
  /\ UNCHANGED <<clock, due, now, running, async, emitting>>

(* notify_poller_locked: whether the poller gets notified *)
notify_poller_locked(updated) == updated /\ running # NoOne

(* __uev_timer_modify: insert or move, then "wakeup poller" *)
TimerModify(c, t, e) ==
  /\ emitting[c] = "no"
  /\ due' = [due EXCEPT ![t] = clock + e]
  /\ emitting' = [emitting EXCEPT ![c] =
        IF notify_poller_locked(clock + e = Earliest(due', Queue \cup {t})) THEN "inc" ELSE "no"]
  /\ UNCHANGED <<clock, loop_pc, wake, now, running, async>>

(* __uev_timer_delete *)
TimerDelete(c, t) ==
  /\ emitting[c] = "no" /\ t \in Queue
  /\ due' = [due EXCEPT ![t] = -1]
  /\ UNCHANGED <<clock, loop_pc, wake, now, running, async, emitting>>

(* __uev_async_emit: only the increment that reaches 0 writes *)
EmitInc(c) ==
  /\ emitting[c] = "inc"
  /\ async' = [async EXCEPT !.cnt = IF @ < MaxCount THEN @ + 1 ELSE @]
  /\ emitting' = [emitting EXCEPT ![c] = IF async.cnt = -1 THEN "write" ELSE "no"]
  /\ UNCHANGED <<clock, due, loop_pc, wake, now, running>>

EmitWrite(c) ==
  /\ emitting[c] = "write"
  /\ async' = [async EXCEPT !.pipe = @ + 1]
  /\ emitting' = [emitting EXCEPT ![c] = "no"]
  /\ UNCHANGED <<clock, due, loop_pc, wake, now, running>>

LoopEnds == clock = MaxClock /\ UNCHANGED lpvars

LoopNext ==
  \/ Tick \/ WakeUp \/ NotifierStart \/ NotifierDrain \/ TimerExpires \/ CallbackArms \/ Sleep
  \/ \E c \in LoopClients :
       \/ \E t \in LoopTimers : TimerDelete(c, t) \/ \E e \in Expires : TimerModify(c, t, e)
       \/ EmitInc(c) \/ EmitWrite(c)
  \/ LoopEnds

LoopSpec == LoopInit /\ [][LoopNext]_lpvars
-----------------------------------------------------------------------------
(***************************************************************************)
(* A timer is never later than EV_POLL_INTERVAL: whatever notification is  *)
(* lost, the poller looks again after that time.                           *)
(***************************************************************************)
LatenessBounded == \A t \in Queue : clock <= due[t] + PollInterval

(***************************************************************************)
(* __uev_timer_modify's "wakeup poller": a poller that sleeps wakes up in  *)
(* time for the first timer, by its timeout or by a notification under     *)
(* way.                                                                    *)
(***************************************************************************)
SleepsNoLonger ==
  (loop_pc = "sleep" /\ async.pipe = 0 /\ \A c \in LoopClients : emitting[c] = "no")
     => \A t \in Queue : wake <= due[t]

(***************************************************************************)
(* A notification that was emitted ("触发通知") reaches the poller: when    *)
(* the counter says that one is outstanding, a byte is in the pipe, about  *)
(* to be written, or being read.                                           *)
(***************************************************************************)
EmittedIsSeen ==
  (async.cnt >= 0 /\ loop_pc = "sleep") => async.pipe > 0 \/ \E c \in LoopClients : emitting[c] = "write"
=============================================================================
