------------------------------- MODULE Timers -------------------------------
(***************************************************************************)
(* setTimeout and setInterval: node/timers.js over node/_linklist.js.      *)
(* All timers of one duration share a list and one handle of the host,     *)
(* which is armed for the timer that expires first; unref() takes a timer  *)
(* out of its list and gives it a handle of its own.  Callbacks set,       *)
(* clear and unref timers, and may throw, while listOnTimeout runs.        *)
(*                                                                         *)
(* `now` is the time of the loop (Timer.now()).  It also moves while       *)
(* JavaScript runs (Drift): listOnTimeout reads it once, at its start.  A  *)
(* handle fires once, at its due time or later.                            *)
(***************************************************************************)
EXTENDS Integers, Sequences, SequencesExt

CONSTANTS
  Timeouts,   \* timers made by setTimeout
  Intervals,  \* timers made by setInterval
  None,       \* no timer, no list
  Delays,     \* durations, in milliseconds
  MaxTime,    \* bound on the time
  MaxDrift,   \* bound on the time that passes while JavaScript runs
  MaxLists,   \* bound on the lists of a duration that exist at once
  MaxThrows   \* bound on the callbacks that throw

Timers == Timeouts \cup Intervals

\* A list has a duration, list.msecs, and a number.
Ids == Delays \X (1 .. MaxLists)
msecs(l) == l[1]

ASSUME TimersAssumption ==
  /\ Timeouts \cap Intervals = {} /\ None \notin Timers \cup Ids
  /\ Delays \subseteq Nat \ {0}
  /\ MaxTime \in Nat \ {0} /\ MaxLists \in Nat \ {0}
  /\ MaxDrift \in Nat /\ MaxThrows \in Nat

VARIABLES
  now, drift,                              \* drift: time passed while JavaScript ran
  lists,                                   \* the list of each duration, or None
  items, due,                              \* of each list; due = 0: not armed
  running, started,                        \* listOnTimeout: its list, its local `now`
  calling,                                 \* the timer whose callback runs
  ticks,                                   \* lists to be resumed by process.nextTick
  delay, idleTimeout, idleStart, onTimeout, repeat,  \* of each timer
  handle,                                  \* of each timer: its own handle
  throws,
  armed, fired, cleared, unrefd            \* history

object == <<items, due>>
loop   == <<running, started, calling>>
timer  == <<delay, idleTimeout, idleStart, onTimeout, repeat>>
hist   == <<armed, fired, cleared, unrefd>>
clock  == <<now, drift>>
vars   == <<clock, lists, object, loop, ticks, timer, handle, throws, hist>>

\* items are in the order of the list, the one that expires first (peek) first.
\* A handle of a timer: made by unref(), due (0: not armed), its callback set.
NoHandle == [made |-> FALSE, due |-> 0, call |-> FALSE]

Listed(t) == \E l \in Ids : t \in ToSet(items[l])

\* A list that nothing refers to any more.
Unused(l) ==
  /\ items[l] = <<>> /\ due[l] = 0 /\ l # running /\ l \notin ToSet(ticks)
  /\ lists[msecs(l)] # l

-----------------------------------------------------------------------------
(* Lists *)

\* L.remove(t)
Removed(t) == [l \in Ids |-> RemoveFirst(items[l], t)]

\* insert(t, m) where there is no list of duration m: one is made and armed.
Insert(t, m) ==
  \E n \in 1 .. MaxLists :
    LET l == <<m, n>>
    IN /\ Unused(l) /\ \A k \in 1 .. n - 1 : ~Unused(<<m, k>>)
       /\ items' = [Removed(t) EXCEPT ![l] = <<t>>]
       /\ due' = [due EXCEPT ![l] = now + m]
       /\ lists' = [lists EXCEPT ![m] = l]

\* exports.active(t): the timer joins the list of its duration m, armed or not.
Active(t, m) ==
  /\ idleStart' = [idleStart EXCEPT ![t] = now]
  /\ idleTimeout' = [idleTimeout EXCEPT ![t] = m]
  /\ armed' = [armed EXCEPT ![t] = now]
  /\ \/ /\ lists[m] # None
        /\ items' = [Removed(t) EXCEPT ![lists[m]] = Append(@, t)]
        /\ UNCHANGED <<lists, due>>
     \/ /\ lists[m] = None
        /\ Insert(t, m)

\* (mutant: the list of the timer is closed whatever it holds)
EmptiedAny(l, t) == TRUE

Emptied(l, t) == RemoveFirst(items[l], t) = <<>>

\* unenroll(t): an empty list is closed and forgotten.
Unenroll(t) ==
  LET m == idleTimeout[t]
      l == IF m \in Delays THEN lists[m] ELSE None
  IN /\ items' = Removed(t)
     /\ idleTimeout' = [idleTimeout EXCEPT ![t] = -1]
     /\ \/ /\ l # None /\ Emptied(l, t)
           /\ due' = [due EXCEPT ![l] = 0]
           /\ lists' = [lists EXCEPT ![m] = None]
        \/ /\ l # None => ~Emptied(l, t)
           /\ UNCHANGED <<due, lists>>

-----------------------------------------------------------------------------
(* User code: a turn of its own, or the callback of a timer. *)

Idle == running = None /\ calling = None
UserRuns == Idle \/ calling # None

\* What setTimeout and setInterval do with a new Timeout.
Start(t, d) ==
  /\ UserRuns /\ delay[t] = 0
  /\ delay' = [delay EXCEPT ![t] = d]
  /\ onTimeout' = [onTimeout EXCEPT ![t] = TRUE]
  /\ Active(t, d)
  /\ UNCHANGED <<clock, loop, ticks, handle, throws, fired, cleared, unrefd>>

SetTimeout(t) ==
  /\ t \in Timeouts
  /\ \E d \in Delays : Start(t, d)
  /\ UNCHANGED repeat

SetInterval(t) ==
  /\ t \in Intervals
  /\ \E d \in Delays : Start(t, d)
  /\ repeat' = [repeat EXCEPT ![t] = TRUE]

\* Timeout.close, as clearTimeout calls it: nothing is called any more.
Close(t) ==
  /\ onTimeout' = [onTimeout EXCEPT ![t] = FALSE]
  /\ cleared' = cleared \cup {t}
  /\ \/ /\ handle[t].made
        /\ handle' = [handle EXCEPT ![t].due = 0, ![t].call = FALSE]
        /\ UNCHANGED <<lists, object, idleTimeout>>
     \/ /\ ~handle[t].made
        /\ Unenroll(t)
        /\ UNCHANGED handle

ClearTimeout(t) ==
  /\ UserRuns /\ onTimeout[t]
  /\ Close(t)
  /\ UNCHANGED <<clock, loop, ticks, delay, idleStart, repeat, throws, armed, fired, unrefd>>

ClearInterval(t) ==
  /\ UserRuns /\ repeat[t]
  /\ repeat' = [repeat EXCEPT ![t] = FALSE]
  /\ \/ onTimeout[t] /\ Close(t)
     \/ /\ ~onTimeout[t]
        /\ UNCHANGED <<onTimeout, cleared, handle, lists, object, idleTimeout>>
  /\ UNCHANGED <<clock, loop, ticks, delay, idleStart, throws, armed, fired, unrefd>>

\* unref() of a timer that has no handle yet.
Unref(t) ==
  /\ UserRuns /\ delay[t] # 0 /\ ~handle[t].made
  /\ LET left == idleStart[t] + idleTimeout[t] - now
     IN handle' = [handle EXCEPT ![t] = [made |-> TRUE, call |-> onTimeout[t],
                                         due |-> IF left < 0 THEN now ELSE now + left]]
  /\ Unenroll(t)
  /\ unrefd' = [unrefd EXCEPT ![t] = IF Listed(t) THEN "pending" ELSE "late"]
  /\ UNCHANGED <<clock, loop, ticks, delay, idleStart, onTimeout, repeat, throws,
                 armed, fired, cleared>>

-----------------------------------------------------------------------------
(* Expiry *)

\* The callback starts.
Call(t) ==
  /\ calling' = t
  /\ fired' = [fired EXCEPT ![t] = IF t \in Timeouts THEN @ + 1 ELSE @]

\* The handle of a list fires: listOnTimeout begins.
ListFires(l) ==
  /\ Idle /\ due[l] # 0 /\ due[l] <= now
  /\ due' = [due EXCEPT ![l] = 0]
  /\ running' = l /\ started' = now
  /\ UNCHANGED <<clock, lists, items, calling, ticks, timer, handle,
                 throws, hist>>

\* listOnTimeout is resumed after an exception.
RunTick ==
  /\ Idle /\ ticks # <<>>
  /\ running' = Head(ticks) /\ started' = now
  /\ ticks' = Tail(ticks)
  /\ UNCHANGED <<clock, lists, object, calling, timer, handle, throws, hist>>

InLoop == running # None /\ calling = None
First == Head(items[running])
Elapsed == started - idleStart[First]

\* (mutant: off by one)
ExpiredAlmost == Elapsed + 1 >= msecs(running)

Expired == Elapsed >= msecs(running)

Wait == msecs(running) - Elapsed

\* The first timer has not expired: the list is armed for it.
LoopWait ==
  /\ InLoop /\ items[running] # <<>> /\ ~Expired
  /\ due' = [due EXCEPT ![running] = now + Wait]
  /\ running' = None /\ started' = 0
  /\ UNCHANGED <<clock, lists, items, calling, ticks, timer,
                 handle, throws, hist>>

\* L.remove(first)
Shift == Removed(First)

\* The first timer has expired: it leaves the list and is called.
LoopCall ==
  /\ InLoop /\ items[running] # <<>> /\ Expired
  /\ items' = Shift
  /\ \/ onTimeout[First] /\ Call(First)
     \/ ~onTimeout[First] /\ UNCHANGED <<calling, fired>>
  /\ UNCHANGED <<clock, lists, due, running, started, ticks, timer, handle,
                 throws, armed, cleared, unrefd>>

\* The list is empty: it is closed, and the entry of its duration deleted.
LoopEnd ==
  /\ InLoop /\ items[running] = <<>>
  /\ due' = [due EXCEPT ![running] = 0]
  /\ lists' = [lists EXCEPT ![msecs(running)] = None]
  /\ running' = None /\ started' = 0
  /\ UNCHANGED <<clock, items, calling, ticks, timer, handle,
                 throws, hist>>

\* The handle of an unref'd timer fires.
HandleFires(t) ==
  /\ Idle /\ handle[t].due # 0 /\ handle[t].due <= now
  /\ handle' = [handle EXCEPT ![t].due = 0]
  /\ \/ handle[t].call /\ Call(t)
     \/ ~handle[t].call /\ UNCHANGED <<calling, fired>>
  /\ UNCHANGED <<clock, lists, object, running, started, ticks, timer, throws, armed,
                 cleared, unrefd>>

\* The callback returns.  The wrapper of setInterval starts the timer again;
\* its `this` is the timer or, if the timer's own handle fired, the handle.
Return ==
  /\ calling # None
  /\ calling' = None
  /\ LET t == calling
     IN \/ /\ ~repeat[t]
           /\ UNCHANGED <<lists, object, timer, handle, armed>>
        \/ /\ repeat[t] /\ running # None /\ handle[t].made
           /\ handle' = [handle EXCEPT ![t].due = IF handle[t].call THEN now + delay[t] ELSE 0]
           /\ armed' = [armed EXCEPT ![t] = now]
           /\ UNCHANGED <<lists, object, timer>>
        \/ /\ repeat[t] /\ ~(running # None /\ handle[t].made)
           /\ Active(t, delay[t])
           /\ UNCHANGED <<delay, onTimeout, repeat, handle>>
  /\ UNCHANGED <<clock, running, started, ticks, throws, fired, cleared, unrefd>>

\* (mutant: the rest of the list is not resumed)
ResumeNot == ticks

\* (mutant: a tick is queued though no list was being processed)
ResumeAlways == Append(ticks, running)

Resume == IF running # None THEN Append(ticks, running) ELSE ticks

\* The callback throws: the list is resumed by a tick.
Throw ==
  /\ calling # None /\ throws < MaxThrows
  /\ throws' = throws + 1
  /\ calling' = None /\ running' = None /\ started' = 0
  /\ ticks' = Resume
  /\ UNCHANGED <<clock, lists, object, timer, handle, hist>>

Advance ==
  /\ Idle /\ now < MaxTime
  /\ now' = now + 1
  /\ UNCHANGED <<drift, lists, object, loop, ticks, timer, handle, throws, hist>>

\* A callback takes its time.
Drift ==
  /\ calling # None /\ now < MaxTime /\ drift < MaxDrift
  /\ now' = now + 1 /\ drift' = drift + 1
  /\ UNCHANGED <<lists, object, loop, ticks, timer, handle, throws, hist>>

-----------------------------------------------------------------------------

Init ==
  /\ now = 1 /\ drift = 0
  /\ lists = [d \in Delays |-> None]
  /\ items = [l \in Ids |-> <<>>] /\ due = [l \in Ids |-> 0]
  /\ running = None /\ started = 0 /\ calling = None
  /\ ticks = <<>> /\ throws = 0
  /\ delay = [t \in Timers |-> 0]
  /\ idleTimeout = [t \in Timers |-> 0] /\ idleStart = [t \in Timers |-> 0]
  /\ onTimeout = [t \in Timers |-> FALSE] /\ repeat = [t \in Timers |-> FALSE]
  /\ handle = [t \in Timers |-> NoHandle]
  /\ armed = [t \in Timers |-> 0] /\ fired = [t \in Timers |-> 0]
  /\ cleared = {} /\ unrefd = [t \in Timers |-> "no"]

\* What happens without the user.
Step ==
  \/ \E l \in Ids : ListFires(l)
  \/ \E t \in Timers : HandleFires(t)
  \/ RunTick \/ LoopWait \/ LoopCall \/ LoopEnd \/ Return

Next ==
  \/ \E t \in Timers : SetTimeout(t) \/ SetInterval(t) \/ ClearTimeout(t) \/ ClearInterval(t) \/ Unref(t)
  \/ Step \/ Throw \/ Advance \/ Drift

Spec == Init /\ [][Next]_vars

\* Time passes, armed handles fire, callbacks return and ticks run.
FairSpec == Spec /\ WF_vars(Step) /\ WF_vars(Advance)

-----------------------------------------------------------------------------
(* Properties *)

TypeOK ==
  /\ now \in 1 .. MaxTime /\ drift \in 0 .. MaxDrift
  /\ lists \in [Delays -> Ids \cup {None}]
  /\ items \in [Ids -> Seq(Timers)] /\ due \in [Ids -> Nat]
  /\ running \in Ids \cup {None} /\ started \in 0 .. MaxTime
  /\ calling \in Timers \cup {None}
  /\ ticks \in Seq(Ids) /\ throws \in 0 .. MaxThrows
  /\ delay \in [Timers -> Delays \cup {0}]
  /\ idleTimeout \in [Timers -> Delays \cup {0, -1}] /\ idleStart \in [Timers -> 0 .. MaxTime]
  /\ onTimeout \in [Timers -> BOOLEAN] /\ repeat \in [Timers -> BOOLEAN]
  /\ handle \in [Timers -> [made : BOOLEAN, due : Nat, call : BOOLEAN]]
  /\ armed \in [Timers -> 0 .. MaxTime] /\ fired \in [Timers -> Nat]
  /\ cleared \subseteq Timers /\ unrefd \in [Timers -> {"no", "pending", "late"}]

\* Every list that holds timers will be looked at in time: it is being
\* processed, waits for a tick, or is armed for the expiry of its first timer,
\* late by no more than the time callbacks took.  Lists are sorted by expiry, and a timer is in one list.
Armed ==
  \A l \in Ids :
    /\ items[l] # <<>> =>
         \/ l = running \/ l \in ToSet(ticks)
         \/ due[l] # 0 /\ due[l] <= idleStart[Head(items[l])] + msecs(l) + drift
    /\ \A i, j \in DOMAIN items[l] :
         i < j => /\ idleStart[items[l][i]] <= idleStart[items[l][j]]
                  /\ items[l][i] # items[l][j]
    /\ \A k \in Ids \ {l} : ToSet(items[k]) \cap ToSet(items[l]) = {}

\* No callback runs before its delay has passed since it was set or restarted,
\* none runs after it was cleared, and that of a timeout runs once.  (Not so if
\* unref() is called after it has fired: it gets a handle that fires again.)
OnceInTime ==
  [][calling' \notin {None, calling} =>
       /\ now >= armed[calling'] + delay[calling']
       /\ calling' \notin cleared
       /\ calling' \in Timeouts /\ unrefd[calling'] # "late" => fired'[calling'] <= 1]_vars

\* A timeout that expires within the bound fires unless it is cleared, though
\* callbacks throw and lists are closed, replaced and forgotten around it.
Fires ==
  \A t \in Timeouts :
    (delay[t] # 0 /\ armed[t] + delay[t] + MaxDrift <= MaxTime) ~> (fired[t] > 0 \/ t \in cleared)

\* What the comment at line 290 says: a timer that is or was unref'd is
\* "permanently removed from the list", and so does not hold the loop open.
UnrefdLeavesTheList ==
  \A t \in Timers : unrefd[t] # "no" => ~Listed(t)
=============================================================================
