-------------------------------- MODULE Timer --------------------------------
(***************************************************************************)
(* Timer (wsCore): business threads add and remove timers, the timer       *)
(* thread turns a hierarchical timing wheel and moves due timers to        *)
(* dispatchList, and the thread that calls update() runs their callbacks.  *)
(*                                                                         *)
(* Time is counted in ticks of MIN_INTERVAL.  The code has 256 near slots  *)
(* and 4 far wheels of 64 slots, which makes one turn of all the wheels    *)
(* the 2^32 values of the uint32_t tick; here the three numbers are        *)
(* constants, tick wraps at their Turn, and a shift is a division.  The    *)
(* order of the timers in one slot is not modelled: a slot is a set.       *)
(* farFuture[l - 1] of the code is far[l] here.                            *)
(***************************************************************************)
EXTENDS Integers, Functions, FiniteSetsExt

CONSTANTS
    Near,         \* NEAR_FUTURE
    Far,          \* FAR_FUTURE
    Levels,       \* NUM_FAR_WHEEL
    Span,         \* Span[l]: the ticks of one turn of far wheel l, Span[0] of near
    MaxTimers,    \* bound: calls of addTimeCall that return an id
    MaxLag,       \* bound: calls counted in dispatchList of an endless timer
    Intervals,    \* the intervals passed to addTimeCall, in ticks
    Times         \* the times passed to addTimeCall, -1 for ever

ASSUME TimerAssumption ==
    /\ Near \in Nat \ {0} /\ Far \in Nat \ {0, 1} /\ Levels \in Nat \ {0}
    /\ Span \in [0..Levels -> Nat \ {0}]
    /\ Span[0] = Near /\ \A l \in 1..Levels : Span[l] = Far * Span[l - 1]
    /\ MaxTimers \in Nat /\ MaxLag \in Nat \ {0}
    /\ Intervals \subseteq Nat
    /\ Times \subseteq Int \ {0}

Ids   == 1..MaxTimers
Lvls  == 1..Levels
Turn  == Span[Levels]

VARIABLES
    tick, lastID,
    near,          \* nearFuture: the ids in each slot
    far,           \* farFuture
    scheduleList,  \* the ids addTimeCall has scheduled
    index, remainTimes, interval, callback,   \* the fields of a Schedule
    dispatchList,  \* how often each timer stands in dispatchList
    callList,      \* the same for update()'s local list
    calling,       \* the timer whose callback update() has found, 0 for none
    crashed,       \* the program ended by an exception nothing catches
    timerPc,       \* where the timer thread stands in timerProc
    isExit,
    elapsed,       \* history: ticks since the timer was last put in the wheel
    times,         \* history: the argument of addTimeCall
    calls,         \* history: callbacks made, of a timer with finite times
    removed,       \* history: remove(id) has returned
    stopped,       \* history: remove(id) found the timer in scheduleList
    owed,          \* history: calls that remove(id) came too late for
    late           \* history: callbacks made since, finite times or not

wheel     == <<near, far, index>>
fields    == <<remainTimes, interval, callback>>
updating  == <<callList, calling, crashed>>   \* the state of update()
histories == <<elapsed, times, calls, removed, stopped, owed, late>>
vars == <<tick, lastID, wheel, scheduleList, fields, dispatchList, updating,
          timerPc, isExit, histories>>

TypeOK ==
    /\ tick \in 0..Turn - 1 /\ lastID \in 0..MaxTimers
    /\ near \in [0..Near - 1 -> SUBSET Ids]
    /\ far \in [Lvls -> [0..Far - 1 -> SUBSET Ids]]
    /\ scheduleList \subseteq 1..lastID
    /\ index \in [Ids -> 0..Turn - 1]
    /\ remainTimes \in [Ids -> Int] /\ times \in [Ids -> Int]
    /\ interval \in [Ids -> Nat] /\ elapsed \in [Ids -> Nat]
    /\ callback \in [Ids -> BOOLEAN]
    /\ dispatchList \in [Ids -> Nat] /\ callList \in [Ids -> Nat]
    /\ calls \in [Ids -> Nat]
    /\ timerPc \in {"sleep", "dispatch", "tick", "expand", "exited"}
    /\ isExit \in BOOLEAN
    /\ calling \in 0..lastID /\ crashed \in BOOLEAN
    /\ stopped \subseteq removed /\ removed \subseteq 1..lastID
    /\ owed \in [Ids -> Nat] /\ late \in [Ids -> Nat]
    /\ \A id \in Ids : calls[id] > 0 \/ dispatchList[id] > 0 \/ callList[id] > 0
                         => id <= lastID

Init ==
    /\ tick = 0 /\ lastID = 0
    /\ near = [s \in 0..Near - 1 |-> {}]
    /\ far = [l \in Lvls |-> [s \in 0..Far - 1 |-> {}]]
    /\ scheduleList = {}
    /\ index = [id \in Ids |-> 0]
    /\ remainTimes = [id \in Ids |-> 0] /\ interval = [id \in Ids |-> 0]
    /\ callback = [id \in Ids |-> FALSE]
    /\ dispatchList = [id \in Ids |-> 0] /\ callList = [id \in Ids |-> 0]
    /\ timerPc = "sleep" /\ isExit = FALSE
    /\ elapsed = [id \in Ids |-> 0] /\ times = [id \in Ids |-> 0]
    /\ calls = [id \in Ids |-> 0]
    /\ removed = {} /\ stopped = {}
    /\ calling = 0 /\ crashed = FALSE
    /\ owed = [id \in Ids |-> 0] /\ late = [id \in Ids |-> 0]

-----------------------------------------------------------------------------
(* Where a timer belongs                                                   *)

\* The slot of far wheel l that tick or index x stands in.
Digit(x, l) == (x \div Span[l - 1]) % Far

\* Places: <<0, s>> is slot s of nearFuture, <<l, s>> slot s of far[l].
Spots == {0} \X (0..Near - 1) \cup Lvls \X (0..Far - 1)

\* Mutated form: a timer that is a whole turn of nearFuture away stays near.
InsertPlaceNear(n, x) ==
    IF n <= Near THEN {<<0, x % Near>>}
    ELSE LET fits == {l \in Lvls : n \div Span[l - 1] < Far}
         IN {<<l, Digit(x, l)>> : l \in {m \in fits : \A k \in fits : m <= k}}

\* insert(): near when the interval is short, else the first far wheel whose
\* turn is longer than the interval, else nowhere.
InsertPlace(n, x) ==
    IF n < Near THEN {<<0, x % Near>>}
    ELSE LET fits == {l \in Lvls : n \div Span[l - 1] < Far}
         IN {<<l, Digit(x, l)>> : l \in {m \in fits : \A k \in fits : m <= k}}

\* Mutated form: a zero digit is stored in the wheel of its level.
MovePlaceZero(x, level) ==
    IF level = 0 THEN <<0, x % Near>> ELSE <<level, Digit(x, level)>>

\* move(): the highest wheel up to level in which the digit of the index is
\* not zero, else near.
MovePlace(x, level) ==
    LET nonzero == {l \in 1..level : Digit(x, l) # 0}
    IN IF nonzero = {} THEN <<0, x % Near>>
       ELSE <<Max(nonzero), Digit(x, Max(nonzero))>>

\* place[id]: the places to which id is added.
PutNear(nr, place) ==
    [s \in 0..Near - 1 |-> nr[s] \cup {id \in DOMAIN place : <<0, s>> \in place[id]}]
PutFar(fr, place) ==
    [l \in Lvls |-> [s \in 0..Far - 1 |->
        fr[l][s] \cup {id \in DOMAIN place : <<l, s>> \in place[id]}]]

-----------------------------------------------------------------------------
(* Business threads                                                        *)

Running == ~isExit /\ ~crashed

\* No update() is under way.
UpdateIdle == calling = 0 /\ \A id \in Ids : callList[id] = 0

\* Of each timer: the call whose callback update() has found already, and with
\* those of the two lists the calls that are on their way.
Checked(id)  == IF calling = id THEN 1 ELSE 0
OnItsWay(id) == callList[id] + dispatchList[id] + Checked(id)

\* addTimeCall with a callback; it returns 0 and does nothing when the guard
\* on n and t fails.
AddTimeCall(n, t) ==
    /\ Running /\ lastID < MaxTimers
    /\ t # 0 /\ (t = 1 \/ n >= 1)
    /\ LET id == lastID + 1
           x  == (tick + n) % Turn
           p  == [i \in {id} |-> InsertPlace(n, x)]
       IN /\ lastID' = id
          /\ near' = PutNear(near, p) /\ far' = PutFar(far, p)
          /\ index' = [index EXCEPT ![id] = x]
          /\ scheduleList' = scheduleList \cup {id}
          /\ remainTimes' = [remainTimes EXCEPT ![id] = t]
          /\ interval' = [interval EXCEPT ![id] = n]
          /\ callback' = [callback EXCEPT ![id] = TRUE]
          /\ elapsed' = [elapsed EXCEPT ![id] = 0]
          /\ times' = [times EXCEPT ![id] = t]
    /\ UNCHANGED <<tick, dispatchList, updating, timerPc, isExit, calls, removed,
                   stopped, owed, late>>

\* Mutated form: the callback is not reset, only the schedule is ended.
RemoveKeepCallback(id) ==
    /\ Running /\ id <= lastID /\ id \notin removed
    /\ removed' = removed \cup {id}
    /\ IF id \in scheduleList
       THEN /\ remainTimes' = [remainTimes EXCEPT ![id] = 0]
            /\ scheduleList' = scheduleList \ {id}
            /\ stopped' = stopped \cup {id}
            /\ owed' = [owed EXCEPT ![id] = Checked(id)]
       ELSE /\ owed' = [owed EXCEPT ![id] = OnItsWay(id)]
            /\ UNCHANGED <<remainTimes, scheduleList, stopped>>
    /\ UNCHANGED <<tick, lastID, wheel, interval, callback, dispatchList, updating,
                   timerPc, isExit, elapsed, times, calls, late>>

\* remove(), under addMtx, which update() does not take.  While calling = id
\* only another thread is here: between the check of a callback and its call
\* the thread of update() runs none of its own code.  A timer whose last call
\* is in dispatchList already is not found.
Remove(id) ==
    /\ Running /\ id <= lastID /\ id \notin removed
    /\ removed' = removed \cup {id}
    /\ IF id \in scheduleList
       THEN /\ remainTimes' = [remainTimes EXCEPT ![id] = 0]
            /\ callback' = [callback EXCEPT ![id] = FALSE]
            /\ scheduleList' = scheduleList \ {id}
            /\ stopped' = stopped \cup {id}
            /\ elapsed' = [elapsed EXCEPT ![id] = 0]
            /\ owed' = [owed EXCEPT ![id] = Checked(id)]
       ELSE /\ owed' = [owed EXCEPT ![id] = OnItsWay(id)]
            /\ UNCHANGED <<remainTimes, callback, scheduleList, stopped, elapsed>>
    /\ UNCHANGED <<tick, lastID, wheel, interval, dispatchList, updating, timerPc,
                   isExit, times, calls, late>>

\* ~Timer: the timer thread leaves its loop, update() is called no more.
Destroy ==
    /\ Running /\ UpdateIdle /\ isExit' = TRUE
    /\ UNCHANGED <<tick, lastID, wheel, scheduleList, fields, dispatchList,
                   updating, timerPc, histories>>

-----------------------------------------------------------------------------
(* The timer thread                                                        *)

\* while (!isExit); at least one tick of time has gone by.
Wake ==
    /\ timerPc = "sleep"
    /\ timerPc' = IF isExit THEN "exited" ELSE "dispatch"
    /\ UNCHANGED <<tick, lastID, wheel, scheduleList, fields, dispatchList,
                   updating, isExit, histories>>

\* The timers of the current slot that have a call left.
Due == {id \in near[tick % Near] : remainTimes[id] # 0}

\* Mutated form: the last call is not counted.
AfterCallKeepsLast(id) ==
    IF remainTimes[id] \in {-1, 1} THEN remainTimes[id] ELSE remainTimes[id] - 1

\* remainTimes once the call is counted, -1 for ever, and the timers that
\* then have another call to come.
AfterCall(id) == IF remainTimes[id] = -1 THEN -1 ELSE remainTimes[id] - 1
Again == {id \in Due : AfterCall(id) = -1 \/ AfterCall(id) > 0}

\* dispatch() of one slot, under addMtx and dispatchMtx.
Dispatch ==
    /\ timerPc = "dispatch"
    /\ LET slot  == tick % Near
           x(id) == (tick + interval[id]) % Turn
           p     == [id \in Again |-> InsertPlace(interval[id], x(id))]
       IN /\ near' = [PutNear(near, p) EXCEPT ![slot] = {}]
          /\ far' = PutFar(far, p)
          /\ index' = [id \in Ids |-> IF id \in Again THEN x(id) ELSE index[id]]
          /\ elapsed' = [id \in Ids |-> IF id \in Due THEN 0 ELSE elapsed[id]]
          /\ remainTimes' = [id \in Ids |->
                IF id \in Due THEN AfterCall(id) ELSE remainTimes[id]]
          /\ dispatchList' = [id \in Ids |->
                IF id \in Due /\ (times[id] # -1 \/ dispatchList[id] < MaxLag)
                THEN dispatchList[id] + 1 ELSE dispatchList[id]]
          /\ scheduleList' = scheduleList \ (Due \ Again)
    /\ timerPc' = "tick"
    /\ UNCHANGED <<tick, lastID, interval, callback, updating, isExit, times,
                   calls, removed, stopped, owed, late>>

\* The uint32_t counter wraps at one turn of all the wheels.
NextTick == (tick + 1) % Turn

\* ++tick, with no lock held.  elapsed counts for the timers in the wheel, and
\* stops at a value that is late already.
Tick ==
    /\ timerPc = "tick"
    /\ tick' = NextTick
    /\ elapsed' = [id \in Ids |->
            IF /\ id \in scheduleList /\ interval[id] < Turn
               /\ elapsed[id] <= interval[id] + Near
            THEN elapsed[id] + 1 ELSE elapsed[id]]
    /\ timerPc' = "expand"
    /\ UNCHANGED <<lastID, wheel, scheduleList, fields, dispatchList, updating,
                   isExit, times, calls, removed, stopped, owed, late>>

\* Mutated form: the carry goes on through every wheel.
ExpandedAll == IF tick % Near = 0 THEN Lvls ELSE {}

\* Mutated form: the carry stops after the first wheel.
ExpandedFirst == IF tick % Near = 0 THEN {1} ELSE {}

\* The far wheels whose current slot expand() empties: each one is reached
\* when all the wheels below it are at slot 0.
Expanded ==
    IF tick % Near # 0 THEN {}
    ELSE {l \in Lvls : \A k \in 1..l - 1 : Digit(tick, k) = 0}

\* expand(), and the next tick of this round or the end of the round.
Expand ==
    /\ timerPc = "expand"
    /\ LET moved == UNION {far[l][Digit(tick, l)] : l \in Expanded}
           p == [id \in moved |->
                    {MovePlace(index[id], l - 1) :
                        l \in {m \in Expanded : id \in far[m][Digit(tick, m)]}}]
           cleared == [l \in Lvls |-> [s \in 0..Far - 1 |->
                          IF l \in Expanded /\ s = Digit(tick, l)
                          THEN {} ELSE far[l][s]]]
       IN near' = PutNear(near, p) /\ far' = PutFar(cleared, p)
    /\ timerPc' \in {"dispatch", "sleep"}
    /\ UNCHANGED <<tick, lastID, index, scheduleList, fields, dispatchList,
                   updating, isExit, histories>>

-----------------------------------------------------------------------------
(* update()                                                                *)

Update ==
    /\ Running /\ UpdateIdle
    /\ callList' = dispatchList
    /\ dispatchList' = [id \in Ids |-> 0]
    /\ UNCHANGED <<tick, lastID, wheel, scheduleList, fields, calling, crashed,
                   timerPc, isExit, histories>>

\* if (item->callback), for one item of the list, with no lock held.
Check(id) ==
    /\ calling = 0 /\ callList[id] > 0
    /\ callList' = [callList EXCEPT ![id] = @ - 1]
    /\ calling' = IF callback[id] THEN id ELSE 0
    /\ UNCHANGED <<tick, lastID, wheel, scheduleList, fields, dispatchList, crashed,
                   timerPc, isExit, histories>>

\* item->callback().  When another thread has reset the callback meanwhile,
\* with no order between the two, the function may still be called...
Call(id) ==
    /\ calling = id /\ ~crashed
    /\ calling' = 0
    /\ calls' = IF times[id] # -1 THEN [calls EXCEPT ![id] = @ + 1] ELSE calls
    /\ late' = IF id \in removed THEN [late EXCEPT ![id] = @ + 1] ELSE late
    /\ UNCHANGED <<tick, lastID, wheel, scheduleList, fields, dispatchList, callList,
                   crashed, timerPc, isExit, elapsed, times, removed, stopped, owed>>

\* ... or the empty std::function throws bad_function_call, which leaves
\* update() and is caught nowhere.
CallEmpty(id) ==
    /\ calling = id /\ ~crashed /\ ~callback[id]
    /\ crashed' = TRUE
    /\ UNCHANGED <<tick, lastID, wheel, scheduleList, fields, dispatchList, callList,
                   calling, timerPc, isExit, histories>>

-----------------------------------------------------------------------------
TimerThread == ~crashed /\ (Wake \/ Dispatch \/ Tick \/ Expand)
Calls       == \E id \in Ids : Check(id) \/ Call(id) \/ CallEmpty(id)
Terminated  == (timerPc = "exited" \/ crashed) /\ UNCHANGED vars

Next == \/ TimerThread \/ Update \/ Calls \/ Destroy \/ Terminated
        \/ \E n \in Intervals, t \in Times : AddTimeCall(n, t)
        \/ \E id \in Ids : Remove(id)

\* The timer thread is scheduled and the business thread goes on calling
\* update() and returns from the callbacks.
Spec     == Init /\ [][Next]_vars
FairSpec == Spec /\ WF_vars(TimerThread) /\ WF_vars(Update) /\ WF_vars(Calls)

-----------------------------------------------------------------------------
(* Properties                                                              *)

Places(id) ==
    {p \in Spots : IF p[1] = 0 THEN id \in near[p[2]] ELSE id \in far[p[1]][p[2]]}

\* Every timer that is scheduled and no longer than a turn stands in exactly
\* one slot of one wheel, so no carry loses it or fires it twice.
InOneSlot ==
    \A id \in scheduleList :
        \E p \in Spots :
            Places(id) = IF interval[id] < Turn THEN {p} ELSE {}

\* No timer is late: one with an interval of at least a tick is dispatched
\* before more ticks than its interval go by, whatever wheels it travels
\* through and wherever tick wraps; one with an interval of 0, which may be
\* added to a slot that has just been dispatched, within a turn of near.
NeverLate ==
    \A id \in scheduleList :
        elapsed[id] <= IF interval[id] = 0 THEN Near ELSE interval[id]

\* No timer is early either.
NeverEarly ==
    [][\A id \in Ids :
          dispatchList'[id] > dispatchList[id] =>
              \/ elapsed[id] = interval[id]
              \/ interval[id] = 0 /\ elapsed[id] = Near]_vars

\* The calls made, the calls on their way and the calls left of a timer are
\* together what addTimeCall was asked for, until the timer is removed.
CallsConserved ==
    \A id \in 1..lastID :
        id \notin stopped /\ times[id] > 0 =>
            times[id] = calls[id] + OnItsWay(id) + remainTimes[id]

\* Once remove(id) has returned, no further call is begun, of a timer with
\* finite times or without end, but for those it came too late for: of a timer
\* it found, the one call whose callback update() had checked already, and so
\* none when it ran in the thread of update(); of a timer it did not find, the
\* calls that were on their way.  The program calls an empty function only in
\* place of such a call.
RemoveStops ==
    /\ \A id \in removed : late[id] <= owed[id]
    /\ crashed => calling \in removed /\ late[calling] < owed[calling]

\* A timer is called in the end, unless it is removed, the Timer is destroyed or
\* the call of an empty function ends the program.
Fires ==
    \A id \in Ids :
        id \in scheduleList /\ interval[id] < Turn
            ~> callList[id] > 0 \/ id \in removed \/ isExit \/ crashed
=============================================================================
