--------------------------- MODULE EventDispatcher ---------------------------
(***************************************************************************)
(* EventDispatcher (wsCore): the listeners of one type of event, which may *)
(* be registered, removed and called from within their callbacks.          *)
(*                                                                         *)
(* once and addEventListener change priorities in place, so that the       *)
(* std::set may be out of order; what a search by key then finds depends   *)
(* on the shape of its tree.  The model is of at most two listeners, whose *)
(* tree is a root and perhaps one child.                                   *)
(***************************************************************************)
EXTENDS Functions, Sequences, Integers

CONSTANTS
    Callbacks,   \* two numbers at most, which stand for the pointers
    Priorities,  \* integers
    MaxDepth     \* bound: dispatches within each other

VARIABLES
    listeners,   \* the set: entries [callback, priority, once], root first
    leftChild,   \* the second entry is the left child of the root
    frames,      \* the dispatches that are running, innermost first: each the
                 \* rest of cbList, whose head is being called if calling
    owed         \* history: the callbacks that were registered, without those
                 \* that were called once since and had asked for one call

set == <<listeners, leftChild>>
vars == <<set, frames, owed>>

Init == listeners = <<>> /\ leftChild = FALSE /\ frames = <<>> /\ owed = {}

-----------------------------------------------------------------------------
(* The set                                                                 *)

\* operator< of CallbackType: higher priorities come first.
Before(a, b) ==
    IF a.priority = b.priority THEN a.callback < b.callback
    ELSE a.priority > b.priority

\* The set in the order of its iteration.
InOrder ==
    IF Len(listeners) = 2 /\ leftChild THEN <<listeners[2], listeners[1]>>
    ELSE listeners

\* set.insert of a callback that is not in the set.
Insert(e) ==
    /\ listeners' = Append(listeners, e)
    /\ leftChild' = (listeners # <<>> /\ Before(e, listeners[1]))

Equal(a, b) == ~Before(a, b) /\ ~Before(b, a)

\* The entries in set.equal_range(e), which set.erase(e) erases: the search
\* goes down from the root, to the left when e is before an entry and to the
\* right when it is after; from an equal root the range extends to a child
\* that is not properly before or after e.
EqualRange(e) ==
    LET root  == listeners[1]
        child == listeners[2]
    IN  IF listeners = <<>> THEN {}
        ELSE IF Equal(e, root)
        THEN {root} \cup {c \in {listeners[i] : i \in 2..Len(listeners)} :
                            IF leftChild THEN ~Before(c, e) ELSE ~Before(e, c)}
        ELSE IF Len(listeners) = 2 /\ leftChild = Before(e, root) /\ Equal(e, child)
        THEN {child} ELSE {}

Erase(entries) ==
    /\ listeners' = SelectSeq(listeners, LAMBDA o : o \notin entries)
    /\ UNCHANGED leftChild

-----------------------------------------------------------------------------
(* The operations, called from outside or by the callback that is called   *)

MayAct == frames # <<>> => frames[1].calling

\* once() and addEventListener(): a callback that is registered has its
\* entry changed where it is.
AddListener(cb, prio, isOnce) ==
    LET e == [callback |-> cb, priority |-> prio, once |-> isOnce]
    IN  /\ MayAct
        /\ IF \E o \in Range(listeners) : o.callback = cb
           THEN /\ listeners' = [i \in DOMAIN listeners |->
                                    IF listeners[i].callback = cb THEN e ELSE listeners[i]]
                /\ UNCHANGED leftChild
           ELSE Insert(e)
        /\ owed' = owed \cup {cb}
        /\ UNCHANGED frames

RemoveEventListener(cb) ==
    /\ MayAct /\ \E o \in Range(listeners) : o.callback = cb
    /\ Erase({o \in Range(listeners) : o.callback = cb})
    /\ UNCHANGED <<frames, owed>>

DispatchEvent ==
    /\ MayAct /\ Len(frames) < MaxDepth
    /\ frames' = <<[cbList |-> InOrder, calling |-> FALSE]>> \o frames
    /\ UNCHANGED <<set, owed>>

-----------------------------------------------------------------------------
(* The steps of the innermost dispatch                                     *)

Called == frames[1].cbList[1]

Call ==
    /\ frames # <<>> /\ ~frames[1].calling /\ frames[1].cbList # <<>>
    /\ frames' = [frames EXCEPT ![1].calling = TRUE]
    /\ owed' = IF Called.once THEN owed \ {Called.callback} ELSE owed
    /\ UNCHANGED set

\* The callback returns; its entry is erased if the copy says once.
Returns ==
    /\ frames # <<>> /\ frames[1].calling
    /\ Erase(IF Called.once THEN EqualRange(Called) ELSE {})
    /\ frames' = [frames EXCEPT ![1] = [cbList |-> Tail(@.cbList), calling |-> FALSE]]
    /\ UNCHANGED owed

DispatchReturns ==
    /\ frames # <<>> /\ frames[1].cbList = <<>>
    /\ frames' = Tail(frames)
    /\ UNCHANGED <<set, owed>>

-----------------------------------------------------------------------------
Next ==
    \/ \E cb \in Callbacks :
            \/ \E prio \in Priorities, isOnce \in BOOLEAN : AddListener(cb, prio, isOnce)
            \/ RemoveEventListener(cb)
    \/ DispatchEvent \/ Call \/ Returns \/ DispatchReturns

Spec == Init /\ [][Next]_vars

-----------------------------------------------------------------------------
(* Properties                                                              *)

\* A listener that once() registered is not called again, after it was called
\* and until it is registered again.
OnceCalledOnce ==
    [][Call => Called.callback \in owed]_vars
=============================================================================
