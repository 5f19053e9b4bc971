----------------------------- MODULE Sonyflake ------------------------------
(***************************************************************************)
(* Sonyflake (wsCore): ids made of a time, a machine's number and a        *)
(* sequence number of eight bits within one tick of 10 ms.                 *)
(*                                                                         *)
(* The clock is steady: it only goes on, at any speed, also between two    *)
(* steps of nextId.  It counts ticks: the milliseconds of getCurrentTime   *)
(* are only ever divided by 10 or compared with a multiple of 10.  The     *)
(* class asks its users to lock it, so that nextId is called by one thread *)
(* at a time.  Times are below 2^40 ticks, for which the shift has room.   *)
(***************************************************************************)
EXTENDS Integers, Sequences

CONSTANTS MachineIds,  \* the machine numbers in use
          MaxTick,     \* bound: the clock stops here
          MaxIds       \* bound: the ids that are asked for

VARIABLES
    clock,             \* getCurrentTime() / 10
    lastTick, sequence, machineId,
    waiting,           \* nextId is in waitNextTick
    ids                \* history: what nextId has returned, and of what it is made

vars == <<clock, lastTick, sequence, machineId, waiting, ids>>

SequenceSize == 256
MachineSize  == 65536

\* (lastTick << 24) | (machineId << 8) | sequence
Id(tick, machine, seq) == (tick * MachineSize + machine) * SequenceSize + seq

Made(tick, seq) == [tick |-> tick, machine |-> machineId, seq |-> seq,
                    id |-> Id(tick, machineId, seq)]

Init == /\ clock \in 0..MaxTick /\ machineId \in MachineIds
        /\ lastTick = 0 /\ sequence = 0 /\ waiting = FALSE /\ ids = <<>>

ClockGoesOn == /\ clock < MaxTick /\ clock' \in clock + 1..MaxTick
               /\ UNCHANGED <<lastTick, sequence, machineId, waiting, ids>>

\* nextId() returns.
Return(tick, seq) ==
    /\ lastTick' = tick /\ sequence' = seq /\ waiting' = FALSE
    /\ ids' = Append(ids, Made(tick, seq))
    /\ UNCHANGED <<clock, machineId>>

MayCall == ~waiting /\ Len(ids) < MaxIds

\* The first id of a tick.
NewTick == MayCall /\ clock # lastTick /\ Return(clock, 0)

\* Another one of the same tick.
SameTick == /\ MayCall /\ clock = lastTick /\ sequence + 1 < SequenceSize
            /\ Return(clock, sequence + 1)

\* The sequence number overflows, and the next tick is waited for.
Overflow == /\ MayCall /\ clock = lastTick /\ sequence + 1 = SequenceSize
            /\ sequence' = 0 /\ waiting' = TRUE
            /\ UNCHANGED <<clock, lastTick, machineId, ids>>

waitNextTick == waiting /\ clock >= lastTick + 1 /\ Return(clock, sequence)

SetMachineId == /\ ~waiting /\ machineId' \in MachineIds
                /\ UNCHANGED <<clock, lastTick, sequence, waiting, ids>>

Next == \/ ClockGoesOn \/ NewTick \/ SameTick \/ Overflow \/ waitNextTick
        \/ SetMachineId

Spec == Init /\ [][Next]_vars

-----------------------------------------------------------------------------
(* Properties                                                              *)

\* No two ids are equal, although the sequence number wraps within a tick and
\* the machine's number may be changed between two calls.
Unique == \A i, j \in 1..Len(ids) : i < j => ids[i].id # ids[j].id

\* An id is greater than every id before it with the same machine number.
Ascending ==
    \A i, j \in 1..Len(ids) :
        i < j /\ ids[i].machine = ids[j].machine => ids[i].id < ids[j].id
=============================================================================
