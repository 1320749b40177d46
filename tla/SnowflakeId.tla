----------------------------- MODULE SnowflakeId -----------------------------
(***************************************************************************)
(* SnowflakeIDGenerator: the ids of users and groups, made from the clock  *)
(* and a sequence number under one mutex, then cut to eight digits.        *)
(*                                                                         *)
(* A stamp <<ts, seq>> is what an id is made from.  Generating one is a    *)
(* single step unless the sequence of the millisecond is used up: then the *)
(* mutex is kept while the clock is polled, and the clock is read again    *)
(* after the poll.  The generator is created anew with the process, so a   *)
(* restart forgets the last timestamp.                                     *)
(***************************************************************************)
EXTENDS Integers, Sequences

CONSTANTS
    Thread,        \* the worker threads
    MaxSequence,   \* MAX_SEQUENCE, 4095 in the code
    Weight,        \* 2^TIMESTAMP_SHIFT: what a millisecond adds to an id
    Node,          \* the data-center and machine bits
    Modulus,       \* 100000000 in the code
    Window,        \* stamps this many milliseconds apart make distinct ids
    MaxClock,      \* bound: the clock when nobody waits for it
    MaxCalls,      \* bound: calls of generate_id
    MaxSetBacks,   \* bound: times the clock is set back
    MaxCrashes     \* bound: times the process dies for other reasons

ASSUME SequenceAssumption == MaxSequence \in Nat
ASSUME IdAssumption ==
    /\ Weight \in Nat /\ Node \in Nat /\ Modulus \in Nat \ {0}
    /\ Node + MaxSequence < Weight
ASSUME WindowAssumption ==
    /\ Window \in Nat
    /\ \A d \in 0..Window, s \in -MaxSequence..MaxSequence :
          d * Weight + s > 0 => (d * Weight + s) % Modulus # 0
ASSUME BoundAssumption ==
    MaxClock \in Nat /\ MaxCalls \in Nat /\ MaxSetBacks \in Nat /\ MaxCrashes \in Nat

VARIABLES
    clock,      \* system_clock, in milliseconds since EPOCH
    last,       \* last_timestamp_; 0 when the process starts
    sequence,   \* sequence_
    pc,         \* "idle", "call" (about to lock), "wait", "reread"
    up,         \* the process runs
    issued,     \* the stamps of the ids handed out, in order, by every process
    calls, setBacks, crashes

vars == <<clock, last, sequence, pc, up, issued, calls, setBacks, crashes>>

Stamp == [ts : Nat, seq : 0..MaxSequence]

TypeOK ==
    /\ clock \in Nat /\ last \in Nat
    /\ sequence \in 0..MaxSequence
    /\ pc \in [Thread -> {"idle", "call", "wait", "reread"}]
    /\ up \in BOOLEAN
    /\ issued \in Seq(Stamp)
    /\ calls \in 0..MaxCalls /\ setBacks \in 0..MaxSetBacks
    /\ crashes \in 0..MaxCrashes

Init ==
    /\ clock = 1 /\ last = 0 /\ sequence = 0
    /\ pc = [t \in Thread |-> "idle"]
    /\ up = TRUE
    /\ issued = <<>>
    /\ calls = 0 /\ setBacks = 0 /\ crashes = 0

------------------------------------------------------------------------------
\* The fields do not overlap, so | is +; the result is cut to eight digits.
Id(e) == (e.ts * Weight + Node + e.seq) % Modulus

Waiting(t) == pc[t] = "wait"
Locked == \E t \in Thread : pc[t] \in {"wait", "reread"}

NextSequence(s) == (s + 1) % (MaxSequence + 1)

WrapsNever(s) == FALSE     \* Mutant: a wrapped sequence does not wait.
Wraps(s) == NextSequence(s) = 0

\* wait_next_millis returns once the clock is past the last timestamp.
OverAtLast == clock >= last   \* Mutants: the comparison off by one,
OverBefore == clock < last    \* or turned round.
WaitIsOver == clock > last

Issue(t, s) ==
    /\ issued' = Append(issued, [ts |-> clock, seq |-> s])
    /\ last' = clock
    /\ sequence' = s
    /\ pc' = [pc EXCEPT ![t] = "idle"]

\* A handler asks for the id of a new user or group.
Call(t) ==
    /\ up /\ pc[t] = "idle"
    /\ calls < MaxCalls /\ calls' = calls + 1
    /\ pc' = [pc EXCEPT ![t] = "call"]
    /\ UNCHANGED <<clock, last, sequence, up, issued, setBacks, crashes>>

\* generate_id, from taking the mutex to releasing it.
Generate(t) ==
    /\ up /\ pc[t] = "call" /\ ~Locked
    /\ \/ clock > last /\ Issue(t, 0)
       \/ clock = last /\ ~Wraps(sequence) /\ Issue(t, NextSequence(sequence))
    /\ UNCHANGED <<clock, up, calls, setBacks, crashes>>

\* The sequence of this millisecond is used up: wait, holding the mutex.
Exhaust(t) ==
    /\ up /\ pc[t] = "call" /\ ~Locked
    /\ clock = last /\ Wraps(sequence)
    /\ sequence' = NextSequence(sequence)
    /\ pc' = [pc EXCEPT ![t] = "wait"]
    /\ UNCHANGED <<clock, last, up, issued, calls, setBacks, crashes>>

\* The polls of the clock, a millisecond apart ...
Poll(t) == up /\ Waiting(t) /\ ~WaitIsOver /\ UNCHANGED vars

\* ... and the one that ends the wait.
WaitOver(t) ==
    /\ up /\ Waiting(t) /\ WaitIsOver
    /\ pc' = [pc EXCEPT ![t] = "reread"]
    /\ UNCHANGED <<clock, last, sequence, up, issued, calls, setBacks, crashes>>

\* The clock is read once more for the timestamp, and not compared again.
Reread(t) ==
    /\ up /\ pc[t] = "reread"
    /\ Issue(t, sequence)
    /\ UNCHANGED <<clock, up, calls, setBacks, crashes>>

Stop ==
    /\ up' = FALSE
    /\ pc' = [t \in Thread |-> "idle"]
    /\ UNCHANGED <<clock, last, sequence, issued, calls, setBacks>>

\* "Clock moved backwards": no handler catches it.
Throw(t) ==
    /\ up /\ pc[t] = "call" /\ ~Locked
    /\ clock < last
    /\ Stop
    /\ UNCHANGED crashes

\* The process dies of something else.
Crash == up /\ crashes < MaxCrashes /\ crashes' = crashes + 1 /\ Stop

\* A new process has a new generator; starting it takes longer than a
\* millisecond.
Restart ==
    /\ ~up
    /\ up' = TRUE
    /\ clock' = clock + 1
    /\ last' = 0 /\ sequence' = 0
    /\ UNCHANGED <<pc, issued, calls, setBacks, crashes>>

\* The clock of the machine.
Tick ==
    /\ clock < MaxClock \/ (clock <= last /\ \E t \in Thread : Waiting(t))
    /\ clock' = clock + 1
    /\ UNCHANGED <<last, sequence, pc, up, issued, calls, setBacks, crashes>>

SetBack ==
    /\ setBacks < MaxSetBacks /\ setBacks' = setBacks + 1
    /\ clock' \in 1..clock - 1
    /\ UNCHANGED <<last, sequence, pc, up, issued, calls, crashes>>

\* Nothing is left to do within the bounds.
Rest ==
    /\ up /\ calls = MaxCalls /\ clock >= MaxClock
    /\ \A t \in Thread : pc[t] = "idle"
    /\ UNCHANGED vars

Work(t) == Generate(t) \/ Exhaust(t) \/ WaitOver(t) \/ Reread(t) \/ Throw(t)

Next ==
    \/ \E t \in Thread : Call(t) \/ Work(t) \/ Poll(t)
    \/ Crash \/ Restart \/ Tick \/ SetBack \/ Rest

Spec == Init /\ [][Next]_vars

\* Threads run, and time passes.
FairSpec == Spec /\ WF_vars(Tick) /\ \A t \in Thread : SF_vars(Work(t))

------------------------------------------------------------------------------
Before(d, e) == d.ts < e.ts \/ (d.ts = e.ts /\ d.seq < e.seq)

ClockSteady == setBacks = 0

\* While the clock is not set back, the stamps of the ids increase, in the
\* order they are handed out, over all threads, waits and restarts.
StampsIncrease ==
    ClockSteady => \A i, j \in DOMAIN issued :
        i < j => Before(issued[i], issued[j])

\* The eight digits that are left still tell apart the ids of a Window, which
\* is 5125 milliseconds for the constants of the code.
DistinctWithinWindow ==
    ClockSteady => \A i, j \in DOMAIN issued :
        i < j /\ issued[j].ts - issued[i].ts <= Window =>
            Id(issued[i]) # Id(issued[j])

\* Every call returns: nobody waits forever for the mutex or for the clock.
EveryCallReturns == \A t \in Thread : pc[t] = "call" ~> pc[t] = "idle"
==============================================================================
