------------------------------- MODULE EpochLoop -------------------------------
(***************************************************************************)
(* The clockwork of the settlement worker (settlement/mod.rs): two         *)
(* countdowns, one for TEE ticks and one for epochs, a single sleep to the *)
(* nearer of them, and the epoch batches written to the store.  What a     *)
(* tick does on chain is NodeSettlement.                                   *)
(***************************************************************************)
EXTENDS Integers, FiniteSets

CONSTANTS
    LoopConfigs,            \* [teeTickSecs, epochSecs] the node may run under
    MaxSlept,               \* bound: seconds slept by one process
    MaxBoots                \* bound: starts of the process

ASSUME LoopAssumption ==
    /\ LoopConfigs \subseteq [teeTickSecs : Nat, epochSecs : Nat]
    /\ MaxSlept \in Nat
    /\ MaxBoots \in Nat

VARIABLES
    loopConfig,
    loop,                   \* the running loop, or NoLoop
    boots,                  \* history: loops started so far
    epochs                  \* the store's epochs tree: [epoch id -> its batch]

loopVars == <<loopConfig, loop, boots, epochs>>

NoLoop == [on |-> FALSE]
AtLeastOne(n) == IF n > 1 THEN n ELSE 1
TeeEvery == AtLeastOne(loopConfig.teeTickSecs)
EpochEvery == AtLeastOne(loopConfig.epochSecs)
Least(a, b) == IF a < b THEN a ELSE b

LoopInit ==
    /\ loopConfig \in LoopConfigs
    /\ loop = NoLoop
    /\ boots = 0
    /\ epochs = [id \in {} |-> 0]

\* run_epoch_loop is spawned: the epoch numbers start over.
LoopStarts ==
    /\ loop = NoLoop
    /\ boots < MaxBoots
    /\ boots' = boots + 1
    /\ loop' = [on |-> TRUE, teeRemain |-> TeeEvery, epochRemain |-> EpochEvery, epochId |-> 0,
                slept |-> 0, teeTicks |-> 0]
    /\ UNCHANGED <<loopConfig, epochs>>

\* save_epoch inserts under the epoch id.  A batch is known by the process that wrote
\* it and when.
SaveEpoch(id, at) ==
    [i \in DOMAIN epochs \cup {id} |-> IF i = id THEN [boot |-> boots, at |-> at] ELSE epochs[i]]

\* Mutant: both countdowns start over when one of them fires.
WakeResetsBoth ==
    /\ loop.on
    /\ LET secs == Least(loop.teeRemain, loop.epochRemain)
           epochNow == loop.epochRemain = secs
       IN  /\ loop.slept + secs <= MaxSlept
           /\ loop' = [loop EXCEPT !.teeRemain = TeeEvery, !.epochRemain = EpochEvery,
                                   !.epochId = @ + (IF epochNow THEN 1 ELSE 0),
                                   !.teeTicks = @ + (IF loop.teeRemain = secs THEN 1 ELSE 0),
                                   !.slept = @ + secs]
           /\ epochs' = IF epochNow THEN SaveEpoch(loop'.epochId, loop'.slept) ELSE epochs
    /\ UNCHANGED <<loopConfig, boots>>

\* One turn of the loop: sleep, count down, fire what has reached zero.
Wake ==
    /\ loop.on
    /\ LET secs == Least(loop.teeRemain, loop.epochRemain)
           teeNow == loop.teeRemain = secs
           epochNow == loop.epochRemain = secs
       IN  /\ loop.slept + secs <= MaxSlept
           /\ loop' = [on |-> TRUE,
                       teeRemain |-> IF teeNow THEN TeeEvery ELSE loop.teeRemain - secs,
                       epochRemain |-> IF epochNow THEN EpochEvery ELSE loop.epochRemain - secs,
                       epochId |-> loop.epochId + (IF epochNow THEN 1 ELSE 0),
                       slept |-> loop.slept + secs,
                       teeTicks |-> loop.teeTicks + (IF teeNow THEN 1 ELSE 0)]
           /\ epochs' = IF epochNow THEN SaveEpoch(loop'.epochId, loop'.slept) ELSE epochs
    /\ UNCHANGED <<loopConfig, boots>>

LoopStops ==
    /\ loop' = NoLoop
    /\ UNCHANGED <<loopConfig, boots, epochs>>

-------------------------------------------------------------------------------
\* Sleeping to the nearer countdown neither drops nor repeats a tick of the other:
\* whatever the two periods (zero included), after s seconds of sleep each has fired
\* as often as it divides s.  The store then has this process's batches, each under its
\* own number, and above them only what an earlier process wrote: its batches with the
\* same numbers are gone, for every process counts from one again.
BatchesOnSchedule ==
    loop.on => /\ loop.teeTicks = loop.slept \div TeeEvery
               /\ loop.epochId = loop.slept \div EpochEvery
               /\ \A id \in 1..loop.epochId :
                      id \in DOMAIN epochs /\ epochs[id] = [boot |-> boots, at |-> id * EpochEvery]
               /\ \A id \in DOMAIN epochs \ 1..loop.epochId : epochs[id].boot < boots
===============================================================================
