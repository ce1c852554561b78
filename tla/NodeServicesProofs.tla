-------------------------- MODULE NodeServicesProofs --------------------------
(***************************************************************************)
(* Proofs about the services of the node process, for any configuration,   *)
(* any number of wallet requests and any periods: the contracts a node     *)
(* starts with, the schedule of its epoch batches, the attestation hash it *)
(* shows, and the money its wallet calls move.                             *)
(***************************************************************************)
EXTENDS NodeServices, FiniteSetTheorems, SequenceTheorems, TLAPS

-------------------------------------------------------------------------------
\* The epoch loop.

LoopState ==
    [on : {TRUE}, teeRemain : Nat, epochRemain : Nat, epochId : Nat, slept : Nat, teeTicks : Nat]

\* A countdown that fires every so many seconds: fired so often, it has this much left.
CountsDown(every, fired, remain, slept) ==
    /\ remain > 0
    /\ remain <= every
    /\ slept + remain = (fired + 1) * every

\* The batches this process wrote, and those of earlier ones.
BatchesStored ==
    /\ \A id \in 1..loop.epochId :
           id \in DOMAIN epochs /\ epochs[id] = [boot |-> boots, at |-> id * EpochEvery]
    /\ \A id \in DOMAIN epochs \ 1..loop.epochId : epochs[id].boot < boots

LoopInv ==
    /\ loopConfig \in LoopConfigs
    /\ boots \in Nat
    /\ \A id \in DOMAIN epochs : epochs[id].boot \in Nat /\ epochs[id].boot <= boots
    /\ loop # NoLoop =>
           /\ loop \in LoopState
           /\ CountsDown(TeeEvery, loop.teeTicks, loop.teeRemain, loop.slept)
           /\ CountsDown(EpochEvery, loop.epochId, loop.epochRemain, loop.slept)
           /\ BatchesStored

LEMMA Periods ==
    ASSUME loopConfig \in LoopConfigs
    PROVE  TeeEvery \in Nat \ {0} /\ EpochEvery \in Nat \ {0}
  BY LoopAssumption DEF TeeEvery, EpochEvery, AtLeastOne

\* A countdown goes on, or fires and starts over.
LEMMA CountdownGoesOn ==
    ASSUME NEW every \in Nat \ {0}, NEW fired \in Nat, NEW remain \in Nat, NEW slept \in Nat,
           NEW secs \in Nat, CountsDown(every, fired, remain, slept), secs <= remain
    PROVE  CountsDown(every, fired + (IF remain = secs THEN 1 ELSE 0),
                      IF remain = secs THEN every ELSE remain - secs, slept + secs)
  <1>1. (fired + 2) * every = (fired + 1) * every + every
    OBVIOUS
  <1>2. remain > 0 /\ remain <= every /\ slept + remain = (fired + 1) * every
    BY DEF CountsDown
  <1>3. CASE remain = secs
    BY <1>1, <1>2, <1>3 DEF CountsDown
  <1>4. CASE remain # secs
    BY <1>2, <1>4 DEF CountsDown
  <1> QED
    BY <1>3, <1>4

\* What it has fired is what its period divides.
LEMMA CountdownDivides ==
    ASSUME NEW every \in Nat \ {0}, NEW fired \in Nat, NEW remain \in Nat, NEW slept \in Nat,
           CountsDown(every, fired, remain, slept)
    PROVE  slept \div every = fired
  <1>1. PICK d \in 0..(every - 1) : slept = fired * every + d
    <2>1. (fired + 1) * every = fired * every + every /\ fired * every \in Nat
      OBVIOUS
    <2>2. (every - remain) \in 0..(every - 1) /\ slept = fired * every + (every - remain)
      BY <2>1 DEF CountsDown
    <2> QED
      BY <2>2
  <1> QED
    BY <1>1

LEMMA LoopStarting ==
    ASSUME LoopInv, LoopStarts
    PROVE  LoopInv'
  <1>1. TeeEvery \in Nat \ {0} /\ EpochEvery \in Nat \ {0}
    BY Periods DEF LoopInv
  <1>2. UNCHANGED <<loopConfig, epochs>> /\ boots' = boots + 1 /\ boots \in Nat
    BY DEF LoopStarts, LoopInv
  <1>3. TeeEvery' = TeeEvery /\ EpochEvery' = EpochEvery
    BY <1>2 DEF TeeEvery, EpochEvery
  <1>4. loop' = [on |-> TRUE, teeRemain |-> TeeEvery, epochRemain |-> EpochEvery, epochId |-> 0,
                 slept |-> 0, teeTicks |-> 0]
    BY DEF LoopStarts
  <1>5. /\ loop' \in LoopState /\ loop'.teeRemain = TeeEvery /\ loop'.epochRemain = EpochEvery
        /\ loop'.epochId = 0 /\ loop'.slept = 0 /\ loop'.teeTicks = 0
    BY <1>1, <1>4 DEF LoopState
  <1>6. /\ CountsDown(TeeEvery, 0, TeeEvery, 0)
        /\ CountsDown(EpochEvery, 0, EpochEvery, 0)
    BY <1>1 DEF CountsDown
  <1>7. \A id \in DOMAIN epochs : epochs[id].boot \in Nat /\ epochs[id].boot < boots'
    BY <1>2 DEF LoopInv
  <1>8. BatchesStored'
    BY <1>2, <1>5, <1>7 DEF BatchesStored
  <1> QED
    BY <1>2, <1>3, <1>5, <1>6, <1>7, <1>8 DEF LoopInv, CountsDown

LEMMA LoopWakes ==
    ASSUME LoopInv, Wake
    PROVE  LoopInv'
  <1>1. TeeEvery \in Nat \ {0} /\ EpochEvery \in Nat \ {0}
    BY Periods DEF LoopInv
  <1>2. UNCHANGED <<loopConfig, boots>> /\ loop # NoLoop /\ boots \in Nat
    BY DEF Wake, NoLoop, LoopInv
  <1>3. TeeEvery' = TeeEvery /\ EpochEvery' = EpochEvery
    BY <1>2 DEF TeeEvery, EpochEvery
  <1>4. /\ loop \in LoopState
        /\ CountsDown(TeeEvery, loop.teeTicks, loop.teeRemain, loop.slept)
        /\ CountsDown(EpochEvery, loop.epochId, loop.epochRemain, loop.slept)
        /\ BatchesStored
    BY <1>2 DEF LoopInv
  <1>5. PICK teeRemain \in Nat, epochRemain \in Nat, epochId \in Nat, slept \in Nat, ticks \in Nat :
            /\ teeRemain = loop.teeRemain /\ epochRemain = loop.epochRemain
            /\ epochId = loop.epochId /\ slept = loop.slept /\ ticks = loop.teeTicks
    BY <1>4 DEF LoopState
  <1>6. PICK secs \in Nat : secs = Least(teeRemain, epochRemain)
    BY DEF Least
  <1>7. secs <= teeRemain /\ secs <= epochRemain
    BY <1>6 DEF Least
  <1>8. PICK id \in Nat, tee \in Nat, epoch \in Nat, tick \in Nat, at \in Nat :
            /\ id = epochId + (IF epochRemain = secs THEN 1 ELSE 0)
            /\ tee = IF teeRemain = secs THEN TeeEvery ELSE teeRemain - secs
            /\ epoch = IF epochRemain = secs THEN EpochEvery ELSE epochRemain - secs
            /\ tick = ticks + (IF teeRemain = secs THEN 1 ELSE 0)
            /\ at = slept + secs
    <2>1. /\ epochId + (IF epochRemain = secs THEN 1 ELSE 0) \in Nat
          /\ (IF teeRemain = secs THEN TeeEvery ELSE teeRemain - secs) \in Nat
          /\ (IF epochRemain = secs THEN EpochEvery ELSE epochRemain - secs) \in Nat
          /\ ticks + (IF teeRemain = secs THEN 1 ELSE 0) \in Nat
          /\ slept + secs \in Nat
      BY <1>1, <1>7
    <2> QED
      BY <2>1, Zenon
  <1>9. loop' = [on |-> TRUE, teeRemain |-> tee, epochRemain |-> epoch, epochId |-> id,
                 slept |-> at, teeTicks |-> tick]
    BY <1>5, <1>6, <1>8 DEF Wake
  <1>10. /\ loop' \in LoopState /\ loop'.teeRemain = tee /\ loop'.epochRemain = epoch
         /\ loop'.epochId = id /\ loop'.slept = at /\ loop'.teeTicks = tick
    BY <1>9 DEF LoopState
  <1>11. CountsDown(TeeEvery, tick, tee, at)
    BY <1>1, <1>4, <1>5, <1>7, <1>8, CountdownGoesOn
  <1>12. CountsDown(EpochEvery, id, epoch, at)
    BY <1>1, <1>4, <1>5, <1>7, <1>8, CountdownGoesOn
  <1>13. epochs' = IF epochRemain = secs THEN SaveEpoch(id, at) ELSE epochs
    BY <1>5, <1>6, <1>10 DEF Wake
  <1>14. /\ \A i \in DOMAIN epochs' : epochs'[i].boot \in Nat /\ epochs'[i].boot <= boots'
         /\ BatchesStored'
    <2>1. CASE epochRemain # secs
      BY <1>2, <1>3, <1>4, <1>5, <1>8, <1>10, <1>13, <2>1 DEF BatchesStored, LoopInv
    <2>2. CASE epochRemain = secs
      <3>1. id = epochId + 1 /\ at = id * EpochEvery
        <4>1. slept + epochRemain = (epochId + 1) * EpochEvery
          BY <1>4, <1>5 DEF CountsDown
        <4> QED
          BY <1>8, <2>2, <4>1
      <3>2. /\ DOMAIN epochs' = DOMAIN epochs \cup {id}
            /\ epochs'[id] = [boot |-> boots, at |-> at]
            /\ \A i \in DOMAIN epochs \ {id} : epochs'[i] = epochs[i]
        BY <1>13, <2>2 DEF SaveEpoch
      <3>3. \A i \in 1..id : i = id \/ i \in 1..epochId
        BY <3>1
      <3>4. \A i \in 1..epochId : i # id /\ i \in 1..id
        BY <3>1
      <3>5. \A i \in 1..id :
                i \in DOMAIN epochs' /\ epochs'[i] = [boot |-> boots, at |-> i * EpochEvery]
        BY <1>4, <1>5, <3>1, <3>2, <3>3, <3>4 DEF BatchesStored
      <3>6. \A i \in DOMAIN epochs' \ 1..id : epochs'[i].boot < boots
        <4>1. id \in 1..id
          BY <3>1
        <4>2. \A i \in DOMAIN epochs' \ 1..id : i \in DOMAIN epochs \ 1..epochId /\ i # id
          BY <3>2, <3>4, <4>1
        <4> QED
          BY <1>4, <1>5, <3>2, <4>2 DEF BatchesStored
      <3>7. \A i \in DOMAIN epochs' : epochs'[i].boot \in Nat /\ epochs'[i].boot <= boots
        BY <1>2, <3>2 DEF LoopInv
      <3> QED
        BY <1>2, <1>3, <1>10, <3>5, <3>6, <3>7 DEF BatchesStored
    <2> QED
      BY <2>1, <2>2
  <1> QED
    BY <1>2, <1>3, <1>10, <1>11, <1>12, <1>14 DEF LoopInv

LEMMA LoopImplies ==
    LoopInv => BatchesOnSchedule
  <1> SUFFICES ASSUME LoopInv, loop.on PROVE BatchesOnSchedule
    BY DEF BatchesOnSchedule
  <1>1. loop # NoLoop
    BY DEF NoLoop
  <1>2. /\ loop \in LoopState
        /\ CountsDown(TeeEvery, loop.teeTicks, loop.teeRemain, loop.slept)
        /\ CountsDown(EpochEvery, loop.epochId, loop.epochRemain, loop.slept)
        /\ BatchesStored
    BY <1>1 DEF LoopInv
  <1>3. TeeEvery \in Nat \ {0} /\ EpochEvery \in Nat \ {0}
    BY Periods DEF LoopInv
  <1>4. /\ loop.teeTicks \in Nat /\ loop.epochId \in Nat /\ loop.teeRemain \in Nat
        /\ loop.epochRemain \in Nat /\ loop.slept \in Nat
    BY <1>2 DEF LoopState
  <1>5. loop.slept \div TeeEvery = loop.teeTicks /\ loop.slept \div EpochEvery = loop.epochId
    BY <1>2, <1>3, <1>4, CountdownDivides
  <1> QED
    BY <1>2, <1>5 DEF BatchesOnSchedule, BatchesStored

-------------------------------------------------------------------------------
\* The start.

Addresses == NetworkAddresses \cup {ZeroAddress}

NetworkOK ==
    /\ networkConfig \in Seq([registry : Addresses, escrow : Addresses])
    /\ Len(networkConfig) >= 1

\* The registry, and the escrow no earlier, were the contract's between two versions.
WereCurrent(from, to, registry, escrow) ==
    \E i, j \in from..to :
        /\ i <= j
        /\ registry = networkConfig[i + 1].registry
        /\ escrow = networkConfig[j + 1].escrow

\* The answers so far, against the configuration of the network as it is now.
ReadsInOrder ==
    LET reads == boot.reads
    IN  /\ boot = [at |-> "resolving", reads |-> reads, from |-> boot.from]
        /\ reads \in Seq(Nat)
        /\ boot.from \in Nat /\ boot.from <= Version
        /\ Len(reads) >= 1 => \E e : WereCurrent(boot.from, Version, reads[1], e)
        /\ Len(reads) >= 2 => WereCurrent(boot.from, Version, reads[1], reads[2])
        /\ Len(reads) >= 5 => /\ reads[5] <= Version
                              /\ WereCurrent(boot.from, reads[5], reads[1], reads[2])

UpOK ==
    /\ boot = [at |-> boot.at, registry |-> boot.registry, escrow |-> boot.escrow,
               source |-> boot.source, from |-> boot.from, to |-> boot.to]
    /\ boot.escrow \in Escrows
    /\ boot.source = "chain" => boot.from \in Nat /\ boot.to \in Nat /\ boot.to <= Version

StartInv ==
    /\ layers \in Layers
    /\ NetworkOK
    /\ boot.at = "resolving" => ReadsInOrder /\ Loads
    /\ boot.at \in {"preparing", "serving"} => UpOK
    /\ AddressesResolved

LEMMA ConfiguredSame ==
    ASSUME UNCHANGED layers
    PROVE  Configured' = Configured /\ (Loads' <=> Loads)
  BY DEF Configured, Effective, Loads, Loaded

\* A configuration that loads names an escrow, if only the zero address.
LEMMA ConfiguredEscrow ==
    ASSUME layers \in Layers, Loads
    PROVE  Configured.escrow \in Escrows
  <1>1. /\ layers.cli["escrow"] \in {Unset, ZeroAddress, OwnAddress}
        /\ layers.env["escrow"] \in {Unset, ZeroAddress, OwnAddress}
        /\ layers.file["escrow"] \in {Unset, ZeroAddress, OwnAddress}
        /\ layers.default["escrow"] \in {Unset, ZeroAddress, OwnAddress}
    BY StartAssumption DEF Layer, Settings
  <1>2. Loaded("escrow") \in {ZeroAddress, OwnAddress}
    BY <1>1 DEF Loads, Loaded, FirstSet
  <1>3. Effective("escrow") \in {ZeroAddress, OwnAddress}
    BY <1>1, <1>2 DEF Effective, FirstSet
  <1> QED
    BY <1>3 DEF Configured, Escrows

LEMMA VersionIsNat ==
    ASSUME NetworkOK
    PROVE  Version \in Nat /\ Len(networkConfig) = Version + 1
  BY DEF NetworkOK, Version

LEMMA HistoryTyped ==
    ASSUME NetworkOK, NEW k \in 1..Len(networkConfig)
    PROVE  networkConfig[k].registry \in Addresses /\ networkConfig[k].escrow \in Addresses
  <1>1. PICK T : T = [registry : Addresses, escrow : Addresses]
    OBVIOUS
  <1>2. networkConfig \in Seq(T)
    BY <1>1 DEF NetworkOK
  <1>3. networkConfig[k] \in T
    BY <1>2, ElementOfSeq
  <1> QED
    BY <1>1, <1>3

\* What the contract held is in the history of its addresses.
LEMMA CurrentEscrow ==
    ASSUME NetworkOK, NEW from \in Nat, NEW to \in Nat, to <= Version, NEW a, NEW b,
           WereCurrent(from, to, a, b)
    PROVE  b \in Escrows
  <1>1. PICK j \in from..to : b = networkConfig[j + 1].escrow
    BY DEF WereCurrent
  <1>2. j + 1 \in 1..Len(networkConfig)
    BY <1>1, VersionIsNat
  <1>3. networkConfig[j + 1].escrow \in Addresses
    BY <1>2, HistoryTyped
  <1> QED
    BY <1>1, <1>3 DEF Addresses, Escrows

\* The contract's past does not change.
LEMMA CurrentStays ==
    ASSUME NetworkOK, NEW entry, networkConfig' = Append(networkConfig, entry),
           NEW from \in Nat, NEW to \in Nat, to <= Version, NEW more \in Nat, to <= more,
           NEW a, NEW b, WereCurrent(from, to, a, b)
    PROVE  WereCurrent(from, more, a, b)'
  <1>1. PICK i \in from..to, j \in from..to :
            i <= j /\ a = networkConfig[i + 1].registry /\ b = networkConfig[j + 1].escrow
    BY DEF WereCurrent
  <1>2. i + 1 \in 1..Len(networkConfig) /\ j + 1 \in 1..Len(networkConfig)
    BY <1>1, VersionIsNat
  <1>3. networkConfig'[i + 1] = networkConfig[i + 1] /\ networkConfig'[j + 1] = networkConfig[j + 1]
    BY <1>2 DEF NetworkOK
  <1>4. i \in from..more /\ j \in from..more
    BY <1>1
  <1> QED
    BY <1>1, <1>3, <1>4 DEF WereCurrent

\* The node falls back on its configuration, before or after it has begun to read.
LEMMA ConfiguredResolved ==
    ASSUME StartInv, Loads, UNCHANGED <<layers, networkConfig>>,
           boot' = Resolved(Configured, "config", 0, 0)
    PROVE  StartInv'
  <1>1. Configured' = Configured
    BY ConfiguredSame
  <1>2. /\ boot'.at = "preparing" /\ boot'.source = "config"
        /\ boot'.registry = Configured.registry /\ boot'.escrow = Configured.escrow
        /\ boot' = [at |-> boot'.at, registry |-> boot'.registry, escrow |-> boot'.escrow,
                    source |-> boot'.source, from |-> boot'.from, to |-> boot'.to]
    BY DEF Resolved
  <1>3. AddressesResolved'
    BY <1>1, <1>2 DEF AddressesResolved
  <1>4. boot'.escrow \in Escrows
    BY <1>2, ConfiguredEscrow DEF StartInv
  <1>5. UpOK'
    BY <1>2, <1>4 DEF UpOK, Escrows
  <1> QED
    BY <1>2, <1>3, <1>5 DEF StartInv, NetworkOK, Addresses

LEMMA StartConfigures ==
    ASSUME StartInv, Configure
    PROVE  StartInv'
  <1>1. UNCHANGED <<layers, networkConfig>> /\ Loads
    BY DEF Configure
  <1>2. CASE boot' = Resolved(Configured, "config", 0, 0)
    BY <1>1, <1>2, ConfiguredResolved
  <1>3. CASE boot' = [at |-> "resolving", reads |-> <<>>, from |-> Version]
    <2>1. boot'.at = "resolving" /\ boot'.reads = <<>> /\ boot'.from = Version
      BY <1>3
    <2>2. Version \in Nat /\ Version' = Version
      BY <1>1, VersionIsNat DEF StartInv, Version
    <2>3. ReadsInOrder'
      BY <1>1, <1>3, <2>1, <2>2 DEF ReadsInOrder
    <2>4. Loads'
      BY <1>1, ConfiguredSame
    <2> QED
      BY <1>1, <2>1, <2>3, <2>4 DEF StartInv, NetworkOK, AddressesResolved, Addresses
  <1> QED
    BY <1>2, <1>3 DEF Configure

\* One more answer is the contract's at this moment.
LEMMA StartReads ==
    ASSUME StartInv, ReadNext
    PROVE  StartInv'
  <1>1. /\ UNCHANGED <<layers, networkConfig>> /\ boot.at = "resolving" /\ ReadsInOrder
        /\ NetworkOK /\ Loads
    BY DEF ReadNext, StartInv
  <1>2. PICK reads, from : reads = boot.reads /\ from = boot.from
    OBVIOUS
  <1>3. PICK v \in Nat : v = Version /\ Len(networkConfig) = v + 1
    BY <1>1, VersionIsNat
  <1>4. /\ boot = [at |-> "resolving", reads |-> reads, from |-> from]
        /\ reads \in Seq(Nat) /\ from \in Nat /\ from <= v
        /\ Len(reads) >= 1 => \E e : WereCurrent(from, v, reads[1], e)
        /\ Len(reads) >= 2 => WereCurrent(from, v, reads[1], reads[2])
    BY <1>1, <1>2, <1>3 DEF ReadsInOrder
  <1>5. PICK n : n = Len(reads)
    OBVIOUS
  <1>6. n \in {0, 1, 2, 3, 4}
    <2>1. Len(Calls) = 5
      BY DEF Calls
    <2>2. n < 5 /\ n \in Nat
      BY <1>2, <1>4, <1>5, <2>1 DEF ReadNext
    <2> QED
      BY <2>2
  <1>7. PICK registry \in Nat, escrow \in Nat :
            registry = networkConfig[v + 1].registry /\ escrow = networkConfig[v + 1].escrow
    <2>1. networkConfig[v + 1].registry \in Addresses /\ networkConfig[v + 1].escrow \in Addresses
      BY <1>1, <1>3, HistoryTyped
    <2>2. Addresses \subseteq Nat
      BY StartAssumption DEF Addresses, ZeroAddress
    <2> QED
      BY <2>1, <2>2
  <1>8. PICK answer : answer = Answers[n + 1]
    OBVIOUS
  <1>9. /\ answer \in Nat
        /\ n = 0 => answer = registry
        /\ n = 1 => answer = escrow
        /\ n = 4 => answer = v
    <2>1. /\ Answers[1] = registry /\ Answers[2] = escrow
          /\ Answers[3] = 0 /\ Answers[4] = 0 /\ Answers[5] = v
      BY <1>3, <1>7 DEF Answers, Current
    <2> QED
      BY <1>3, <1>6, <1>7, <1>8, <2>1
  <1>10. PICK now : now = Append(reads, answer)
    OBVIOUS
  <1>11. boot' = [at |-> "resolving", reads |-> now, from |-> from]
    <2>1. boot' = [boot EXCEPT !.reads = now]
      BY <1>2, <1>5, <1>8, <1>10 DEF ReadNext
    <2> QED
      BY <1>4, <2>1
  <1>12. boot'.at = "resolving" /\ boot'.reads = now /\ boot'.from = from
    BY <1>11
  <1>13. /\ now \in Seq(Nat) /\ Len(now) = n + 1 /\ now[n + 1] = answer
         /\ \A i \in 1..n : now[i] = reads[i]
    BY <1>4, <1>5, <1>9, <1>10
  <1>14. /\ n >= 1 => now[1] = reads[1]
         /\ n >= 2 => now[2] = reads[2]
    BY <1>5, <1>6, <1>13
  <1>15. \E e : WereCurrent(from, v, now[1], e)
    <2>1. CASE n = 0
      <3>1. v \in from..v /\ v <= v /\ now[1] = networkConfig[v + 1].registry
        BY <1>3, <1>4, <1>7, <1>9, <1>13, <2>1
      <3>2. WereCurrent(from, v, now[1], networkConfig[v + 1].escrow)
        BY <3>1 DEF WereCurrent
      <3> QED
        BY <3>2
    <2>2. CASE n >= 1
      BY <1>4, <1>5, <1>14, <2>2
    <2> QED
      BY <1>6, <2>1, <2>2
  <1>16. n >= 1 => WereCurrent(from, v, now[1], now[2])
    <2>1. CASE n = 1
      <3>1. PICK e : WereCurrent(from, v, now[1], e)
        BY <1>15
      <3>2. PICK i \in from..v : now[1] = networkConfig[i + 1].registry
        BY <3>1 DEF WereCurrent
      <3>3. v \in from..v /\ i <= v /\ now[2] = networkConfig[v + 1].escrow
        BY <1>3, <1>4, <1>7, <1>9, <1>13, <2>1, <3>2
      <3> QED
        BY <3>2, <3>3 DEF WereCurrent
    <2>2. CASE n >= 2
      BY <1>4, <1>5, <1>14, <2>2
    <2> QED
      BY <1>6, <2>1, <2>2
  <1>17. n >= 4 => now[5] = v
    BY <1>6, <1>9, <1>13
  <1>18. Version' = v /\ \A a, b, x, y : WereCurrent(a, b, x, y)' <=> WereCurrent(a, b, x, y)
    BY <1>1, <1>3 DEF Version, WereCurrent
  <1>19. /\ Len(now) >= 1 => \E e : WereCurrent(from, v, now[1], e)
         /\ Len(now) >= 2 => WereCurrent(from, v, now[1], now[2])
         /\ Len(now) >= 5 => now[5] <= v /\ WereCurrent(from, now[5], now[1], now[2])
    BY <1>3, <1>6, <1>13, <1>15, <1>16, <1>17
  <1>20. ReadsInOrder'
    BY <1>4, <1>11, <1>12, <1>13, <1>18, <1>19 DEF ReadsInOrder
  <1>21. Loads'
    BY <1>1, ConfiguredSame
  <1> QED
    BY <1>1, <1>12, <1>20, <1>21 DEF StartInv, NetworkOK, AddressesResolved, Addresses

LEMMA StartResolves ==
    ASSUME StartInv, ReadsDone
    PROVE  StartInv'
  <1>1. /\ UNCHANGED <<layers, networkConfig>> /\ ReadsInOrder /\ NetworkOK
        /\ Len(boot.reads) = 5
    BY DEF ReadsDone, StartInv, Calls
  <1>2. PICK a, b, from, to :
            a = boot.reads[1] /\ b = boot.reads[2] /\ from = boot.from /\ to = boot.reads[5]
    OBVIOUS
  <1>3. from \in Nat /\ to \in Nat /\ to <= Version /\ WereCurrent(from, to, a, b)
    BY <1>1, <1>2 DEF ReadsInOrder
  <1>4. boot' = [at |-> "preparing", registry |-> a, escrow |-> b, source |-> "chain",
                 from |-> from, to |-> to]
    BY <1>2 DEF ReadsDone, Resolved
  <1>5. AddressesResolved'
    BY <1>1, <1>3, <1>4 DEF AddressesResolved, WereCurrent
  <1>6. b \in Escrows /\ Version' = Version
    BY <1>1, <1>3, CurrentEscrow DEF Version
  <1>7. UpOK'
    BY <1>3, <1>4, <1>6 DEF UpOK, Escrows
  <1> QED
    BY <1>1, <1>4, <1>5, <1>7 DEF StartInv, NetworkOK, Addresses

LEMMA StartPrepares ==
    ASSUME StartInv, Prepare
    PROVE  StartInv'
  <1>1. UNCHANGED <<layers, networkConfig>> /\ UpOK /\ boot.at = "preparing"
    BY DEF Prepare, StartInv
  <1>2. PICK a, b, source, from, to :
            boot = [at |-> "preparing", registry |-> a, escrow |-> b, source |-> source,
                    from |-> from, to |-> to]
    BY <1>1 DEF UpOK
  <1>3. boot' = [at |-> "serving", registry |-> a, escrow |-> b, source |-> source,
                 from |-> from, to |-> to]
    BY <1>2 DEF Prepare
  <1>4. /\ boot'.at = "serving" /\ boot'.registry = boot.registry
        /\ boot'.escrow = boot.escrow /\ boot'.source = boot.source
        /\ boot'.from = boot.from /\ boot'.to = boot.to
    BY <1>2, <1>3
  <1>5. Configured' = Configured /\ Version' = Version
    BY <1>1, ConfiguredSame DEF Version
  <1>6. AddressesResolved'
    BY <1>1, <1>4, <1>5 DEF AddressesResolved, StartInv
  <1>7. UpOK'
    BY <1>1, <1>2, <1>3, <1>4, <1>5 DEF UpOK, Escrows
  <1> QED
    BY <1>1, <1>4, <1>6, <1>7 DEF StartInv, NetworkOK, Addresses

LEMMA StartStops ==
    ASSUME StartInv, Stop
    PROVE  StartInv'
  BY DEF StartInv, Stop, NoBoot, NetworkOK, AddressesResolved, Addresses

LEMMA StartSurvivesUpdate ==
    ASSUME StartInv, NEW registry \in NetworkAddresses, NEW escrow \in NetworkAddresses,
           SetAddresses(registry, escrow)
    PROVE  StartInv'
  <1>1. UNCHANGED <<layers, boot>> /\ NetworkOK
    BY DEF SetAddresses, StartInv
  <1>2. PICK entry : /\ entry = [registry |-> registry, escrow |-> escrow]
                     /\ networkConfig' = Append(networkConfig, entry)
    BY DEF SetAddresses
  <1>3. PICK v \in Nat : v = Version /\ Len(networkConfig) = v + 1
    BY <1>1, VersionIsNat
  <1>4. NetworkOK' /\ Version' = v + 1
    <2>1. entry \in [registry : Addresses, escrow : Addresses]
      BY <1>2 DEF Addresses
    <2> QED
      BY <1>1, <1>2, <1>3, <2>1 DEF NetworkOK, Version, Addresses
  <1>5. boot.at = "resolving" => ReadsInOrder'
    <2> SUFFICES ASSUME ReadsInOrder PROVE ReadsInOrder'
      BY DEF StartInv
    <2>1. PICK reads, from : reads = boot.reads /\ from = boot.from
      OBVIOUS
    <2>2. /\ boot = [at |-> "resolving", reads |-> reads, from |-> from]
          /\ reads \in Seq(Nat) /\ from \in Nat /\ from <= v
          /\ Len(reads) >= 1 => \E e : WereCurrent(from, v, reads[1], e)
          /\ Len(reads) >= 2 => WereCurrent(from, v, reads[1], reads[2])
          /\ Len(reads) >= 5 => reads[5] <= v /\ WereCurrent(from, reads[5], reads[1], reads[2])
      BY <1>3, <2>1 DEF ReadsInOrder
    <2>3. v <= v + 1 /\ v + 1 \in Nat /\ from <= v + 1
      BY <2>2
    <2>4. ASSUME Len(reads) >= 1 PROVE \E e : WereCurrent(from, v + 1, reads[1], e)'
      <3>1. PICK e : WereCurrent(from, v, reads[1], e)
        BY <2>2, <2>4
      <3>2. WereCurrent(from, v + 1, reads[1], e)'
        BY <1>1, <1>2, <1>3, <2>2, <2>3, <3>1, CurrentStays
      <3> QED
        BY <3>2
    <2>5. ASSUME Len(reads) >= 2 PROVE WereCurrent(from, v + 1, reads[1], reads[2])'
      BY <1>1, <1>2, <1>3, <2>2, <2>3, <2>5, CurrentStays
    <2>6. ASSUME Len(reads) >= 5
          PROVE  reads[5] <= v + 1 /\ WereCurrent(from, reads[5], reads[1], reads[2])'
      <3>1. reads[5] \in Nat /\ reads[5] <= v /\ reads[5] <= reads[5]
        BY <2>2, <2>6
      <3>2. WereCurrent(from, reads[5], reads[1], reads[2])'
        BY <1>1, <1>2, <1>3, <2>2, <2>6, <3>1, CurrentStays
      <3> QED
        BY <3>1, <3>2
    <2>7. boot'.reads = reads /\ boot'.from = from /\ boot' = boot
      BY <1>1, <2>1
    <2> QED
      BY <1>4, <2>2, <2>3, <2>4, <2>5, <2>6, <2>7 DEF ReadsInOrder
  <1>6. boot.at \in {"preparing", "serving"} => UpOK'
    <2> SUFFICES ASSUME UpOK PROVE UpOK'
      BY DEF StartInv
    <2> QED
      BY <1>1, <1>3, <1>4 DEF UpOK, Escrows
  <1>7. AddressesResolved'
    <2> SUFFICES ASSUME boot.at \in {"preparing", "serving"}, boot.source = "chain"
                 PROVE  AddressesResolved'
      BY <1>1, ConfiguredSame DEF StartInv, AddressesResolved
    <2>1. PICK from \in Nat, to \in Nat : from = boot.from /\ to = boot.to /\ to <= v
      BY <1>3 DEF StartInv, UpOK
    <2>2. WereCurrent(from, to, boot.registry, boot.escrow)
      BY <2>1 DEF StartInv, AddressesResolved, WereCurrent
    <2>3. WereCurrent(from, to, boot.registry, boot.escrow)'
      BY <1>1, <1>2, <1>3, <2>1, <2>2, CurrentStays
    <2> QED
      BY <1>1, <2>1, <2>3 DEF AddressesResolved, WereCurrent
  <1>8. Loads' <=> Loads
    BY <1>1, ConfiguredSame
  <1> QED
    BY <1>1, <1>4, <1>5, <1>6, <1>7, <1>8 DEF StartInv

LEMMA StartSteps ==
    ASSUME StartInv, StartStep
    PROVE  StartInv'
  <1>1. CASE Fallback
    BY <1>1, ConfiguredResolved DEF Fallback, StartInv
  <1> QED
    BY <1>1, StartConfigures, StartReads, StartResolves, StartPrepares DEF StartStep

-------------------------------------------------------------------------------
\* Attestation.

\* Whoever is in an exchange with NRAS holds the lock, so the cache has only aged
\* since, and by no more than the ticks the exchange has taken.
Asking(r) ==
    LET a == refresh[r]
    IN  /\ lock = r
        /\ a = [at |-> "asking", ageThen |-> a.ageThen, ticks |-> a.ticks]
        /\ a.ageThen \in Nat /\ a.ticks \in Nat
        /\ a.ticks <= MaxFlow
        /\ cache.age <= a.ageThen + a.ticks

AttestationInv ==
    /\ attestation \in AttestationConfigs
    /\ cache \in [hash : Hashes \cup {NoHash}, age : Nat]
    /\ refresh = [r \in Refreshers |-> refresh[r]]
    /\ \A r \in Refreshers : refresh[r].at = "asking" => Asking(r)
    /\ HashFresh
    /\ SnapshotHonest

LEMMA AttestationTypes ==
    ASSUME AttestationInv
    PROVE  /\ attestation.ttl \in Nat /\ MaxFlow \in Nat \ {0}
           /\ cache.age \in Nat /\ cache.hash \in Hashes \cup {NoHash}
           /\ NoCache \in [hash : Hashes \cup {NoHash}, age : Nat]
  BY AttestationAssumption DEF AttestationInv, AttestationConfig, NoCache

\* A refresh that returns with the lock given up: the snapshot and the history agree,
\* the hash is the cached one, and it is fresh.
LEMMA ReturnKeeps ==
    ASSUME AttestationInv, NEW r \in Refreshers, NEW hash, NEW age, Return(r, hash, age),
           attestation' = attestation,
           cache' \in [hash : Hashes \cup {NoHash}, age : Nat],
           \A q \in Refreshers \ {r} : refresh[q].at # "asking",
           hash # NoHash => age < attestation.ttl + MaxFlow,
           attestation.nrasEnabled =>
               /\ ui'.hash = hash
               /\ ui'.verified = "yes" <=> hash # NoHash
               /\ hash \in {NoHash, cache'.hash}
    PROVE  AttestationInv'
  <1>1. refresh' = [refresh EXCEPT ![r] = [at |-> "returned", hash |-> hash, age |-> age]]
        /\ last' = hash
    BY DEF Return
  <1>2. refresh = [q \in Refreshers |-> refresh[q]]
    BY DEF AttestationInv
  <1>3. /\ refresh' = [q \in Refreshers |-> refresh'[q]]
        /\ refresh'[r] = [at |-> "returned", hash |-> hash, age |-> age]
        /\ \A q \in Refreshers \ {r} : refresh'[q] = refresh[q]
    BY <1>1, <1>2
  <1>4. refresh'[r].at = "returned" /\ refresh'[r].hash = hash /\ refresh'[r].age = age
    BY <1>3
  <1>5. \A q \in Refreshers : refresh'[q].at # "asking"
    BY <1>3, <1>4
  <1>6. HashFresh'
    BY <1>3, <1>4 DEF AttestationInv, HashFresh
  <1>7. SnapshotHonest'
    BY <1>1 DEF SnapshotHonest
  <1> QED
    BY <1>3, <1>5, <1>6, <1>7 DEF AttestationInv

\* Only the holder of the lock is in an exchange.
LEMMA OneAsks ==
    ASSUME AttestationInv, NEW r \in Refreshers, lock = Nobody \/ refresh[r].at = "asking"
    PROVE  \A q \in Refreshers \ {r} : refresh[q].at # "asking"
  <1>1. \A q \in Refreshers : refresh[q].at = "asking" => lock = q
    BY DEF AttestationInv, Asking
  <1>2. Nobody \notin Refreshers
    BY DEF Nobody, Refreshers
  <1> QED
    BY <1>1, <1>2

LEMMA ReturnAtOnceKeeps ==
    ASSUME AttestationInv, NEW r \in Refreshers, ReturnAtOnce(r)
    PROVE  AttestationInv'
  <1>1. \A q \in Refreshers \ {r} : refresh[q].at # "asking"
    BY OneAsks DEF ReturnAtOnce
  <1>2. /\ attestation' = attestation
        /\ attestation.ttl \in Nat /\ MaxFlow \in Nat \ {0}
        /\ cache.age \in Nat /\ cache \in [hash : Hashes \cup {NoHash}, age : Nat]
        /\ NoCache \in [hash : Hashes \cup {NoHash}, age : Nat]
    BY AttestationTypes DEF ReturnAtOnce, AttestationInv
  <1>3. CASE /\ ~attestation.nrasEnabled
             /\ cache' = NoCache
             /\ Return(r, NoHash, 0)
    BY <1>1, <1>2, <1>3, ReturnKeeps
  <1>4. CASE /\ ui' = Snapshot("no", NoHash)
             /\ UNCHANGED cache
             /\ Return(r, NoHash, 0)
    <2>1. ui'.hash = NoHash /\ ui'.verified = "no"
      BY <1>4 DEF Snapshot
    <2> QED
      BY <1>1, <1>2, <1>4, <2>1, ReturnKeeps
  <1>5. CASE /\ ui' = IF StillGood(cache.age) THEN Snapshot("yes", cache.hash)
                                              ELSE Snapshot("no", NoHash)
             /\ UNCHANGED cache
             /\ Return(r, ui'.hash, cache.age)
    <2>1. /\ ui'.hash = IF StillGood(cache.age) THEN cache.hash ELSE NoHash
          /\ ui'.verified = IF StillGood(cache.age) THEN "yes" ELSE "no"
      BY <1>5 DEF Snapshot
    <2>2. /\ ui'.verified = "yes" <=> ui'.hash # NoHash
          /\ ui'.hash \in {NoHash, cache.hash}
          /\ ui'.hash # NoHash => cache.age < attestation.ttl + MaxFlow
      BY <1>2, <2>1 DEF StillGood
    <2> QED
      BY <1>1, <1>2, <1>5, <2>2, ReturnKeeps
  <1> QED
    BY <1>3, <1>4, <1>5 DEF ReturnAtOnce

LEMMA FlowEndsKeeps ==
    ASSUME AttestationInv, NEW r \in Refreshers, FlowEnds(r)
    PROVE  AttestationInv'
  <1>1. \A q \in Refreshers \ {r} : refresh[q].at # "asking"
    BY OneAsks DEF FlowEnds, FlowSucceeds, FlowFails
  <1>2. /\ attestation' = attestation /\ refresh[r].at = "asking"
        /\ attestation.ttl \in Nat /\ MaxFlow \in Nat \ {0}
        /\ cache.age \in Nat /\ cache \in [hash : Hashes \cup {NoHash}, age : Nat]
    BY AttestationTypes DEF FlowEnds, FlowSucceeds, FlowFails, AttestationInv
  <1>3. ASSUME NEW hash \in Hashes, cache' = [hash |-> hash, age |-> 0],
               ui' = Snapshot("yes", hash), Return(r, hash, 0)
        PROVE  AttestationInv'
    <2>1. /\ ui'.hash = hash /\ ui'.verified = "yes" /\ cache'.hash = hash
          /\ cache' \in [hash : Hashes \cup {NoHash}, age : Nat]
      BY <1>3 DEF Snapshot
    <2>2. hash # NoHash
      BY AttestationAssumption
    <2>3. 0 < attestation.ttl + MaxFlow
      BY <1>2
    <2> QED
      BY <1>1, <1>2, <1>3, <2>1, <2>2, <2>3, ReturnKeeps
  <1>4. CASE FlowFails(r)
    <2>1. /\ ui'.hash = IF StillGood(refresh[r].ageThen) THEN cache.hash ELSE NoHash
          /\ ui'.verified = IF StillGood(refresh[r].ageThen) THEN "yes" ELSE "no"
          /\ Return(r, ui'.hash, cache.age) /\ cache' = cache
      BY <1>4 DEF FlowFails, Snapshot
    <2>2. /\ refresh[r].ageThen \in Nat /\ refresh[r].ticks \in Nat
          /\ refresh[r].ticks <= MaxFlow
          /\ cache.age <= refresh[r].ageThen + refresh[r].ticks
      BY <1>2 DEF AttestationInv, Asking
    <2>3. refresh[r].ageThen < attestation.ttl => cache.age < attestation.ttl + MaxFlow
      BY <1>2, <2>2
    <2>4. /\ ui'.verified = "yes" <=> ui'.hash # NoHash
          /\ ui'.hash \in {NoHash, cache.hash}
          /\ ui'.hash # NoHash => cache.age < attestation.ttl + MaxFlow
      BY <2>1, <2>3 DEF StillGood
    <2> QED
      BY <1>1, <1>2, <2>1, <2>4, ReturnKeeps
  <1> QED
    BY <1>3, <1>4 DEF FlowEnds, FlowSucceeds

\* A step that returns nothing: r moves to a state, others stay, and the cache,
\* the snapshot and the history are left alone.
LEMMA QuietRefreshKeeps ==
    ASSUME AttestationInv, NEW r \in Refreshers, NEW state,
           refresh' = [refresh EXCEPT ![r] = state],
           UNCHANGED <<attestation, cache, ui, last>>,
           state.at # "returned",
           state.at = "asking" => Asking(r)',
           \A q \in Refreshers \ {r} : refresh[q].at = "asking" => lock' = lock
    PROVE  AttestationInv'
  <1>1. refresh = [q \in Refreshers |-> refresh[q]]
    BY DEF AttestationInv
  <1>2. /\ refresh' = [q \in Refreshers |-> refresh'[q]] /\ refresh'[r] = state
        /\ \A q \in Refreshers \ {r} : refresh'[q] = refresh[q]
    BY <1>1
  <1>3. ASSUME NEW q \in Refreshers, refresh'[q].at = "asking" PROVE Asking(q)'
    <2>1. CASE q = r
      BY <1>2, <1>3, <2>1
    <2>2. CASE q # r
      BY <1>2, <1>3, <2>2 DEF AttestationInv, Asking
    <2> QED
      BY <2>1, <2>2
  <1>4. HashFresh'
    BY <1>2 DEF AttestationInv, HashFresh
  <1>5. SnapshotHonest'
    BY DEF AttestationInv, SnapshotHonest
  <1> QED
    BY <1>2, <1>3, <1>4, <1>5 DEF AttestationInv

LEMMA AttestationSteps ==
    ASSUME AttestationInv, AttestationStep
    PROVE  AttestationInv'
  <1>1. ASSUME NEW r \in Refreshers, Want(r) PROVE AttestationInv'
    <2>1. PICK state : state = [at |-> "waiting"]
      OBVIOUS
    <2>2. state.at = "waiting"
      BY <2>1
    <2> QED
      BY <1>1, <2>1, <2>2, QuietRefreshKeeps DEF Want
  <1>2. ASSUME NEW r \in Refreshers, StartFlow(r) PROVE AttestationInv'
    <2>1. PICK state : state = [at |-> "asking", ageThen |-> cache.age, ticks |-> 0]
      OBVIOUS
    <2>2. /\ state.at = "asking" /\ state.ageThen = cache.age /\ state.ticks = 0
          /\ state = [at |-> "asking", ageThen |-> state.ageThen, ticks |-> state.ticks]
      BY <2>1
    <2>3. refresh' = [refresh EXCEPT ![r] = state] /\ lock = Nobody /\ lock' = r
          /\ UNCHANGED <<attestation, cache, ui, last>>
      BY <1>2, <2>1 DEF StartFlow
    <2>4. refresh'[r] = state
      BY <2>3 DEF AttestationInv
    <2>5. cache.age \in Nat /\ MaxFlow \in Nat
      BY AttestationTypes
    <2>6. Asking(r)'
      BY <2>2, <2>3, <2>4, <2>5 DEF Asking
    <2>7. \A q \in Refreshers \ {r} : refresh[q].at # "asking"
      BY <2>3, OneAsks
    <2> QED
      BY <2>2, <2>3, <2>6, <2>7, QuietRefreshKeeps
  <1>3. CASE IdentityDropped \/ IdentityAnswers
    <2>1. PICK r \in Refreshers : r = "identity"
      BY DEF Refreshers
    <2>2. Idle.at = "idle"
      BY DEF Idle
    <2>3. /\ refresh' = [refresh EXCEPT ![r] = Idle]
          /\ UNCHANGED <<attestation, cache, ui, last>>
          /\ lock' = lock \/ lock = r
      BY <1>3, <2>1 DEF IdentityDropped, IdentityAnswers
    <2>4. \A q \in Refreshers \ {r} : refresh[q].at = "asking" => lock # r
      BY DEF AttestationInv, Asking
    <2> QED
      BY <2>2, <2>3, <2>4, QuietRefreshKeeps
  <1>4. CASE Heartbeat
    <2>1. PICK r \in Refreshers : r = "heartbeat"
      BY DEF Refreshers
    <2>2. Idle.at = "idle"
      BY DEF Idle
    <2>3. /\ refresh' = [refresh EXCEPT ![r] = Idle]
          /\ UNCHANGED <<attestation, cache, ui, last, lock>>
      BY <1>4, <2>1 DEF Heartbeat
    <2> QED
      BY <2>2, <2>3, QuietRefreshKeeps
  <1> QED
    BY <1>1, <1>2, <1>3, <1>4, ReturnAtOnceKeeps, FlowEndsKeeps DEF AttestationStep, Enter

LEMMA AttestationTicks ==
    ASSUME AttestationInv, Tick
    PROVE  AttestationInv'
  <1>1. /\ UNCHANGED <<attestation, ui, lock, last>>
        /\ refresh' = [r \in Refreshers |->
               IF refresh[r].at = "asking" THEN [refresh[r] EXCEPT !.ticks = @ + 1]
               ELSE refresh[r]]
        /\ \A r \in Refreshers : refresh[r].at = "asking" => refresh[r].ticks < MaxFlow
    BY DEF Tick
  <1>2. /\ attestation.ttl \in Nat /\ MaxFlow \in Nat \ {0}
        /\ cache.age \in Nat /\ cache \in [hash : Hashes \cup {NoHash}, age : Nat]
    BY AttestationTypes DEF AttestationInv
  <1>3. /\ cache' \in [hash : Hashes \cup {NoHash}, age : Nat] /\ cache'.hash = cache.hash
        /\ cache'.age <= cache.age + 1
    <2>1. PICK age \in Nat : /\ age = IF cache.hash = NoHash THEN cache.age ELSE Older(cache.age)
                             /\ age <= cache.age + 1
      <3>1. Older(cache.age) \in Nat /\ Older(cache.age) <= cache.age + 1 /\ cache.age <= cache.age + 1
        BY <1>2 DEF Older
      <3> QED
        BY <1>2, <3>1
    <2>2. cache' = [cache EXCEPT !.age = age]
      BY <2>1 DEF Tick
    <2> QED
      BY <1>2, <2>1, <2>2
  <1>4. ASSUME NEW r \in Refreshers, refresh'[r].at = "asking" PROVE Asking(r)'
    <2>1. PICK a : a = refresh[r]
      OBVIOUS
    <2>2. refresh'[r] = IF a.at = "asking" THEN [a EXCEPT !.ticks = @ + 1] ELSE a
      BY <1>1, <2>1
    <2>3. a.at = "asking"
      BY <1>4, <2>2
    <2>4. /\ a = [at |-> "asking", ageThen |-> a.ageThen, ticks |-> a.ticks]
          /\ a.ageThen \in Nat /\ a.ticks \in Nat /\ lock = r
          /\ a.ticks < MaxFlow /\ cache.age <= a.ageThen + a.ticks
      BY <1>1, <2>1, <2>3 DEF AttestationInv, Asking
    <2>5. refresh'[r] = [at |-> "asking", ageThen |-> a.ageThen, ticks |-> a.ticks + 1]
      BY <2>2, <2>3, <2>4
    <2>6. refresh'[r].ageThen = a.ageThen /\ refresh'[r].ticks = a.ticks + 1
      BY <2>5
    <2>7. a.ticks + 1 \in Nat /\ a.ticks + 1 <= MaxFlow
      BY <1>2, <2>4
    <2>8. cache'.age <= a.ageThen + (a.ticks + 1)
      <3>1. cache'.age \in Nat
        BY <1>3
      <3> QED
        BY <1>2, <1>3, <2>4, <3>1
    <2> QED
      BY <1>1, <2>4, <2>5, <2>6, <2>7, <2>8 DEF Asking
  <1>5. \A r \in Refreshers : refresh'[r].at = "returned" => refresh'[r] = refresh[r]
    <2> SUFFICES ASSUME NEW r \in Refreshers, refresh[r].at = "asking"
                 PROVE  refresh'[r].at # "returned"
      BY <1>1
    <2>1. refresh[r] = [at |-> "asking", ageThen |-> refresh[r].ageThen, ticks |-> refresh[r].ticks]
      BY DEF AttestationInv, Asking
    <2>2. refresh'[r] = [refresh[r] EXCEPT !.ticks = @ + 1]
      BY <1>1
    <2> QED
      BY <2>1, <2>2
  <1>6. HashFresh'
    BY <1>1, <1>5 DEF AttestationInv, HashFresh
  <1>7. SnapshotHonest'
    BY <1>1, <1>3 DEF AttestationInv, SnapshotHonest
  <1>8. refresh' = [r \in Refreshers |-> refresh'[r]]
    BY <1>1
  <1> QED
    BY <1>1, <1>3, <1>4, <1>6, <1>7, <1>8 DEF AttestationInv

LEMMA AttestationRestarts ==
    ASSUME attestation \in AttestationConfigs,
           cache = NoCache, ui = Snapshot("unknown", NoHash),
           refresh = [r \in Refreshers |-> Idle], last = NoHash
    PROVE  AttestationInv
  <1>1. NoCache \in [hash : Hashes \cup {NoHash}, age : Nat]
    BY DEF NoCache
  <1>2. \A r \in Refreshers : refresh[r] = Idle /\ Idle.at = "idle"
    BY DEF Idle
  <1>3. refresh = [r \in Refreshers |-> refresh[r]]
    OBVIOUS
  <1>4. ui.hash = NoHash /\ ui.verified = "unknown"
    BY DEF Snapshot
  <1> QED
    BY <1>1, <1>2, <1>3, <1>4 DEF AttestationInv, HashFresh, SnapshotHonest

-------------------------------------------------------------------------------
\* The wallet.

\* Where the transactions of a request are in a queue.
At(queue, r) == {i \in DOMAIN queue : queue[i].request = r}

\* A queue without its i-th element.
LEMMA RemoveAtShifts ==
    ASSUME NEW S, NEW q \in Seq(S), NEW i \in 1..Len(q)
    PROVE  /\ RemoveAt(q, i) \in Seq(S)
           /\ Len(RemoveAt(q, i)) = Len(q) - 1
           /\ \A j \in 1..(Len(q) - 1) : RemoveAt(q, i)[j] = q[IF j < i THEN j ELSE j + 1]
  <1>1. PICK a, b : a = SubSeq(q, 1, i - 1) /\ b = SubSeq(q, i + 1, Len(q))
    OBVIOUS
  <1>2. /\ a \in Seq(S) /\ Len(a) = i - 1
        /\ \A j \in 1..(i - 1) : a[j] = q[j]
    BY <1>1
  <1>3. /\ b \in Seq(S) /\ Len(b) = Len(q) - i
        /\ \A j \in 1..(Len(q) - i) : b[j] = q[i + j]
    BY <1>1
  <1>4. RemoveAt(q, i) = a \o b
    BY <1>1 DEF RemoveAt
  <1>5. a \o b \in Seq(S) /\ Len(a \o b) = Len(q) - 1
    <2>1. Len(a \o b) = Len(a) + Len(b) /\ a \o b \in Seq(S)
      BY <1>2, <1>3, ConcatProperties
    <2>2. Len(q) \in Nat
      OBVIOUS
    <2> QED
      BY <1>2, <1>3, <2>1, <2>2
  <1>6. ASSUME NEW j \in 1..(Len(q) - 1) PROVE (a \o b)[j] = q[IF j < i THEN j ELSE j + 1]
    <2>1. CASE j < i
      <3>1. j \in 1..Len(a) /\ j \in 1..(i - 1)
        BY <1>2, <2>1
      <3>2. (a \o b)[j] = a[j]
        BY <1>2, <1>3, <3>1
      <3> QED
        BY <1>2, <2>1, <3>1, <3>2
    <2>2. CASE j >= i
      <3>1. (a \o b)[j] = b[j - (i - 1)]
        BY <1>2, <1>3, <2>2
      <3>2. j - (i - 1) \in 1..(Len(q) - i) /\ i + (j - (i - 1)) = j + 1
        BY <2>2
      <3> QED
        BY <1>3, <2>2, <3>1, <3>2
    <2>3. j < i \/ j >= i
      OBVIOUS
    <2> QED
      BY <2>1, <2>2, <2>3
  <1> QED
    BY <1>4, <1>5, <1>6

LEMMA AtFinite ==
    ASSUME NEW S, NEW q \in Seq(S), NEW r
    PROVE  IsFiniteSet(At(q, r)) /\ Cardinality(At(q, r)) \in Nat
  <1>1. Len(q) \in Nat /\ At(q, r) \in SUBSET (1..Len(q))
    BY DEF At
  <1>2. IsFiniteSet(1..Len(q))
    BY <1>1, FS_Interval
  <1>3. IsFiniteSet(At(q, r))
    BY <1>1, <1>2, FS_Subset
  <1> QED
    BY <1>3, FS_CardinalityType

LEMMA AtAppended ==
    ASSUME NEW S, NEW q \in Seq(S), NEW x \in S, NEW r
    PROVE  Cardinality(At(Append(q, x), r))
               = Cardinality(At(q, r)) + (IF x.request = r THEN 1 ELSE 0)
  <1>1. PICK t : t = Append(q, x)
    OBVIOUS
  <1>2. /\ t \in Seq(S) /\ Len(t) = Len(q) + 1 /\ t[Len(q) + 1] = x
        /\ \A i \in 1..Len(q) : t[i] = q[i]
    BY <1>1
  <1>3. IsFiniteSet(At(q, r)) /\ Cardinality(At(q, r)) \in Nat
    BY AtFinite
  <1>4. At(q, r) \subseteq 1..Len(q) /\ Len(q) + 1 \notin At(q, r)
    BY DEF At
  <1>5. \A i \in At(t, r) : i \in At(q, r) \/ (i = Len(q) + 1 /\ x.request = r)
    BY <1>2 DEF At
  <1>6. \A i \in At(q, r) : i \in At(t, r)
    BY <1>2 DEF At
  <1>7. CASE x.request = r
    <2>1. Len(q) + 1 \in At(t, r)
      BY <1>2, <1>7 DEF At
    <2>2. At(t, r) = At(q, r) \cup {Len(q) + 1}
      BY <1>5, <1>6, <2>1
    <2>3. Cardinality(At(t, r)) = Cardinality(At(q, r)) + 1
      BY <1>3, <1>4, <2>2, FS_AddElement
    <2> QED
      BY <1>1, <1>7, <2>3
  <1>8. CASE x.request # r
    <2>1. At(t, r) = At(q, r)
      BY <1>5, <1>6, <1>8
    <2> QED
      BY <1>1, <1>3, <1>8, <2>1
  <1> QED
    BY <1>7, <1>8

LEMMA AtRemoved ==
    ASSUME NEW S, NEW q \in Seq(S), NEW i \in 1..Len(q), NEW r
    PROVE  Cardinality(At(RemoveAt(q, i), r))
               <= Cardinality(At(q, r)) - (IF q[i].request = r THEN 1 ELSE 0)
  <1>1. PICK t : t = RemoveAt(q, i)
    OBVIOUS
  <1>2. /\ t \in Seq(S) /\ Len(t) = Len(q) - 1
        /\ \A j \in 1..(Len(q) - 1) : t[j] = q[IF j < i THEN j ELSE j + 1]
    BY <1>1, RemoveAtShifts
  <1> DEFINE old == At(q, r) \ {i}
             f == [j \in At(t, r) |-> IF j < i THEN j ELSE j + 1]
  <1>3. IsFiniteSet(At(q, r)) /\ Cardinality(At(q, r)) \in Nat
    BY AtFinite
  <1>4. /\ IsFiniteSet(old)
        /\ Cardinality(old) = Cardinality(At(q, r)) - (IF q[i].request = r THEN 1 ELSE 0)
    <2>1. i \in At(q, r) <=> q[i].request = r
      BY DEF At
    <2> QED
      BY <1>3, <2>1, FS_RemoveElement
  <1>5. ASSUME NEW j \in At(t, r)
        PROVE  /\ j \in 1..(Len(q) - 1)
               /\ (IF j < i THEN j ELSE j + 1) \in old
    <2>1. j \in 1..(Len(q) - 1) /\ t[j].request = r
      BY <1>2 DEF At
    <2>2. q[IF j < i THEN j ELSE j + 1].request = r
      BY <1>2, <2>1
    <2>3. (IF j < i THEN j ELSE j + 1) \in 1..Len(q) /\ (IF j < i THEN j ELSE j + 1) # i
      BY <2>1
    <2> QED
      BY <2>1, <2>2, <2>3 DEF At
  <1>6. f \in [At(t, r) -> old]
    BY <1>5
  <1>7. ASSUME NEW j \in At(t, r), NEW k \in At(t, r), f[j] = f[k] PROVE j = k
    <2>1. j \in Nat /\ k \in Nat
      BY <1>5
    <2> QED
      BY <1>7, <2>1
  <1>8. f \in Injection(At(t, r), old)
    BY <1>6, <1>7 DEF Injection, IsInjective
  <1> HIDE DEF f, old
  <1>9. Cardinality(At(t, r)) <= Cardinality(old)
    BY <1>4, <1>8, FS_Injection
  <1> QED
    BY <1>1, <1>4, <1>9

\* The answer of success a request may still get, or got.
Owed(r) == IF request[r].at \in {"watching", "confirmed"} THEN 1 ELSE 0

\* Each transaction of a request, mined or not, is paid for by a lost answer or by
\* the one answer of success.
Counted(r) == effects[r] + Cardinality(At(mempool, r)) <= lost[r] + Owed(r)

\* The pots a call of this kind may find drawn on when it is mined, as they were when it
\* was sent, and whether one of them has been drawn on since.
SinceOK(kind, since) ==
    /\ kind \in Kinds
    /\ \A p \in Needs(kind) \cap Contested : since[p] \in Nat /\ since[p] <= drawn[p]
Drained(kind, since) == \E p \in Needs(kind) \cap Contested : drawn[p] > since[p]

\* A transaction of the request is on its way and will not revert as things stand.
Pending(r, kind) ==
    \E i \in At(mempool, r) :
        /\ mempool[i].call.kind = kind
        /\ kind = "depositDot" \/ Accepted(mempool[i].call)

\* A call that is watched was accepted when it was sent, and still is, unless something
\* it needs was drawn on since.
Founded(r) ==
    /\ request[r].at = "sending" => request[r].call \in Call
    /\ request[r].at = "watching" =>
           /\ SinceOK(request[r].call.kind, request[r].since)
           /\ \/ effects[r] >= 1
              \/ Drained(request[r].call.kind, request[r].since)
              \/ Pending(r, request[r].call.kind)
    /\ request[r].at = "confirmed" =>
           /\ SinceOK(request[r].kind, request[r].since)
           /\ effects[r] >= 1 \/ Drained(request[r].kind, request[r].since)

WalletType ==
    /\ mempool \in Seq([request : Requests, call : Call])
    /\ effects \in [Requests -> Nat]
    /\ lost \in [Requests -> Nat]
    /\ funds \in [WalletPots -> Int]
    /\ held \in [Escrows -> [EscrowPots -> Int]]
    /\ drawn \in [Contested -> Nat]
    /\ request = [r \in Requests |-> request[r]]

WalletInv == WalletType /\ \A r \in Requests : Counted(r) /\ Founded(r)

LEMMA WalletStarts ==
    ASSUME WalletInit
    PROVE  WalletInv
  <1>1. mempool \in Seq([request : Requests, call : Call]) /\ \A r : At(mempool, r) = {}
    BY DEF WalletInit, At
  <1>2. Cardinality({}) = 0
    BY FS_EmptySet
  <1>3. \A r \in Requests : request[r].at = "none" /\ effects[r] = 0 /\ lost[r] = 0
    BY DEF WalletInit, NoRequest
  <1>4. ASSUME NEW r \in Requests PROVE Counted(r) /\ Founded(r)
    <2>1. Cardinality(At(mempool, r)) = 0 /\ effects[r] = 0 /\ lost[r] = 0
      BY <1>1, <1>2, <1>3
    <2>2. request[r].at \notin {"sending", "watching", "confirmed"}
      BY <1>3
    <2> QED
      BY <2>1, <2>2 DEF Counted, Founded, Owed
  <1>5. request = [r \in Requests |-> request[r]]
    BY DEF WalletInit
  <1>6. \A p \in Pots : InitialPots[p] \in Int
    BY WalletAssumption
  <1>7. funds \in [WalletPots -> Int]
    BY <1>6 DEF WalletInit, Pots
  <1>8. held \in [Escrows -> [EscrowPots -> Int]]
    BY <1>6 DEF WalletInit, Pots
  <1>9. effects \in [Requests -> Nat] /\ lost \in [Requests -> Nat] /\ drawn \in [Contested -> Nat]
    BY DEF WalletInit
  <1> QED
    BY <1>1, <1>4, <1>5, <1>7, <1>8, <1>9 DEF WalletInv, WalletType

LEMMA WalletImplies ==
    ASSUME WalletInv
    PROVE  MovedOncePerAnswer /\ ConfirmedTookEffect
  <1>1. ASSUME NEW r \in Requests PROVE effects[r] <= 1 + lost[r]
    <2>1. PICK n \in Nat : n = Cardinality(At(mempool, r))
      BY AtFinite DEF WalletInv, WalletType
    <2>2. effects[r] \in Nat /\ lost[r] \in Nat /\ effects[r] + n <= lost[r] + Owed(r)
      BY <2>1 DEF WalletInv, WalletType, Counted
    <2>3. Owed(r) \in {0, 1}
      BY DEF Owed
    <2> QED
      BY <2>1, <2>2, <2>3
  <1>2. ConfirmedTookEffect
    BY DEF ConfirmedTookEffect, WalletInv, Founded, Drained
  <1> QED
    BY <1>1, <1>2 DEF MovedOncePerAnswer

LEMMA NeedsPots ==
    ASSUME NEW kind \in Kinds
    PROVE  Needs(kind) \subseteq Pots /\ (kind # "depositDot" => Needs(kind) \subseteq Contested)
  BY DEF Kinds, Needs, Pots, Contested, WalletPots, EscrowPots, Conditions

\* What was drawn on stays drawn on.
LEMMA DrawnGrows ==
    ASSUME NEW kind, NEW since, SinceOK(kind, since),
           drawn \in [Contested -> Nat], drawn' \in [Contested -> Nat],
           \A p \in Contested : drawn[p] <= drawn'[p]
    PROVE  SinceOK(kind, since)' /\ (Drained(kind, since) => Drained(kind, since)')
  <1>1. \A p \in Needs(kind) \cap Contested :
            /\ since[p] \in Nat /\ since[p] <= drawn[p] /\ drawn[p] \in Nat /\ drawn'[p] \in Nat
            /\ drawn[p] <= drawn'[p]
    BY DEF SinceOK
  <1>2. \A p \in Needs(kind) \cap Contested :
            since[p] <= drawn'[p] /\ (drawn[p] > since[p] => drawn'[p] > since[p])
    BY <1>1
  <1> QED
    BY <1>1, <1>2 DEF SinceOK, Drained, Needs, Contested, Pots, Kinds

\* A step that does not take a request's answer away keeps what is known of it, if it
\* keeps its transaction.
LEMMA FoundedKeeps ==
    ASSUME NEW r \in Requests, Founded(r), request'[r] = request[r],
           effects[r] \in Nat, effects'[r] \in Nat, effects[r] <= effects'[r],
           drawn \in [Contested -> Nat], drawn' \in [Contested -> Nat],
           \A p \in Contested : drawn[p] <= drawn'[p],
           ASSUME request[r].at = "watching", SinceOK(request[r].call.kind, request[r].since),
                  Pending(r, request[r].call.kind)
           PROVE  \/ effects'[r] >= 1
                  \/ Drained(request[r].call.kind, request[r].since)'
                  \/ Pending(r, request[r].call.kind)'
    PROVE  Founded(r)'
  <1>1. PICK v : v = request[r] /\ v = request'[r]
    OBVIOUS
  <1>2. CASE v.at = "watching"
    <2>1. PICK kind, since : kind = v.call.kind /\ since = v.since
      OBVIOUS
    <2>2. SinceOK(kind, since) /\ (effects[r] >= 1 \/ Drained(kind, since) \/ Pending(r, kind))
      BY <1>1, <1>2, <2>1 DEF Founded
    <2>3. SinceOK(kind, since)' /\ (Drained(kind, since) => Drained(kind, since)')
      BY <2>2, DrawnGrows
    <2>4. effects'[r] >= 1 \/ Drained(kind, since)' \/ Pending(r, kind)'
      <3>1. CASE effects[r] >= 1
        BY <3>1
      <3>2. CASE Drained(kind, since)
        BY <2>3, <3>2
      <3>3. CASE Pending(r, kind)
        BY <1>1, <1>2, <2>1, <2>2, <3>3
      <3> QED
        BY <2>2, <3>1, <3>2, <3>3
    <2> QED
      BY <1>1, <1>2, <2>1, <2>3, <2>4 DEF Founded
  <1>3. CASE v.at = "confirmed"
    <2>1. PICK kind, since : kind = v.kind /\ since = v.since
      OBVIOUS
    <2>2. SinceOK(kind, since) /\ (effects[r] >= 1 \/ Drained(kind, since))
      BY <1>1, <1>3, <2>1 DEF Founded
    <2>3. SinceOK(kind, since)' /\ (Drained(kind, since) => Drained(kind, since)')
      BY <2>2, DrawnGrows
    <2> QED
      BY <1>1, <1>3, <2>1, <2>2, <2>3 DEF Founded
  <1>4. CASE v.at \notin {"watching", "confirmed"}
    BY <1>1, <1>4 DEF Founded, Call, Kinds, Escrows
  <1> QED
    BY <1>2, <1>3, <1>4

\* What a step leaves of a request's progress it leaves of what is known about it.
LEMMA RequestKeeps ==
    ASSUME WalletInv, NEW r \in Requests, UNCHANGED <<funds, held, mempool, effects, drawn>>,
           request'[r] = request[r], lost'[r] = lost[r]
    PROVE  Counted(r)' /\ Founded(r)'
  <1>1. Counted(r) /\ Founded(r) /\ effects[r] \in Nat /\ drawn \in [Contested -> Nat]
    BY DEF WalletInv, WalletType
  <1>2. Counted(r)'
    BY <1>1 DEF Counted, Owed, At
  <1>3. ASSUME Pending(r, request[r].call.kind) PROVE Pending(r, request[r].call.kind)'
    BY <1>3 DEF Pending, At, Accepted, Available
  <1>4. \A p \in Contested : drawn[p] <= drawn'[p]
    BY <1>1
  <1>5. effects[r] <= effects'[r] /\ effects'[r] \in Nat /\ drawn' \in [Contested -> Nat]
    BY <1>1
  <1>6. Founded(r)'
    BY <1>1, <1>3, <1>4, <1>5, FoundedKeeps
  <1> QED
    BY <1>2, <1>6

\* One request goes on, none of its transactions is touched.
LEMMA RequestGoesOn ==
    ASSUME WalletInv, NEW r \in Requests, NEW v,
           UNCHANGED <<funds, held, mempool, effects, drawn, lost>>,
           request[r].at \notin {"watching", "confirmed"},
           v.at \notin {"watching", "confirmed"}, v.at = "sending" => v.call \in Call,
           request' = [request EXCEPT ![r] = v]
    PROVE  WalletInv'
  <1>1. /\ request' = [s \in Requests |-> request'[s]] /\ request'[r] = v
        /\ \A s \in Requests \ {r} : request'[s] = request[s]
    BY DEF WalletInv, WalletType
  <1>2. Counted(r)' /\ Founded(r)'
    <2>1. Counted(r)
      BY DEF WalletInv
    <2>2. Owed(r) = 0 /\ Owed(r)' = 0
      BY <1>1 DEF Owed
    <2>3. Counted(r)'
      BY <2>1, <2>2 DEF Counted, At
    <2> QED
      BY <1>1, <2>3 DEF Founded
  <1>3. ASSUME NEW s \in Requests PROVE Counted(s)' /\ Founded(s)'
    <2>1. CASE s = r
      BY <1>2, <2>1
    <2>2. CASE s # r
      <3>1. request'[s] = request[s] /\ lost'[s] = lost[s]
        BY <1>1, <2>2
      <3> QED
        BY <3>1, RequestKeeps
    <2> QED
      BY <2>1, <2>2
  <1>4. WalletType'
    BY <1>1 DEF WalletInv, WalletType
  <1> QED
    BY <1>3, <1>4 DEF WalletInv

\* The escrow of a call is one the process resolved.
LEMMA WalletHandles ==
    ASSUME WalletInv, StartInv, Serving, NEW r \in Requests, NEW kind \in Kinds,
           NEW amount \in CallAmounts, Handle(r, kind, amount)
    PROVE  WalletInv'
  <1>1. PICK v : v = IF MaySend(kind, amount)
                     THEN [at |-> "sending",
                           call |-> [kind |-> kind, amount |-> amount, escrow |-> boot.escrow]]
                     ELSE [at |-> "skipped"]
    OBVIOUS
  <1>2. boot.escrow \in Escrows
    BY DEF StartInv, UpOK, Serving
  <1>3. v.at \notin {"watching", "confirmed"} /\ (v.at = "sending" => v.call \in Call)
    BY <1>1, <1>2 DEF Call
  <1>4. /\ request[r].at \notin {"watching", "confirmed"}
        /\ request' = [request EXCEPT ![r] = v]
        /\ UNCHANGED <<funds, held, mempool, effects, drawn, lost>>
    BY <1>1 DEF Handle
  <1> QED
    BY <1>3, <1>4, RequestGoesOn

LEMMA WalletSendFails ==
    ASSUME WalletInv, NEW r \in Requests, SendFails(r)
    PROVE  WalletInv'
  <1>1. PICK v : v = [at |-> "failed", call |-> request[r].call]
    OBVIOUS
  <1>2. v.at = "failed"
    BY <1>1
  <1>3. /\ request[r].at \notin {"watching", "confirmed"}
        /\ request' = [request EXCEPT ![r] = v]
        /\ UNCHANGED <<funds, held, mempool, effects, drawn, lost>>
    BY <1>1 DEF SendFails, Failed
  <1> QED
    BY <1>2, <1>3, RequestGoesOn

\* The block the transaction is in was the end of its wait.
LEMMA WalletConfirms ==
    ASSUME WalletInv, NEW r \in Requests, ConfirmCall(r)
    PROVE  WalletInv'
  <1>1. PICK since, kind : since = request[r].since /\ kind = request[r].call.kind
    OBVIOUS
  <1>2. /\ request' = [request EXCEPT ![r] = [at |-> "confirmed", kind |-> kind, since |-> since]]
        /\ request[r].at = "watching"
        /\ \A i \in DOMAIN mempool : mempool[i].request # r
        /\ UNCHANGED <<funds, held, mempool, effects, drawn, lost>>
    BY <1>1 DEF ConfirmCall
  <1>3. /\ request' = [s \in Requests |-> request'[s]]
        /\ request'[r] = [at |-> "confirmed", kind |-> kind, since |-> since]
        /\ \A s \in Requests \ {r} : request'[s] = request[s]
    BY <1>2 DEF WalletInv, WalletType
  <1>4. request'[r].at = "confirmed" /\ request'[r].since = since /\ request'[r].kind = kind
    BY <1>3
  <1>5. Counted(r)'
    <2>1. Counted(r)
      BY DEF WalletInv
    <2>2. Owed(r) = 1 /\ Owed(r)' = 1
      BY <1>2, <1>4 DEF Owed
    <2> QED
      BY <1>2, <2>1, <2>2 DEF Counted, At
  <1>6. Founded(r)'
    <2>1. Founded(r) /\ At(mempool, r) = {}
      BY <1>2 DEF WalletInv, At
    <2>2. SinceOK(kind, since) /\ (effects[r] >= 1 \/ Drained(kind, since))
      BY <1>1, <1>2, <2>1 DEF Founded, Pending
    <2>3. SinceOK(kind, since)' /\ (effects'[r] >= 1 \/ Drained(kind, since)')
      BY <1>2, <2>2 DEF SinceOK, Drained
    <2> QED
      BY <1>4, <2>3 DEF Founded
  <1>7. ASSUME NEW s \in Requests PROVE Counted(s)' /\ Founded(s)'
    <2>1. CASE s = r
      BY <1>5, <1>6, <2>1
    <2>2. CASE s # r
      <3>1. request'[s] = request[s] /\ lost'[s] = lost[s]
        BY <1>2, <1>3, <2>2
      <3> QED
        BY <1>2, <3>1, RequestKeeps
    <2> QED
      BY <2>1, <2>2
  <1>8. WalletType'
    BY <1>2, <1>3 DEF WalletInv, WalletType
  <1> QED
    BY <1>7, <1>8 DEF WalletInv

\* An answer is lost: the request has failed, and its transactions have one more to
\* be paid for by.
LEMMA AnswerLost ==
    ASSUME WalletInv, NEW r \in Requests, request[r].at \in {"sending", "watching"},
           UNCHANGED <<mempool, effects>>,
           request'[r].at = "failed", lost'[r] = lost[r] + 1
    PROVE  Counted(r)' /\ Founded(r)'
  <1>1. PICK S : mempool \in Seq(S)
    BY DEF WalletInv, WalletType
  <1>2. PICK n \in Nat, e \in Nat, l \in Nat :
            n = Cardinality(At(mempool, r)) /\ e = effects[r] /\ l = lost[r]
    <2>1. Cardinality(At(mempool, r)) \in Nat
      BY <1>1, AtFinite
    <2>2. effects[r] \in Nat /\ lost[r] \in Nat
      BY DEF WalletInv, WalletType
    <2> QED
      BY <2>1, <2>2, Zenon
  <1>3. e + n <= l + Owed(r) /\ Owed(r) \in {0, 1}
    BY <1>2 DEF WalletInv, Counted, Owed
  <1>4. e + n <= l + 1
    BY <1>3
  <1>5. Owed(r)' = 0 /\ l + 1 + 0 = l + 1
    BY DEF Owed
  <1>6. Counted(r)' <=> e + n <= l + 1 + 0
    BY <1>2, <1>5 DEF Counted, At
  <1> QED
    BY <1>4, <1>5, <1>6 DEF Founded

LEMMA WalletLoses ==
    ASSUME WalletInv, NEW r \in Requests, LoseCall(r)
    PROVE  WalletInv'
  <1>1. PICK v : v = [at |-> "failed", call |-> request[r].call]
    OBVIOUS
  <1>2. /\ request[r].at = "watching" /\ v.at = "failed"
        /\ request' = [request EXCEPT ![r] = v] /\ lost' = [lost EXCEPT ![r] = @ + 1]
        /\ UNCHANGED <<funds, held, mempool, effects, drawn>>
    BY <1>1 DEF LoseCall, Failed
  <1>3. /\ request' = [s \in Requests |-> request'[s]] /\ request'[r] = v
        /\ lost' \in [Requests -> Nat] /\ lost'[r] = lost[r] + 1
        /\ \A s \in Requests \ {r} : request'[s] = request[s] /\ lost'[s] = lost[s]
    <2>1. request = [s \in Requests |-> request[s]] /\ lost \in [Requests -> Nat]
      BY DEF WalletInv, WalletType
    <2> QED
      BY <1>2, <2>1
  <1>4. Counted(r)' /\ Founded(r)'
    BY <1>2, <1>3, AnswerLost
  <1>5. ASSUME NEW s \in Requests PROVE Counted(s)' /\ Founded(s)'
    <2>1. CASE s = r
      BY <1>4, <2>1
    <2>2. CASE s # r
      BY <1>2, <1>3, <2>2, RequestKeeps
    <2> QED
      BY <2>1, <2>2
  <1>6. WalletType'
    BY <1>2, <1>3 DEF WalletInv, WalletType
  <1> QED
    BY <1>5, <1>6 DEF WalletInv

LEMMA WalletSurvivesStop ==
    ASSUME WalletInv, WalletStops
    PROVE  WalletInv'
  <1>1. PICK open : open = {r \in Requests : request[r].at \in {"sending", "watching"}}
    OBVIOUS
  <1>2. /\ request' = [r \in Requests |-> IF r \in open THEN Failed(r)[r] ELSE request[r]]
        /\ lost' = [r \in Requests |-> lost[r] + IF r \in open THEN 1 ELSE 0]
        /\ UNCHANGED <<funds, held, mempool, effects, drawn>>
    BY <1>1 DEF WalletStops
  <1>3. request' = [r \in Requests |-> request'[r]]
    BY <1>2
  <1>4. lost' \in [Requests -> Nat]
    <2>1. \A r \in Requests : lost[r] \in Nat
      BY DEF WalletInv, WalletType
    <2>2. \A r \in Requests : (lost[r] + IF r \in open THEN 1 ELSE 0) \in Nat
      BY <2>1
    <2> QED
      BY <1>2, <2>2
  <1>5. ASSUME NEW r \in Requests PROVE Counted(r)' /\ Founded(r)'
    <2>1. CASE r \in open
      <3>1. request[r].at \in {"sending", "watching"} /\ lost'[r] = lost[r] + 1
        BY <1>1, <1>2, <2>1
      <3>2. Failed(r)[r] = [at |-> "failed", call |-> request[r].call]
        BY DEF Failed, WalletInv, WalletType
      <3>3. request'[r].at = "failed"
        BY <1>2, <2>1, <3>2
      <3> QED
        BY <1>2, <3>1, <3>3, AnswerLost
    <2>2. CASE r \notin open
      <3>1. request'[r] = request[r] /\ lost'[r] = lost[r]
        BY <1>2, <2>2 DEF WalletInv, WalletType
      <3> QED
        BY <1>2, <3>1, RequestKeeps
    <2> QED
      BY <2>1, <2>2
  <1>6. WalletType'
    BY <1>2, <1>3, <1>4 DEF WalletInv, WalletType
  <1> QED
    BY <1>5, <1>6 DEF WalletInv

\* The transaction joins the queue, paid for by the answer to come or by the lost one.
LEMMA WalletSends ==
    ASSUME WalletInv, NEW r \in Requests, SendCall(r)
    PROVE  WalletInv'
  <1>1. PICK T : T = [request : Requests, call : Call]
    OBVIOUS
  <1>2. PICK c : c = request[r].call /\ c \in Call
    BY DEF SendCall, WalletInv, Founded
  <1>3. PICK tx \in T : tx = [request |-> r, call |-> c]
    BY <1>1, <1>2
  <1>4. /\ mempool' = Append(mempool, tx) /\ request[r].at = "sending" /\ Accepted(c)
        /\ UNCHANGED <<funds, held, effects, drawn>>
    BY <1>2, <1>3 DEF SendCall
  <1>5. mempool \in Seq(T) /\ tx.request = r /\ tx.call = c
    BY <1>1, <1>3 DEF WalletInv, WalletType
  <1>6. mempool' \in Seq(T)
    BY <1>3, <1>4, <1>5, AppendProperties
  <1>7. \A s \in Requests : Cardinality(At(mempool, s)) \in Nat
    BY <1>5, AtFinite
  <1>8. \A s \in Requests : Cardinality(At(mempool', s))
                                = Cardinality(At(mempool, s)) + (IF r = s THEN 1 ELSE 0)
    BY <1>4, <1>5, AtAppended
  <1>9. /\ Len(mempool) \in Nat /\ Len(mempool') = Len(mempool) + 1
        /\ mempool'[Len(mempool) + 1] = tx
        /\ \A i \in 1..Len(mempool) : mempool'[i] = mempool[i]
    BY <1>4, <1>5, AppendProperties
  <1>10. \A s \in Requests : \A i \in At(mempool, s) : i \in At(mempool', s) /\ mempool'[i] = mempool[i]
    BY <1>5, <1>6, <1>9 DEF At
  <1>11. PICK k \in Nat : k \in At(mempool', r) /\ mempool'[k].call = c
    <2>1. Len(mempool) + 1 \in At(mempool', r) /\ mempool'[Len(mempool) + 1].call = c
      BY <1>5, <1>6, <1>9 DEF At
    <2> QED
      BY <1>9, <2>1
  <1>12. PICK m : m = [p \in Needs(c.kind) \cap Contested |-> drawn[p]]
    OBVIOUS
  <1>13. PICK w, f : /\ w = [at |-> "watching", call |-> c, since |-> m]
                     /\ f = [at |-> "failed", call |-> c]
    OBVIOUS
  <1>14. /\ w.at = "watching" /\ w.since = m /\ w.call = c /\ f.at = "failed"
         /\ \/ request' = [request EXCEPT ![r] = w] /\ lost' = lost
            \/ request' = [request EXCEPT ![r] = f] /\ lost' = [lost EXCEPT ![r] = @ + 1]
    BY <1>2, <1>12, <1>13 DEF SendCall, Watching, Failed
  <1>15. /\ request' = [s \in Requests |-> request'[s]]
         /\ lost' \in [Requests -> Nat]
         /\ \A s \in Requests \ {r} : request'[s] = request[s] /\ lost'[s] = lost[s]
         /\ \/ request'[r] = w /\ lost'[r] = lost[r]
            \/ request'[r] = f /\ lost'[r] = lost[r] + 1
    <2>1. /\ request = [s \in Requests |-> request[s]] /\ lost \in [Requests -> Nat]
      BY DEF WalletInv, WalletType
    <2>2. CASE request' = [request EXCEPT ![r] = w] /\ lost' = lost
      BY <2>1, <2>2
    <2>3. CASE request' = [request EXCEPT ![r] = f] /\ lost' = [lost EXCEPT ![r] = @ + 1]
      BY <2>1, <2>3
    <2> QED
      BY <1>14, <2>2, <2>3
  <1>16. Counted(r)'
    <2>1. PICK n \in Nat, e \in Nat, l \in Nat :
              n = Cardinality(At(mempool, r)) /\ e = effects[r] /\ l = lost[r]
      <3>1. effects[r] \in Nat /\ lost[r] \in Nat
        BY DEF WalletInv, WalletType
      <3> QED
        BY <1>7, <3>1, Zenon
    <2>2. e + n <= l
      <3>1. Counted(r) /\ Owed(r) = 0
        BY <1>4 DEF WalletInv, Owed
      <3> QED
        BY <2>1, <3>1 DEF Counted
    <2>3. Cardinality(At(mempool', r)) = n + 1 /\ effects'[r] = e
      BY <1>4, <1>8, <2>1
    <2>4. CASE request'[r] = w /\ lost'[r] = lost[r]
      <3>1. Owed(r)' = 1 /\ lost'[r] = l
        BY <1>14, <2>1, <2>4 DEF Owed
      <3>2. Counted(r)' <=> e + (n + 1) <= l + 1
        BY <2>3, <3>1 DEF Counted
      <3> QED
        BY <2>2, <3>2
    <2>5. CASE request'[r] = f /\ lost'[r] = lost[r] + 1
      <3>1. Owed(r)' = 0 /\ lost'[r] = l + 1
        BY <1>14, <2>1, <2>5 DEF Owed
      <3>2. Counted(r)' <=> e + (n + 1) <= (l + 1) + 0
        BY <2>3, <3>1 DEF Counted
      <3> QED
        BY <2>2, <3>2
    <2> QED
      BY <1>15, <2>4, <2>5
  <1>17. Founded(r)'
    <2>1. CASE request'[r] = w
      <3>1. PICK kind : kind = c.kind /\ kind \in Kinds
        BY <1>2 DEF Call
      <3>2. Accepted(c)'
        BY <1>4 DEF Accepted, Available
      <3>3. Pending(r, kind)'
        BY <1>11, <3>1, <3>2 DEF Pending
      <3>4. \A p \in Needs(kind) \cap Contested : m[p] \in Nat /\ m[p] <= drawn[p]
        BY <1>12, <3>1 DEF WalletInv, WalletType
      <3>5. SinceOK(kind, m)'
        BY <1>4, <3>1, <3>4 DEF SinceOK
      <3>6. request'[r].call.kind = kind /\ request'[r].since = m /\ request'[r].at = "watching"
        BY <1>14, <2>1, <3>1
      <3> QED
        BY <3>3, <3>5, <3>6 DEF Founded
    <2>2. CASE request'[r] = f
      BY <1>14, <2>2 DEF Founded
    <2> QED
      BY <1>15, <2>1, <2>2
  <1>18. ASSUME NEW s \in Requests \ {r} PROVE Counted(s)' /\ Founded(s)'
    <2>1. /\ Counted(s) /\ Founded(s) /\ effects[s] \in Nat /\ effects'[s] = effects[s]
          /\ drawn \in [Contested -> Nat] /\ drawn' = drawn /\ request'[s] = request[s]
      BY <1>4, <1>15 DEF WalletInv, WalletType
    <2>2. Counted(s)'
      <3>1. Cardinality(At(mempool', s)) = Cardinality(At(mempool, s)) /\ Owed(s)' = Owed(s)
        BY <1>7, <1>8, <1>15 DEF Owed
      <3> QED
        BY <1>4, <1>15, <2>1, <3>1 DEF Counted
    <2>3. ASSUME NEW i \in At(mempool, s), Accepted(mempool[i].call)
          PROVE  Accepted(mempool[i].call)'
      BY <1>4, <1>10, <2>3 DEF Accepted, Available
    <2>4. ASSUME Pending(s, request[s].call.kind) PROVE Pending(s, request[s].call.kind)'
      BY <1>10, <2>1, <2>3, <2>4 DEF Pending
    <2>5. \A p \in Contested : drawn[p] <= drawn'[p]
      BY <2>1
    <2>6. effects[s] <= effects'[s] /\ effects'[s] \in Nat /\ drawn' \in [Contested -> Nat]
      BY <2>1
    <2>7. Founded(s)'
      BY <2>1, <2>4, <2>5, <2>6, FoundedKeeps
    <2> QED
      BY <2>2, <2>7
  <1>19. WalletType'
    BY <1>1, <1>4, <1>6, <1>15 DEF WalletInv, WalletType, Call, Kinds, Escrows
  <1> QED
    BY <1>16, <1>17, <1>18, <1>19 DEF WalletInv

\* A call whose pots another draws nothing from is accepted as before.
LEMMA MoveKeeps ==
    ASSUME WalletType, NEW c \in Call, NEW d \in Call, Accepted(d),
           funds' = MoveFunds(c), held' = MoveHeld(c), Takes(c.kind) \cap Needs(d.kind) = {}
    PROVE  Accepted(d)'
  <1>1. PICK e \in Escrows, x \in Nat, g \in Escrows :
            e = c.escrow /\ x = c.amount /\ g = d.escrow
    BY WalletAssumption DEF Call
  <1> SUFFICES ASSUME NEW p \in Needs(d.kind)
               PROVE  Available(p, g)' >= Required(p, d)
    BY <1>1 DEF Accepted, Required
  <1>2. p \notin Takes(c.kind) /\ p \in Pots
    BY NeedsPots DEF Call
  <1>3. Required(p, d) \in Nat /\ Available(p, g) >= Required(p, d)
    BY <1>1, WalletAssumption DEF Accepted, Required, Call
  <1>4. ASSUME NEW was \in Int PROVE After(p, was, c) \in Int /\ After(p, was, c) >= was
    BY <1>1, <1>2 DEF After
  <1>5. CASE p \in WalletPots
    <2>1. Available(p, g) = funds[p] /\ Available(p, g)' = After(p, funds[p], c) /\ funds[p] \in Int
      BY <1>5 DEF Available, MoveFunds, WalletType
    <2> QED
      BY <1>3, <1>4, <2>1
  <1>6. CASE p \notin WalletPots
    <2>1. p \in EscrowPots /\ held[g][p] \in Int
      BY <1>2, <1>6 DEF Pots, WalletType
    <2>2. Available(p, g) = held[g][p] /\ Available(p, g)' = held'[g][p]
      BY <1>6 DEF Available
    <2>3. CASE e = g
      <3>1. held'[g][p] = After(p, held[g][p], c)
        BY <1>1, <2>1, <2>3 DEF MoveHeld, WalletType
      <3> QED
        BY <1>3, <1>4, <2>1, <2>2, <3>1
    <2>4. CASE e # g
      <3>1. held'[g] = held[g]
        BY <1>1, <2>4 DEF MoveHeld, WalletType
      <3> QED
        BY <1>3, <2>2, <3>1
    <2> QED
      BY <2>3, <2>4
  <1> QED
    BY <1>5, <1>6

LEMMA MoveTyped ==
    ASSUME WalletType, NEW c \in Call, funds' = MoveFunds(c), held' = MoveHeld(c)
    PROVE  funds' \in [WalletPots -> Int] /\ held' \in [Escrows -> [EscrowPots -> Int]]
  <1>1. PICK e \in Escrows, x \in Nat : e = c.escrow /\ x = c.amount
    BY WalletAssumption DEF Call
  <1>2. ASSUME NEW p, NEW was \in Int PROVE After(p, was, c) \in Int
    BY <1>1 DEF After
  <1>3. funds' \in [WalletPots -> Int]
    BY <1>2 DEF MoveFunds, WalletType
  <1>4. PICK pots : pots = [p \in EscrowPots |-> After(p, held[e][p], c)]
    OBVIOUS
  <1>5. pots \in [EscrowPots -> Int]
    BY <1>1, <1>2, <1>4 DEF WalletType
  <1>6. held' = [held EXCEPT ![e] = pots]
    BY <1>1, <1>4 DEF MoveHeld
  <1> QED
    BY <1>3, <1>5, <1>6 DEF WalletType

LEMMA DrawnCounted ==
    ASSUME drawn \in [Contested -> Nat], NEW pots, drawn' = CountDrawn(pots)
    PROVE  /\ drawn' \in [Contested -> Nat]
           /\ \A p \in Contested : drawn[p] <= drawn'[p]
           /\ \A p \in Contested \cap pots : drawn[p] < drawn'[p]
  BY DEF CountDrawn

\* A transaction is mined: with effect it is counted in another place, and what it draws
\* on is counted for whoever needs it; without effect all stays as it is.
LEMMA WalletMines ==
    ASSUME WalletInv, NEW i \in DOMAIN mempool, MineCall(i)
    PROVE  WalletInv'
  <1>1. PICK T : T = [request : Requests, call : Call]
    OBVIOUS
  <1>2. WalletType
    BY DEF WalletInv
  <1>3. mempool \in Seq(T) /\ i \in 1..Len(mempool) /\ Len(mempool) \in Nat
    BY <1>1, <1>2 DEF WalletType
  <1>4. PICK q \in Requests, c \in Call : q = mempool[i].request /\ c = mempool[i].call
    <2>1. mempool[i] \in T
      BY <1>3, ElementOfSeq
    <2> QED
      BY <1>1, <2>1
  <1>5. /\ mempool' = RemoveAt(mempool, i) /\ UNCHANGED <<request, lost>>
        /\ c.kind = "depositDot" => Accepted(c)
    BY <1>4 DEF MineCall
  <1>6. /\ mempool' \in Seq(T) /\ Len(mempool') = Len(mempool) - 1
        /\ \A j \in 1..(Len(mempool) - 1) : mempool'[j] = mempool[IF j < i THEN j ELSE j + 1]
    BY <1>3, <1>5, RemoveAtShifts
  <1>7. \A r \in Requests : /\ Cardinality(At(mempool, r)) \in Nat
                            /\ Cardinality(At(mempool', r)) \in Nat
    BY <1>3, <1>6, AtFinite
  <1>8. \A r \in Requests : Cardinality(At(mempool', r))
                                <= Cardinality(At(mempool, r)) - (IF q = r THEN 1 ELSE 0)
    BY <1>3, <1>4, <1>5, AtRemoved
  <1>9. \A r \in Requests : Counted(r) /\ Founded(r) /\ effects[r] \in Nat /\ lost[r] \in Nat
    BY DEF WalletInv, WalletType
  <1>10. drawn \in [Contested -> Nat] /\ effects \in [Requests -> Nat]
    BY <1>2 DEF WalletType
  <1>11. \A r \in Requests : Owed(r)' = Owed(r) /\ Owed(r) \in Nat
    BY <1>5 DEF Owed
  <1>12. ASSUME NEW r \in Requests, NEW j \in At(mempool, r), j # i
         PROVE  \E k \in At(mempool', r) : mempool'[k] = mempool[j]
    <2>1. j \in 1..Len(mempool) /\ j # i /\ mempool[j].request = r
      BY <1>3, <1>12 DEF At
    <2>2. PICK k \in 1..(Len(mempool) - 1) : (IF k < i THEN k ELSE k + 1) = j
      <3>1. CASE j < i
        BY <1>3, <2>1, <3>1
      <3>2. CASE j > i
        <4>1. j - 1 \in 1..(Len(mempool) - 1) /\ ~(j - 1 < i) /\ (j - 1) + 1 = j
          BY <1>3, <2>1, <3>2
        <4> QED
          BY <4>1
      <3> QED
        BY <1>3, <2>1, <3>1, <3>2
    <2>3. mempool'[k] = mempool[j]
      BY <1>6, <2>2
    <2>4. k \in At(mempool', r)
      BY <1>6, <2>1, <2>3 DEF At
    <2> QED
      BY <2>3, <2>4
  <1>13. ASSUME NEW r \in Requests, NEW j \in At(mempool, r) PROVE mempool[j].call \in Call
    <2>1. mempool[j] \in T
      BY <1>3, <1>13, ElementOfSeq DEF At
    <2> QED
      BY <1>1, <2>1
  <1>14. CASE Accepted(c)
    <2>1. /\ effects' = [effects EXCEPT ![q] = @ + 1] /\ drawn' = CountDrawn(Takes(c.kind))
          /\ funds' = MoveFunds(c) /\ held' = MoveHeld(c)
      BY <1>4, <1>14 DEF MineCall
    <2>2. /\ effects' \in [Requests -> Nat] /\ drawn' \in [Contested -> Nat]
          /\ \A p \in Contested : drawn[p] <= drawn'[p]
          /\ \A p \in Contested \cap Takes(c.kind) : drawn[p] < drawn'[p]
          /\ funds' \in [WalletPots -> Int] /\ held' \in [Escrows -> [EscrowPots -> Int]]
      <3>1. effects' \in [Requests -> Nat]
        BY <1>10, <2>1
      <3> QED
        BY <1>2, <1>10, <2>1, <3>1, MoveTyped, DrawnCounted
    <2>3. ASSUME NEW r \in Requests PROVE Counted(r)'
      <3>1. PICK e \in Nat, l \in Nat, n \in Nat, m \in Nat, o \in Nat, d \in {0, 1} :
                /\ e = effects[r] /\ l = lost[r] /\ n = Cardinality(At(mempool, r))
                /\ m = Cardinality(At(mempool', r)) /\ o = Owed(r)
                /\ d = IF q = r THEN 1 ELSE 0
        <4>1. (IF q = r THEN 1 ELSE 0) \in {0, 1}
          OBVIOUS
        <4> QED
          BY <1>7, <1>9, <1>11, <4>1, Zenon
      <3>2. e + n <= l + o /\ m <= n - d
        BY <1>8, <1>9, <3>1 DEF Counted
      <3>3. effects'[r] = e + d /\ lost'[r] = l /\ Owed(r)' = o
        BY <1>5, <1>10, <1>11, <2>1, <3>1
      <3>4. (e + d) + m <= l + o
        BY <3>2
      <3> QED
        BY <3>1, <3>3, <3>4 DEF Counted
    <2>4. ASSUME NEW r \in Requests PROVE Founded(r)'
      <3>1. effects[r] \in Nat /\ effects'[r] \in Nat /\ effects[r] <= effects'[r]
        BY <1>10, <2>1, <2>2
      <3>2. ASSUME NEW kind, NEW since, SinceOK(kind, since), Pending(r, kind)
            PROVE  effects'[r] >= 1 \/ Drained(kind, since)' \/ Pending(r, kind)'
        <4>1. PICK j \in At(mempool, r) :
                  mempool[j].call.kind = kind /\ (kind = "depositDot" \/ Accepted(mempool[j].call))
          BY <3>2 DEF Pending
        <4>2. PICK d \in Call : d = mempool[j].call
          BY <1>13, <4>1
        <4>3. CASE j = i
          <5>1. q = r
            BY <1>4, <4>1, <4>3 DEF At
          <5> QED
            BY <1>9, <1>10, <2>1, <5>1
        <4>4. CASE j # i
          <5>1. PICK k \in At(mempool', r) : mempool'[k] = mempool[j]
            BY <1>12, <4>4
          <5>2. CASE kind = "depositDot"
            BY <4>1, <5>1, <5>2 DEF Pending
          <5>3. CASE kind # "depositDot" /\ Takes(c.kind) \cap Needs(kind) = {}
            <6>1. Accepted(d)'
              BY <1>2, <2>1, <4>1, <4>2, <5>3, MoveKeeps
            <6> QED
              BY <4>1, <4>2, <5>1, <6>1 DEF Pending
          <5>4. CASE kind # "depositDot" /\ Takes(c.kind) \cap Needs(kind) # {}
            <6>1. PICK p \in Needs(kind) \cap Contested : p \in Takes(c.kind)
              BY <3>2, <5>4, NeedsPots DEF SinceOK
            <6>2. /\ drawn[p] < drawn'[p] /\ drawn[p] \in Nat /\ drawn'[p] \in Nat
                  /\ since[p] \in Nat /\ since[p] <= drawn[p]
              BY <1>10, <2>2, <3>2, <6>1 DEF SinceOK
            <6>3. drawn'[p] > since[p]
              BY <6>2
            <6> QED
              BY <6>1, <6>3 DEF Drained
          <5> QED
            BY <5>2, <5>3, <5>4
        <4> QED
          BY <4>3, <4>4
      <3> QED
        BY <1>5, <1>9, <1>10, <2>2, <3>1, <3>2, FoundedKeeps
    <2>5. WalletType'
      BY <1>1, <1>2, <1>5, <1>6, <2>2 DEF WalletType, Call, Kinds, Escrows
    <2> QED
      BY <2>3, <2>4, <2>5 DEF WalletInv
  <1>15. CASE ~Accepted(c)
    <2>1. UNCHANGED <<funds, held, effects, drawn>>
      BY <1>4, <1>15 DEF MineCall
    <2>2. ASSUME NEW r \in Requests PROVE Counted(r)'
      <3>1. PICK e \in Nat, l \in Nat, n \in Nat, m \in Nat, o \in Nat :
                /\ e = effects[r] /\ l = lost[r] /\ n = Cardinality(At(mempool, r))
                /\ m = Cardinality(At(mempool', r)) /\ o = Owed(r)
        BY <1>7, <1>9, <1>11, Zenon
      <3>2. e + n <= l + o /\ m <= n
        BY <1>8, <1>9, <3>1 DEF Counted
      <3>3. effects'[r] = e /\ lost'[r] = l /\ Owed(r)' = o
        BY <1>5, <1>11, <2>1, <3>1
      <3>4. e + m <= l + o
        BY <3>2
      <3> QED
        BY <3>1, <3>3, <3>4 DEF Counted
    <2>3. ASSUME NEW d, Accepted(d) PROVE Accepted(d)'
      BY <2>1, <2>3 DEF Accepted, Available
    <2>4. ASSUME NEW r \in Requests PROVE Founded(r)'
      <3>1. ASSUME NEW kind, Pending(r, kind) PROVE Pending(r, kind)'
        <4>1. PICK j \in At(mempool, r) :
                  mempool[j].call.kind = kind /\ (kind = "depositDot" \/ Accepted(mempool[j].call))
          BY <3>1 DEF Pending
        <4>2. j # i
          BY <1>4, <1>5, <1>15, <4>1
        <4>3. PICK k \in At(mempool', r) : mempool'[k] = mempool[j]
          BY <1>12, <4>2
        <4>4. PICK d : d = mempool[j].call /\ d = mempool'[k].call
          BY <4>3
        <4>5. kind = "depositDot" \/ Accepted(d)'
          BY <2>3, <4>1, <4>4
        <4> QED
          BY <4>1, <4>3, <4>4, <4>5 DEF Pending
      <3>2. /\ effects[r] \in Nat /\ effects'[r] \in Nat /\ effects[r] <= effects'[r]
            /\ drawn' \in [Contested -> Nat] /\ \A p \in Contested : drawn[p] <= drawn'[p]
        BY <1>9, <1>10, <2>1
      <3> QED
        BY <1>5, <1>9, <1>10, <3>1, <3>2, FoundedKeeps
    <2>5. WalletType'
      BY <1>1, <1>2, <1>5, <1>6, <2>1 DEF WalletType, Call, Kinds, Escrows
    <2> QED
      BY <2>2, <2>4, <2>5 DEF WalletInv
  <1> QED
    BY <1>14, <1>15

\* Whoever changes a pot leaves it as good for every call that needs it, or has drawn on it.
LEMMA WalletMeetsOthers ==
    ASSUME WalletInv, NEW p \in Pots, NEW escrow \in Escrows, NEW value \in Int,
           OthersChange(p, escrow, value)
    PROVE  WalletInv'
  <1>1. WalletType /\ UNCHANGED <<mempool, request, effects, lost>>
    BY DEF WalletInv, OthersChange
  <1>2. PICK was \in Int : was = Available(p, escrow)
    BY <1>1 DEF Available, WalletType, Pots
  <1>3. PICK pots : pots = (IF value < was THEN {p} ELSE {}) /\ drawn' = CountDrawn(pots)
    BY <1>2 DEF OthersChange
  <1>4. /\ drawn \in [Contested -> Nat] /\ drawn' \in [Contested -> Nat]
        /\ \A x \in Contested : drawn[x] <= drawn'[x]
        /\ \A x \in Contested \cap pots : drawn[x] < drawn'[x]
    BY <1>1, <1>3, DrawnCounted DEF WalletType
  <1>5. funds' \in [WalletPots -> Int] /\ held' \in [Escrows -> [EscrowPots -> Int]]
    <2>1. CASE p \in WalletPots
      BY <1>1, <2>1 DEF OthersChange, WalletType
    <2>2. CASE p \notin WalletPots
      <3>1. p \in EscrowPots /\ held[escrow] \in [EscrowPots -> Int]
        BY <1>1, <2>2 DEF Pots, WalletType
      <3>2. PICK now \in [EscrowPots -> Int] : now = [held[escrow] EXCEPT ![p] = value]
        <4>1. PICK h \in [EscrowPots -> Int] : h = held[escrow]
          BY <3>1
        <4>2. [h EXCEPT ![p] = value] \in [EscrowPots -> Int]
          BY <3>1
        <4> QED
          BY <4>1, <4>2
      <3>3. held' = [held EXCEPT ![escrow] = now] /\ funds' = funds
        BY <2>2, <3>2 DEF OthersChange
      <3> QED
        BY <1>1, <3>2, <3>3 DEF WalletType
    <2> QED
      BY <2>1, <2>2
  <1>6. ASSUME NEW x \in Pots, NEW g \in Escrows
        PROVE  \/ Available(x, g)' = Available(x, g)
               \/ x = p /\ Available(x, g) = was /\ Available(x, g)' = value
    <2>1. CASE p \in WalletPots
      <3>1. funds' = [funds EXCEPT ![p] = value] /\ held' = held /\ funds[p] = was
        BY <1>2, <2>1 DEF OthersChange, Available
      <3>2. CASE x = p
        BY <1>1, <2>1, <3>1, <3>2 DEF Available, WalletType
      <3>3. CASE x # p
        BY <1>1, <2>1, <3>1, <3>3 DEF Available, WalletType
      <3> QED
        BY <3>2, <3>3
    <2>2. CASE p \notin WalletPots
      <3>1. p \in EscrowPots /\ held[escrow] \in [EscrowPots -> Int] /\ held[escrow][p] = was
        BY <1>1, <1>2, <2>2 DEF Pots, WalletType, Available
      <3>2. PICK now : now = [held[escrow] EXCEPT ![p] = value]
        OBVIOUS
      <3>3. held' = [held EXCEPT ![escrow] = now] /\ funds' = funds
        BY <2>2, <3>2 DEF OthersChange
      <3>4. CASE g = escrow /\ x = p
        <4>1. held'[g][x] = value
          BY <1>1, <3>1, <3>2, <3>3, <3>4 DEF WalletType
        <4> QED
          BY <2>2, <3>1, <3>4, <4>1 DEF Available
      <3>5. CASE g = escrow /\ x # p /\ x \notin WalletPots
        <4>1. x \in EscrowPots
          BY <3>5 DEF Pots
        <4>2. held'[g][x] = held[g][x]
          BY <1>1, <3>1, <3>2, <3>3, <3>5, <4>1 DEF WalletType
        <4> QED
          BY <3>5, <4>2 DEF Available
      <3>6. CASE g # escrow /\ x \notin WalletPots
        <4>1. held'[g] = held[g]
          BY <1>1, <3>3, <3>6 DEF WalletType
        <4> QED
          BY <3>6, <4>1 DEF Available
      <3>7. CASE x \in WalletPots
        BY <3>3, <3>7 DEF Available
      <3> QED
        BY <2>2, <3>4, <3>5, <3>6, <3>7
    <2> QED
      BY <2>1, <2>2
  <1>7. ASSUME NEW d \in Call, Accepted(d), p \notin Needs(d.kind) \/ ~(value < was)
        PROVE  Accepted(d)'
    <2> SUFFICES ASSUME NEW x \in Needs(d.kind)
                 PROVE  Available(x, d.escrow)' >= Required(x, d)
      BY DEF Accepted, Required
    <2>1. x \in Pots /\ d.escrow \in Escrows
      BY NeedsPots DEF Call
    <2>2. Required(x, d) \in Nat /\ Available(x, d.escrow) >= Required(x, d)
      BY <1>7, WalletAssumption DEF Accepted, Required, Call
    <2>3. CASE Available(x, d.escrow)' = Available(x, d.escrow)
      BY <2>2, <2>3
    <2>4. CASE x = p /\ Available(x, d.escrow) = was /\ Available(x, d.escrow)' = value
      <3>1. ~(value < was)
        BY <1>7, <2>4
      <3> QED
        BY <2>2, <2>4, <3>1
    <2> QED
      BY <1>6, <2>1, <2>3, <2>4
  <1>8. ASSUME NEW r \in Requests PROVE Counted(r)' /\ Founded(r)'
    <2>1. Counted(r) /\ Founded(r) /\ effects[r] \in Nat
      BY <1>1 DEF WalletInv, WalletType
    <2>2. Counted(r)'
      BY <1>1, <2>1 DEF Counted, Owed, At
    <2>3. ASSUME NEW kind, NEW since, SinceOK(kind, since), Pending(r, kind)
          PROVE  effects'[r] >= 1 \/ Drained(kind, since)' \/ Pending(r, kind)'
      <3>1. PICK i \in At(mempool, r) :
                mempool[i].call.kind = kind /\ (kind = "depositDot" \/ Accepted(mempool[i].call))
        BY <2>3 DEF Pending
      <3>2. PICK d \in Call : d = mempool[i].call
        <4>1. PICK T : T = [request : Requests, call : Call]
          OBVIOUS
        <4>2. mempool \in Seq(T) /\ i \in 1..Len(mempool)
          BY <1>1, <3>1, <4>1 DEF At, WalletType
        <4>3. mempool[i] \in T
          BY <4>2, ElementOfSeq
        <4> QED
          BY <4>1, <4>3
      <3>3. CASE kind = "depositDot" \/ p \notin Needs(kind) \/ ~(value < was)
        <4>1. kind = "depositDot" \/ Accepted(d)'
          BY <1>7, <3>1, <3>2, <3>3
        <4>2. i \in At(mempool', r) /\ mempool'[i].call = d
          BY <1>1, <3>1, <3>2 DEF At
        <4> QED
          BY <3>1, <3>2, <4>1, <4>2 DEF Pending
      <3>4. CASE kind # "depositDot" /\ p \in Needs(kind) /\ value < was
        <4>1. p \in Needs(kind) \cap Contested /\ p \in pots
          BY <1>3, <2>3, <3>4, NeedsPots DEF SinceOK
        <4>2. /\ drawn[p] < drawn'[p] /\ drawn[p] \in Nat /\ drawn'[p] \in Nat
              /\ since[p] \in Nat /\ since[p] <= drawn[p]
          BY <1>4, <2>3, <4>1 DEF SinceOK
        <4>3. drawn'[p] > since[p]
          BY <4>2
        <4> QED
          BY <4>1, <4>3 DEF Drained
      <3> QED
        BY <3>3, <3>4
    <2>4. effects'[r] \in Nat /\ effects[r] <= effects'[r] /\ request'[r] = request[r]
      BY <1>1, <2>1
    <2>5. Founded(r)'
      BY <1>4, <2>1, <2>3, <2>4, FoundedKeeps
    <2> QED
      BY <2>2, <2>5
  <1>9. WalletType'
    BY <1>1, <1>4, <1>5 DEF WalletType
  <1> QED
    BY <1>8, <1>9 DEF WalletInv

LEMMA WalletSteps ==
    ASSUME WalletInv, StartInv, Serving, WalletStep
    PROVE  WalletInv'
  <1>1. CASE \E r \in Requests, kind \in Kinds, amount \in CallAmounts : Handle(r, kind, amount)
    BY <1>1, WalletHandles
  <1>2. CASE \E r \in Requests : SendFails(r)
    BY <1>2, WalletSendFails
  <1>3. CASE \E r \in Requests : SendCall(r)
    BY <1>3, WalletSends
  <1>4. CASE \E r \in Requests : ConfirmCall(r)
    BY <1>4, WalletConfirms
  <1>5. CASE \E r \in Requests : LoseCall(r)
    BY <1>5, WalletLoses
  <1> QED
    BY <1>1, <1>2, <1>3, <1>4, <1>5
    DEF WalletStep, DepositDot, DepositUsdcAsDot, WithdrawDot, WithdrawProvider, Kinds

LEMMA WalletAmongOthers ==
    ASSUME WalletInv, Others
    PROVE  WalletInv'
  <1>1. PICK p \in Pots, escrow \in Escrows :
            \E value \in 0..(Available(p, escrow) + 1) : OthersChange(p, escrow, value)
    BY DEF Others
  <1>2. PICK value \in 0..(Available(p, escrow) + 1) : OthersChange(p, escrow, value)
    BY <1>1
  <1>3. value \in Int
    BY <1>2
  <1> QED
    BY <1>2, <1>3, WalletMeetsOthers

-------------------------------------------------------------------------------
\* The process.

ServicesInv == LoopInv /\ StartInv /\ AttestationInv /\ WalletInv

LEMMA LoopRests ==
    ASSUME LoopInv, UNCHANGED loopVars
    PROVE  LoopInv'
  BY DEF loopVars, LoopInv, BatchesStored, CountsDown, TeeEvery, EpochEvery

LEMMA StartRests ==
    ASSUME StartInv, UNCHANGED startVars
    PROVE  StartInv'
  <1>1. UNCHANGED <<layers, networkConfig, boot>>
    BY DEF startVars
  <1>2. AddressesResolved'
    BY <1>1, ConfiguredSame DEF StartInv, AddressesResolved
  <1> QED
    BY <1>1, <1>2, ConfiguredSame
    DEF StartInv, NetworkOK, ReadsInOrder, UpOK, Version, WereCurrent, Addresses, Escrows

LEMMA AttestationRests ==
    ASSUME AttestationInv, UNCHANGED attestationVars
    PROVE  AttestationInv'
  BY DEF attestationVars, AttestationInv, Asking, HashFresh, SnapshotHonest

LEMMA WalletRests ==
    ASSUME WalletInv, UNCHANGED walletVars
    PROVE  WalletInv'
  <1>1. \A r \in Requests : Counted(r)' /\ Founded(r)'
    BY RequestKeeps DEF walletVars
  <1>2. WalletType'
    BY DEF walletVars, WalletInv, WalletType
  <1> QED
    BY <1>1, <1>2 DEF WalletInv

LEMMA ServicesStart ==
    Init => ServicesInv
  <1> SUFFICES ASSUME Init PROVE ServicesInv
    OBVIOUS
  <1>1. LoopInv
    BY DEF Init, LoopInit, LoopInv, NoLoop
  <1>2. StartInv
    BY DEF Init, StartInit, NoBoot, StartInv, NetworkOK, AddressesResolved, Addresses
  <1>3. AttestationInv
    BY AttestationRestarts DEF Init, AttestationInit
  <1>4. WalletInv
    BY WalletStarts DEF Init
  <1> QED
    BY <1>1, <1>2, <1>3, <1>4 DEF ServicesInv

\* One service moves at a time, but for a stop, which takes all of them down.
LEMMA ServicesSteps ==
    ServicesInv /\ [Next]_vars => ServicesInv'
  <1> SUFFICES ASSUME ServicesInv, [Next]_vars PROVE ServicesInv'
    OBVIOUS
  <1>1. LoopInv /\ StartInv /\ AttestationInv /\ WalletInv
    BY DEF ServicesInv
  <1>2. CASE StartOnly
    BY <1>1, <1>2, StartSteps, LoopRests, AttestationRests, WalletRests DEF StartOnly, ServicesInv
  <1>3. CASE LoopOnly
    BY <1>1, <1>3, LoopStarting, LoopWakes, StartRests, AttestationRests, WalletRests
    DEF LoopOnly, ServicesInv
  <1>4. CASE AttestationOnly
    BY <1>1, <1>4, AttestationSteps, LoopRests, StartRests, WalletRests
    DEF AttestationOnly, ServicesInv
  <1>5. CASE WalletOnly
    BY <1>1, <1>5, WalletSteps, LoopRests, StartRests, AttestationRests DEF WalletOnly, ServicesInv
  <1>6. CASE ProcessStops
    <2>1. LoopInv'
      BY <1>1, <1>6 DEF ProcessStops, LoopStops, LoopInv
    <2>2. StartInv'
      BY <1>1, <1>6, StartStops DEF ProcessStops
    <2>3. WalletInv'
      BY <1>1, <1>6, WalletSurvivesStop DEF ProcessStops
    <2>4. AttestationInv'
      <3>1. /\ attestation' \in AttestationConfigs
            /\ cache' = NoCache /\ ui' = Snapshot("unknown", NoHash)
            /\ refresh' = [r \in Refreshers |-> Idle] /\ last' = NoHash
        BY <1>1, <1>6 DEF ProcessStops, AttestationStops, AttestationInv
      <3>2. (/\ attestation \in AttestationConfigs
             /\ cache = NoCache /\ ui = Snapshot("unknown", NoHash)
             /\ refresh = [r \in Refreshers |-> Idle] /\ last = NoHash)'
        BY <3>1 DEF Snapshot, NoCache, Idle
      <3> QED
        BY <3>2, AttestationRestarts, PTL
    <2> QED
      BY <2>1, <2>2, <2>3, <2>4 DEF ServicesInv
  <1>7. CASE TimePasses
    BY <1>1, <1>7, AttestationTicks, LoopRests, StartRests, WalletRests DEF TimePasses, ServicesInv
  <1>8. CASE ChainMines
    BY <1>1, <1>8, WalletMines, LoopRests, StartRests, AttestationRests DEF ChainMines, ServicesInv
  <1>9. CASE OwnerUpdates
    BY <1>1, <1>9, StartSurvivesUpdate, LoopRests, AttestationRests, WalletRests
    DEF OwnerUpdates, ServicesInv
  <1>10. CASE OthersAct
    BY <1>1, <1>10, WalletAmongOthers, LoopRests, StartRests, AttestationRests
    DEF OthersAct, ServicesInv
  <1>11. CASE UNCHANGED vars
    BY <1>1, <1>11, LoopRests, StartRests, AttestationRests, WalletRests DEF vars, ServicesInv
  <1> QED
    BY <1>2, <1>3, <1>4, <1>5, <1>6, <1>7, <1>8, <1>9, <1>10, <1>11 DEF Next

\* Whatever the services of a process do side by side, across its stops and starts,
\* each keeps what it knows of its own state.
THEOREM ServicesInvariance == Spec => []ServicesInv
  BY ServicesStart, ServicesSteps, PTL DEF Spec

\* The epoch batches of run_epoch_loop are on schedule for any two periods, zero
\* included, and the store holds above them only what earlier processes wrote.
THEOREM BatchesAlwaysOnSchedule == Spec => []BatchesOnSchedule
  BY ServicesInvariance, LoopImplies, PTL DEF ServicesInv

\* A node works with the two addresses of its configuration, or with two that were the
\* contract's while they were read one by one, the escrow's moment no earlier than the
\* registry's, whatever addresses the owner set meanwhile, earlier ones and zero included.
THEOREM AddressesAlwaysResolved == Spec => []AddressesResolved
  <1>1. ServicesInv => AddressesResolved
    BY DEF ServicesInv, StartInv
  <1> QED
    BY <1>1, ServicesInvariance, PTL

\* A hash that refresh_nras_tee_report_hash hands out stands for a verification within the
\* time to live, or older by at most one exchange, however many refreshers take turns
\* at the lock.
THEOREM HashAlwaysFresh == Spec => []HashFresh
  <1>1. ServicesInv => HashFresh
    BY DEF ServicesInv, AttestationInv
  <1> QED
    BY <1>1, ServicesInvariance, PTL

\* The snapshot on the HTTP surface tells what the last refresh decided: "verified"
\* exactly if a hash was handed out, that hash, and it is the cached one.
THEOREM SnapshotAlwaysHonest == Spec => []SnapshotHonest
  <1>1. ServicesInv => SnapshotHonest
    BY DEF ServicesInv, AttestationInv
  <1> QED
    BY <1>1, ServicesInvariance, PTL

\* A wallet request repeated until it is answered moves money at most once more than
\* answers to it were lost, for any number of requests, stops and lost answers.
THEOREM AlwaysMovedOncePerAnswer == Spec => []MovedOncePerAnswer
  <1>1. ServicesInv => MovedOncePerAnswer
    BY WalletImplies DEF ServicesInv
  <1> QED
    BY <1>1, ServicesInvariance, PTL

\* A wallet call answered with success took effect, unless between its simulation and its
\* block somebody drew on a pot it needs, the oracle's price and the node's operator
\* counted among them, for any number of calls and of changes by others.
THEOREM ConfirmedAlwaysTookEffect == Spec => []ConfirmedTookEffect
  <1>1. ServicesInv => ConfirmedTookEffect
    BY WalletImplies DEF ServicesInv
  <1> QED
    BY <1>1, ServicesInvariance, PTL
===============================================================================
