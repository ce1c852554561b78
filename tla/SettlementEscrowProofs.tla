------------------------ MODULE SettlementEscrowProofs ------------------------
(***************************************************************************)
(* Proofs that the escrow's books hold for any number of users, nodes and  *)
(* sessions, any amounts, prices and fees.                                 *)
(***************************************************************************)
EXTENDS EscrowLedger, EscrowSumsProofs

\* The slots below nextSessionId hold sessions of real users and nodes, the
\* others were never written.
SessionShape ==
    \A id \in SessionIds :
        IF id < nextSessionId
        THEN /\ sessionById[id].user \in Accounts
             /\ sessionById[id].nodeId \in Nodes
             /\ sessionById[id].modelId \in Models
        ELSE sessionById[id] = NoSession

\* The inductive invariant.  TypeOK alone is not inductive: that a subtraction
\* from totalLockedInternal or internalCirculating stays natural needs the two
\* conservation laws, and that a payout stays within a lock needs the books.
MoneyInv ==
    /\ MoneyTypeOK
    /\ SessionShape
    /\ SessionBooks
    /\ LocksConserved
    /\ CirculatingConserved
    /\ OpenCountsMatch

moneyVars == <<balances, caches, sessionVars>>

-------------------------------------------------------------------------------
\* Arithmetic.

\* Integer division of naturals, as Solidity rounds it, is natural.
LEMMA DivNat ==
    ASSUME NEW a \in Nat, NEW b \in Nat \ {0}
    PROVE  a \div b \in Nat
  OBVIOUS

\* The product of naturals is natural.
LEMMA MulNat ==
    ASSUME NEW a \in Nat, NEW b \in Nat
    PROVE  a * b \in Nat
  OBVIOUS

\* A fraction of at most 1 of an amount, rounded down, is at most the amount.
LEMMA FractionBound ==
    ASSUME NEW t \in Nat, NEW k \in Nat, NEW b \in Nat \ {0}, k <= b
    PROVE  (t * k) \div b \in 0..t
  <1> DEFINE q == (t * k) \div b
  <1>1. t * k \in Nat /\ t * b \in Nat
    BY MulNat
  <1>2. t * k <= t * b
    BY SMT
  <1>3. q \in Nat
    BY <1>1, DivNat
  <1>4. q * b <= t * k
    BY <1>1, SMT
  <1>5. q <= t
    <2> HIDE DEF q
    <2> SUFFICES ASSUME q > t PROVE FALSE
      BY <1>3
    <2>1. q >= t + 1
      BY <1>3
    <2>2. q * b >= (t + 1) * b
      BY <2>1, <1>3, SMT
    <2>3. (t + 1) * b = t * b + b
      BY SMT
    <2> QED
      BY <1>1, <1>2, <1>4, <2>2, <2>3, <1>3, SMT
  <1> QED
    BY <1>3, <1>5

\* The protocol fee of _settle never exceeds the payout it is taken from.
LEMMA FeeBound ==
    ASSUME ConfigTypeOK, NEW toProvider \in Nat
    PROVE  ProtocolFee(toProvider) \in 0..toProvider
  <1>1. /\ protocolFeeBps \in Nat
        /\ protocolFeeBps <= BPS_DENOM
        /\ BPS_DENOM \in Nat \ {0}
    BY ScaleAssumption DEF ConfigTypeOK
  <1>2. (toProvider * protocolFeeBps) \div BPS_DENOM \in 0..toProvider
    BY <1>1, FractionBound
  <1> QED
    BY <1>2 DEF ProtocolFee

\* What one usage report costs is natural.
LEMMA CostNat ==
    ASSUME ConfigTypeOK, NEW tier, NEW price \in Price, NEW i \in Nat, NEW o \in Nat
    PROVE  UsageCost(tier, price, i, o) \in Nat
  <1>1. price.inputPer1k \in Nat /\ price.outputPer1k \in Nat
    BY DEF Price
  <1>2. i * price.inputPer1k \in Nat /\ o * price.outputPer1k \in Nat
    BY <1>1, MulNat
  <1>3. PRICE_TOKENS \in Nat \ {0} /\ BPS_DENOM \in Nat \ {0}
    BY ScaleAssumption
  <1> DEFINE base == (i * price.inputPer1k) \div PRICE_TOKENS
                     + (o * price.outputPer1k) \div PRICE_TOKENS
  <1>4. /\ (i * price.inputPer1k) \div PRICE_TOKENS \in Nat
        /\ (o * price.outputPer1k) \div PRICE_TOKENS \in Nat
    BY <1>2, <1>3, DivNat
  <1>5. base \in Nat
    BY <1>4
  <1> HIDE DEF base
  <1>6. base * teePriceMultiplierBps \in Nat
    BY <1>5, MulNat DEF ConfigTypeOK
  <1>7. (base * teePriceMultiplierBps) \div BPS_DENOM \in Nat
    BY <1>3, <1>6, DivNat
  <1> QED
    BY <1>5, <1>7 DEF UsageCost, base

-------------------------------------------------------------------------------
\* Sessions as functions: the types of the sums, and what one slot's update does.

\* The number of session slots is finite.
LEMMA SessionIdsFinite == IsFiniteSet(SessionIds)
  <1>1. 0 \in Int /\ MaxSessions - 1 \in Int
    BY AmountAssumption
  <1> QED
    BY <1>1, FS_Interval DEF SessionIds

\* The locks are natural numbers, and so is their sum.
LEMMA LocksNat ==
    ASSUME MoneyTypeOK
    PROVE  Locks \in [SessionIds -> Nat]
  BY DEF MoneyTypeOK, Locks, Session

\* The open sessions of a node are finitely many.
LEMMA OpenFinite ==
    ASSUME NEW n
    PROVE  IsFiniteSet(OpenSessionsOf(n))
  <1>1. OpenSessionsOf(n) \in SUBSET SessionIds
    BY DEF OpenSessionsOf
  <1> QED
    BY <1>1, SessionIdsFinite, FS_Subset

\* The deployed contract satisfies the invariant.
LEMMA InitMoney == Init => MoneyInv
  <1> SUFFICES ASSUME Init PROVE MoneyInv
    OBVIOUS
  <1> USE DEF Init
  <1>1. NoSession \in Session
    BY DEF NoSession, NewSession, Session, Addresses, Tier
  <1>2. MoneyTypeOK
    BY <1>1, AmountAssumption DEF MoneyTypeOK
  <1>3. SessionShape
    BY DEF SessionShape, SessionIds
  <1>4. SessionBooks
    BY DEF SessionBooks, NoSession, NewSession
  <1>5. LocksConserved
    <2>1. \A id \in SessionIds : Locks[id] = 0
      BY DEF Locks, NoSession, NewSession
    <2> QED
      BY <2>1, TotalZero DEF LocksConserved
  <1>6. CirculatingConserved
    <2>1. Total(dotBalances, Accounts) = 0
      BY TotalZero
    <2>2. Total(providerBalances, Nodes) = 0
      BY TotalZero
    <2> QED
      BY <2>1, <2>2 DEF CirculatingConserved
  <1>7. OpenCountsMatch
    <2> SUFFICES ASSUME NEW n \in Nodes
                 PROVE  openSessionCountByNode[n] = Cardinality(OpenSessionsOf(n))
      BY DEF OpenCountsMatch
    <2>1. OpenSessionsOf(n) = {}
      BY DEF OpenSessionsOf, NoSession, NewSession
    <2> QED
      BY <2>1, FS_EmptySet
  <1> QED
    BY <1>2, <1>3, <1>4, <1>5, <1>6, <1>7 DEF MoneyInv

\* Calls that leave money and sessions alone leave the invariant alone.
LEMMA MoneyUntouched ==
    ASSUME MoneyInv, UNCHANGED moneyVars
    PROVE  MoneyInv'
  <1> USE DEF moneyVars, balances, caches, sessionVars
  <1>1. Locks' = Locks /\ \A n : OpenSessionsOf(n)' = OpenSessionsOf(n)
    BY DEF Locks, OpenSessionsOf
  <1>2. MoneyTypeOK' /\ SessionShape' /\ SessionBooks'
    BY DEF MoneyInv, MoneyTypeOK, SessionShape, SessionBooks
  <1>3. LocksConserved' /\ CirculatingConserved'
    BY <1>1 DEF MoneyInv, LocksConserved, CirculatingConserved
  <1>4. OpenCountsMatch'
    BY <1>1 DEF MoneyInv, OpenCountsMatch
  <1> QED
    BY <1>2, <1>3, <1>4 DEF MoneyInv

\* Each place money is kept holds no more than what is in circulation, and each
\* lock no more than the cached sum of locks.
LEMMA Bounds ==
    ASSUME MoneyInv
    PROVE  /\ \A a \in Accounts : dotBalances[a] <= internalCirculating
           /\ \A n \in Nodes : providerBalances[n] <= internalCirculating
           /\ protocolBalances <= internalCirculating
           /\ totalLockedInternal <= internalCirculating
           /\ \A id \in SessionIds : sessionById[id].lockedInternal <= totalLockedInternal
  <1>1. MoneyTypeOK
    BY DEF MoneyInv
  <1>2. Total(dotBalances, Accounts) \in Nat /\ Total(providerBalances, Nodes) \in Nat
    BY <1>1, FiniteAssumption, UnitsFinite DEF MoneyTypeOK
  <1>3. \A a \in Accounts : dotBalances[a] <= Total(dotBalances, Accounts)
    BY <1>1, FiniteAssumption, TotalBounds DEF MoneyTypeOK
  <1>4. \A n \in Nodes : providerBalances[n] <= Total(providerBalances, Nodes)
    BY <1>1, FiniteAssumption, TotalBounds DEF MoneyTypeOK
  <1>5. \A id \in SessionIds : Locks[id] <= Total(Locks, SessionIds)
    BY <1>1, LocksNat, SessionIdsFinite, TotalBounds
  <1>6. internalCirculating = Total(dotBalances, Accounts) + totalLockedInternal
                              + Total(providerBalances, Nodes) + protocolBalances
    BY DEF MoneyInv, CirculatingConserved
  <1>7. \A id \in SessionIds : sessionById[id].lockedInternal <= totalLockedInternal
    BY <1>5 DEF MoneyInv, LocksConserved, Locks
  <1>8. \A a \in Accounts : dotBalances[a] <= internalCirculating
    BY <1>1, <1>2, <1>3, <1>6 DEF MoneyTypeOK
  <1>9. \A n \in Nodes : providerBalances[n] <= internalCirculating
    BY <1>1, <1>2, <1>4, <1>6 DEF MoneyTypeOK
  <1>10. protocolBalances <= internalCirculating /\ totalLockedInternal <= internalCirculating
    BY <1>1, <1>2, <1>6 DEF MoneyTypeOK
  <1> QED
    BY <1>7, <1>8, <1>9, <1>10

\* Calls that leave the sessions alone leave the parts about sessions alone.
LEMMA SessionsUntouched ==
    ASSUME MoneyInv,
           UNCHANGED <<totalLockedInternal, openSessionCountByNode, sessionVars>>
    PROVE  SessionShape' /\ SessionBooks' /\ LocksConserved' /\ OpenCountsMatch'
  <1> USE DEF sessionVars
  <1>1. Locks' = Locks /\ \A n : OpenSessionsOf(n)' = OpenSessionsOf(n)
    BY DEF Locks, OpenSessionsOf
  <1>2. SessionShape' /\ SessionBooks'
    BY DEF MoneyInv, SessionShape, SessionBooks
  <1>3. LocksConserved' /\ OpenCountsMatch'
    BY <1>1 DEF MoneyInv, LocksConserved, OpenCountsMatch
  <1> QED
    BY <1>2, <1>3

\* A credit to one free balance, matched in the counter (depositDot and
\* depositUsdcAsDot).
LEMMA CreditUser ==
    ASSUME MoneyInv, NEW a \in Accounts, NEW d \in Nat,
           dotBalances' = [dotBalances EXCEPT ![a] = @ + d],
           internalCirculating' = internalCirculating + d,
           UNCHANGED <<providerBalances, protocolBalances, totalLockedInternal,
                       openSessionCountByNode, sessionVars>>
    PROVE  MoneyInv'
  <1>1. MoneyTypeOK /\ MoneyTypeOK'
    BY DEF MoneyInv, MoneyTypeOK, sessionVars
  <1>2. Total(dotBalances', Accounts) = Total(dotBalances, Accounts) + d
    <2>1. dotBalances \in [Accounts -> Nat]
      BY <1>1 DEF MoneyTypeOK
    <2> QED
      BY <2>1, FiniteAssumption, TotalExceptAdd, Zenon
  <1>3. Total(dotBalances, Accounts) \in Nat /\ Total(providerBalances, Nodes) \in Nat
    BY <1>1, FiniteAssumption, UnitsFinite DEF MoneyTypeOK
  <1>4. CirculatingConserved'
    BY <1>1, <1>2, <1>3 DEF MoneyInv, CirculatingConserved, MoneyTypeOK
  <1> QED
    BY <1>1, <1>4, SessionsUntouched DEF MoneyInv

\* A withdrawal by a user.
LEMMA WithdrawDotMoney ==
    ASSUME MoneyInv, NEW a \in Accounts, NEW d \in Amounts, WithdrawDot(a, d)
    PROVE  MoneyInv'
  <1> USE DEF WithdrawDot
  <1>1. MoneyTypeOK /\ d \in Nat /\ d <= dotBalances[a]
    BY AmountAssumption DEF MoneyInv, MoneyTypeOK
  <1>2. dotBalances[a] <= internalCirculating
    BY Bounds
  <1>3. MoneyTypeOK'
    BY <1>1, <1>2 DEF MoneyTypeOK, sessionVars
  <1>4. Total(dotBalances', Accounts) = Total(dotBalances, Accounts) - d
    BY <1>1, FiniteAssumption, TotalExceptSub, Zenon DEF MoneyTypeOK
  <1>5. Total(dotBalances, Accounts) \in Nat /\ Total(providerBalances, Nodes) \in Nat
    BY <1>1, FiniteAssumption, UnitsFinite DEF MoneyTypeOK
  <1>6. CirculatingConserved'
    BY <1>1, <1>4, <1>5 DEF MoneyInv, CirculatingConserved, MoneyTypeOK
  <1> QED
    BY <1>3, <1>6, SessionsUntouched DEF MoneyInv

\* A withdrawal by a node's operator.
LEMMA WithdrawProviderMoney ==
    ASSUME MoneyInv, NEW a \in Accounts, NEW n \in Nodes, NEW d \in Amounts,
           WithdrawProviderDot(a, n, d)
    PROVE  MoneyInv'
  <1> USE DEF WithdrawProviderDot
  <1>1. MoneyTypeOK /\ d \in Nat /\ d <= providerBalances[n]
    BY AmountAssumption DEF MoneyInv, MoneyTypeOK
  <1>2. providerBalances[n] <= internalCirculating
    BY Bounds
  <1>3. MoneyTypeOK'
    BY <1>1, <1>2 DEF MoneyTypeOK, sessionVars
  <1>4. Total(providerBalances', Nodes) = Total(providerBalances, Nodes) - d
    BY <1>1, FiniteAssumption, TotalExceptSub, Zenon DEF MoneyTypeOK
  <1>5. Total(dotBalances, Accounts) \in Nat /\ Total(providerBalances, Nodes) \in Nat
    BY <1>1, FiniteAssumption, UnitsFinite DEF MoneyTypeOK
  <1>6. CirculatingConserved'
    BY <1>1, <1>4, <1>5 DEF MoneyInv, CirculatingConserved, MoneyTypeOK
  <1> QED
    BY <1>3, <1>6, SessionsUntouched DEF MoneyInv

\* A withdrawal by the treasury.
LEMMA WithdrawProtocolMoney ==
    ASSUME MoneyInv, NEW a \in Accounts, NEW d \in Amounts, WithdrawProtocolDot(a, d)
    PROVE  MoneyInv'
  <1> USE DEF WithdrawProtocolDot
  <1>1. MoneyTypeOK /\ d \in Nat /\ d <= protocolBalances
    BY AmountAssumption DEF MoneyInv, MoneyTypeOK
  <1>2. protocolBalances <= internalCirculating
    BY Bounds
  <1>3. MoneyTypeOK'
    BY <1>1, <1>2 DEF MoneyTypeOK, sessionVars
  <1>4. Total(dotBalances, Accounts) \in Nat /\ Total(providerBalances, Nodes) \in Nat
    BY <1>1, FiniteAssumption, UnitsFinite DEF MoneyTypeOK
  <1>5. CirculatingConserved'
    BY <1>1, <1>4 DEF MoneyInv, CirculatingConserved, MoneyTypeOK
  <1> QED
    BY <1>3, <1>5, SessionsUntouched DEF MoneyInv

-------------------------------------------------------------------------------
\* Sessions: opening, metering, settling.

\* openSession: the lock enters the sums exactly once, whichever way it is funded.
LEMMA OpenSessionMoney ==
    ASSUME MoneyInv, NEW a \in Accounts, NEW n \in Nodes, NEW t \in Tier, NEW m \in Models,
           NEW amt \in Amounts, NEW v \in 0..MaxNative,
           OpenSession(a, n, t, m, amt, v)
    PROVE  MoneyInv'
  <1> DEFINE id == nextSessionId
  <1> DEFINE new == NewSession(a, n, m, t, amt)
  <1>1. /\ MoneyTypeOK /\ SessionShape /\ SessionBooks
        /\ LocksConserved /\ CirculatingConserved /\ OpenCountsMatch
    BY DEF MoneyInv
  <1>2. amt \in Nat /\ amt > 0 /\ v \in Nat
    BY AmountAssumption DEF OpenSession
  <1>3. id \in SessionIds /\ id + 1 \in 0..MaxSessions
    BY <1>1, AmountAssumption DEF OpenSession, MoneyTypeOK, SessionIds
  <1>4. sessionById[id] = NoSession
    BY <1>1, <1>3 DEF SessionShape, MoneyTypeOK
  <1>5. new \in Session
    BY <1>2 DEF NewSession, Session, Addresses
  <1>6. /\ sessionById' = [sessionById EXCEPT ![id] = new]
        /\ nextSessionId' = id + 1
        /\ totalLockedInternal' = totalLockedInternal + amt
        /\ openSessionCountByNode' = [openSessionCountByNode EXCEPT ![n] = @ + 1]
        /\ UNCHANGED <<providerBalances, protocolBalances>>
    BY DEF OpenSession
  <1>7. \/ /\ amt <= dotBalances[a]
           /\ dotBalances' = [dotBalances EXCEPT ![a] = @ - amt]
           /\ internalCirculating' = internalCirculating
        \/ /\ dotBalances' = dotBalances
           /\ internalCirculating' = internalCirculating + amt
    BY DEF OpenSession, FundLockedSession
  <1> HIDE DEF id, new
  <1>8. MoneyTypeOK'
    <2>1. dotBalances' \in [Accounts -> Nat] /\ internalCirculating' \in Nat
      BY <1>1, <1>2, <1>7 DEF MoneyTypeOK
    <2>2. sessionById' \in [SessionIds -> Session]
      BY <1>1, <1>5, <1>6 DEF MoneyTypeOK
    <2> QED
      BY <1>1, <1>2, <1>3, <1>6, <2>1, <2>2 DEF MoneyTypeOK
  <1>9. SessionShape'
    <2> SUFFICES ASSUME NEW i \in SessionIds
                 PROVE  IF i < nextSessionId'
                        THEN /\ sessionById'[i].user \in Accounts
                             /\ sessionById'[i].nodeId \in Nodes
                             /\ sessionById'[i].modelId \in Models
                        ELSE sessionById'[i] = NoSession
      BY DEF SessionShape
    <2>1. CASE i = id
      BY <1>1, <1>3, <1>6, <2>1 DEF MoneyTypeOK, new, NewSession, SessionIds
    <2>2. CASE i # id
      <3>1. sessionById'[i] = sessionById[i]
        BY <1>1, <1>6, <2>2 DEF MoneyTypeOK
      <3>2. i < nextSessionId' <=> i < nextSessionId
        BY <1>1, <1>6, <2>2, AmountAssumption DEF MoneyTypeOK, SessionIds, id
      <3> QED
        BY <1>1, <3>1, <3>2 DEF SessionShape
    <2> QED
      BY <2>1, <2>2
  <1>10. SessionBooks'
    <2>1. ASSUME NEW i \in SessionIds, i # id PROVE sessionById'[i] = sessionById[i]
      BY <1>1, <1>6, <2>1 DEF MoneyTypeOK
    <2>2. sessionById'[id] = new
      BY <1>1, <1>3, <1>6 DEF MoneyTypeOK
    <2> QED
      BY <1>1, <1>2, <2>1, <2>2 DEF SessionBooks, new, NewSession
  <1>11. LocksConserved'
    <2>2. Locks \in [SessionIds -> Nat]
      BY <1>1, LocksNat
    <2>1. Locks' = [Locks EXCEPT ![id] = @ + amt]
      <3>1. Locks[id] = 0
        BY <1>3, <1>4 DEF Locks, NoSession, NewSession
      <3>2. \A i \in SessionIds \ {id} : Locks'[i] = Locks[i]
        BY <1>1, <1>6 DEF Locks, MoneyTypeOK
      <3>3. Locks'[id] = amt
        BY <1>1, <1>3, <1>6 DEF Locks, MoneyTypeOK, new, NewSession
      <3>4. Locks' = [i \in SessionIds |-> Locks'[i]]
        BY DEF Locks
      <3> QED
        BY <1>2, <2>2, <3>1, <3>2, <3>3, <3>4
    <2>3. Total(Locks', SessionIds) = Total(Locks, SessionIds) + amt
      BY <1>2, <1>3, <2>1, <2>2, SessionIdsFinite, TotalExceptAdd, Zenon
    <2> QED
      BY <1>1, <1>6, <2>3 DEF LocksConserved
  <1>12. OpenCountsMatch'
    <2> SUFFICES ASSUME NEW k \in Nodes
                 PROVE  openSessionCountByNode'[k] = Cardinality(OpenSessionsOf(k)')
      BY DEF OpenCountsMatch
    <2>1. openSessionCountByNode[k] = Cardinality(OpenSessionsOf(k))
      BY <1>1 DEF OpenCountsMatch
    <2>2. id \notin OpenSessionsOf(k)
      BY <1>4 DEF OpenSessionsOf, NoSession, NewSession
    <2>3. sessionById'[id] = new /\ \A i \in SessionIds \ {id} : sessionById'[i] = sessionById[i]
      BY <1>1, <1>3, <1>6 DEF MoneyTypeOK
    <2>4. CASE k = n
      <3>1. OpenSessionsOf(k)' = OpenSessionsOf(k) \cup {id}
        BY <1>3, <2>3, <2>4, AccountAssumption DEF OpenSessionsOf, new, NewSession
      <3>2. Cardinality(OpenSessionsOf(k) \cup {id}) = Cardinality(OpenSessionsOf(k)) + 1
        BY <2>2, OpenFinite, FS_AddElement
      <3>3. openSessionCountByNode'[k] = openSessionCountByNode[k] + 1
        BY <1>1, <1>6, <2>4 DEF MoneyTypeOK
      <3> QED
        BY <2>1, <3>1, <3>2, <3>3
    <2>5. CASE k # n
      <3>1. OpenSessionsOf(k)' = OpenSessionsOf(k)
        BY <2>2, <2>3, <2>5 DEF OpenSessionsOf, new, NewSession
      <3>2. openSessionCountByNode'[k] = openSessionCountByNode[k]
        BY <1>1, <1>6, <2>5 DEF MoneyTypeOK
      <3> QED
        BY <2>1, <3>1, <3>2
    <2> QED
      BY <2>4, <2>5
  <1>13. CirculatingConserved'
    <2>1. Total(dotBalances, Accounts) \in Nat /\ Total(providerBalances, Nodes) \in Nat
      BY <1>1, FiniteAssumption, UnitsFinite DEF MoneyTypeOK
    <2>2. dotBalances \in [Accounts -> Nat]
      BY <1>1 DEF MoneyTypeOK
    <2>3. CASE /\ amt <= dotBalances[a]
               /\ dotBalances' = [dotBalances EXCEPT ![a] = @ - amt]
               /\ internalCirculating' = internalCirculating
      <3>1. Total(dotBalances', Accounts) = Total(dotBalances, Accounts) - amt
        BY <1>2, <2>2, <2>3, FiniteAssumption, TotalExceptSub, Zenon
      <3> QED
        BY <1>1, <1>2, <1>6, <2>1, <2>3, <3>1 DEF CirculatingConserved, MoneyTypeOK
    <2>4. CASE /\ dotBalances' = dotBalances
               /\ internalCirculating' = internalCirculating + amt
      BY <1>1, <1>2, <1>6, <2>1, <2>4 DEF CirculatingConserved, MoneyTypeOK
    <2> QED
      BY <1>7, <2>3, <2>4
  <1> QED
    BY <1>8, <1>9, <1>10, <1>11, <1>12, <1>13 DEF MoneyInv

\* A session with a user lies below nextSessionId, so its parties are real.
LEMMA RealSession ==
    ASSUME MoneyInv, NEW id \in SessionIds, sessionById[id].user # NoAccount
    PROVE  /\ id < nextSessionId
           /\ sessionById[id] \in Session
           /\ sessionById[id].user \in Accounts
           /\ sessionById[id].nodeId \in Nodes
           /\ sessionById[id].modelId \in Models
  <1>1. id < nextSessionId
    BY DEF MoneyInv, SessionShape, NoSession, NewSession
  <1> QED
    BY <1>1 DEF MoneyInv, SessionShape, MoneyTypeOK

\* A record of a known session replaced by one with the same parties keeps the
\* shape of the table of sessions.
LEMMA ShapeKept ==
    ASSUME MoneyInv, NEW id \in SessionIds, id < nextSessionId, NEW new \in Session,
           new.user = sessionById[id].user, new.nodeId = sessionById[id].nodeId,
           new.modelId = sessionById[id].modelId,
           sessionById' = [sessionById EXCEPT ![id] = new], nextSessionId' = nextSessionId
    PROVE  /\ sessionById' \in [SessionIds -> Session]
           /\ sessionById'[id] = new
           /\ \A i \in SessionIds \ {id} : sessionById'[i] = sessionById[i]
           /\ SessionShape'
  <1>1. sessionById \in [SessionIds -> Session]
    BY DEF MoneyInv, MoneyTypeOK
  <1>2. sessionById' \in [SessionIds -> Session]
    BY <1>1
  <1>3. sessionById'[id] = new /\ \A i \in SessionIds \ {id} : sessionById'[i] = sessionById[i]
    BY <1>1
  <1>4. SessionShape'
    BY <1>3 DEF MoneyInv, SessionShape
  <1> QED
    BY <1>2, <1>3, <1>4

\* A usage report changes the three meters of a session and nothing else.
LEMMA MeteredFields ==
    ASSUME NEW s \in Session, NEW cost \in Nat, NEW i, NEW o,
           Uint64(i) \in Nat, Uint64(o) \in Nat
    PROVE  LET new == Metered(s, cost, i, o)
           IN  /\ new \in Session
               /\ new.user = s.user /\ new.nodeId = s.nodeId /\ new.modelId = s.modelId
               /\ new.lockedInternal = s.lockedInternal
               /\ new.openingInternal = s.openingInternal
               /\ new.paidToProviderInternal = s.paidToProviderInternal
               /\ new.paidToProtocolInternal = s.paidToProtocolInternal
               /\ new.settled = s.settled
               /\ new.usageRecorded = s.usageRecorded + cost
  <1> DEFINE r1 == [s EXCEPT !.usageRecorded = s.usageRecorded + cost]
  <1> DEFINE r2 == [r1 EXCEPT !.inputTokensRecorded = s.inputTokensRecorded + Uint64(i)]
  <1> DEFINE new == [r2 EXCEPT !.outputTokensRecorded = s.outputTokensRecorded + Uint64(o)]
  <1>1. /\ s.usageRecorded + cost \in Nat
        /\ s.inputTokensRecorded + Uint64(i) \in Nat
        /\ s.outputTokensRecorded + Uint64(o) \in Nat
    BY DEF Session
  <1>2. /\ r1 \in Session
        /\ r1.user = s.user /\ r1.nodeId = s.nodeId /\ r1.modelId = s.modelId
        /\ r1.lockedInternal = s.lockedInternal
        /\ r1.openingInternal = s.openingInternal
        /\ r1.paidToProviderInternal = s.paidToProviderInternal
        /\ r1.paidToProtocolInternal = s.paidToProtocolInternal
        /\ r1.settled = s.settled
        /\ r1.usageRecorded = s.usageRecorded + cost
    BY <1>1 DEF Session
  <1> HIDE DEF r1
  <1>3. /\ r2 \in Session
        /\ r2.user = s.user /\ r2.nodeId = s.nodeId /\ r2.modelId = s.modelId
        /\ r2.lockedInternal = s.lockedInternal
        /\ r2.openingInternal = s.openingInternal
        /\ r2.paidToProviderInternal = s.paidToProviderInternal
        /\ r2.paidToProtocolInternal = s.paidToProtocolInternal
        /\ r2.settled = s.settled
        /\ r2.usageRecorded = s.usageRecorded + cost
    BY <1>1, <1>2 DEF Session
  <1> HIDE DEF r2
  <1>4. /\ new \in Session
        /\ new.user = s.user /\ new.nodeId = s.nodeId /\ new.modelId = s.modelId
        /\ new.lockedInternal = s.lockedInternal
        /\ new.openingInternal = s.openingInternal
        /\ new.paidToProviderInternal = s.paidToProviderInternal
        /\ new.paidToProtocolInternal = s.paidToProtocolInternal
        /\ new.settled = s.settled
        /\ new.usageRecorded = s.usageRecorded + cost
    BY <1>1, <1>3 DEF Session
  <1>5. Metered(s, cost, i, o) = new
    BY Zenon DEF Metered, r1, r2
  <1> HIDE DEF new
  <1> QED
    BY <1>4, <1>5

\* recordUsage: usage grows and no money moves.
LEMMA RecordUsageMoney ==
    ASSUME MoneyInv, ConfigTypeOK, ViewTypeOK,
           NEW a \in Accounts, NEW id \in SessionIds, NEW i \in Nat, NEW o \in Nat,
           RecordUsage(a, id, i, o)
    PROVE  MoneyInv'
  <1> DEFINE s == sessionById[id]
  <1> DEFINE cost == UsageCost(s.tier, effectivePrice[s.modelId], i, o)
  <1> DEFINE new == Metered(s, cost, i, o)
  <1>1. /\ MoneyTypeOK /\ SessionShape /\ SessionBooks
        /\ LocksConserved /\ CirculatingConserved /\ OpenCountsMatch
    BY DEF MoneyInv
  <1>2. /\ s.user # NoAccount
        /\ effectivePrice[s.modelId] # NoPrice
        /\ sessionById' = [sessionById EXCEPT ![id] = new]
        /\ UNCHANGED <<balances, caches, nextSessionId>>
    BY DEF RecordUsage
  <1>3. id < nextSessionId /\ s \in Session /\ s.modelId \in Models
    BY <1>2, RealSession
  <1>4. cost \in Nat
    <2>1. effectivePrice[s.modelId] \in Price
      BY <1>2, <1>3 DEF ViewTypeOK
    <2> QED
      BY <2>1, CostNat
  <1>5. Uint64(i) \in Nat /\ Uint64(o) \in Nat
    BY ScaleAssumption DEF Uint64
  <1>6. /\ new \in Session
        /\ new.user = s.user /\ new.nodeId = s.nodeId /\ new.modelId = s.modelId
        /\ new.lockedInternal = s.lockedInternal
        /\ new.openingInternal = s.openingInternal
        /\ new.paidToProviderInternal = s.paidToProviderInternal
        /\ new.paidToProtocolInternal = s.paidToProtocolInternal
        /\ new.settled = s.settled
        /\ new.usageRecorded = s.usageRecorded + cost
    <2> HIDE DEF cost
    <2> QED
      BY <1>3, <1>4, <1>5, MeteredFields
  <1> HIDE DEF new, cost
  <1>7. /\ sessionById' \in [SessionIds -> Session]
        /\ sessionById'[id] = new
        /\ \A j \in SessionIds \ {id} : sessionById'[j] = sessionById[j]
        /\ SessionShape'
    BY <1>2, <1>3, <1>6, ShapeKept DEF balances, caches
  <1>8. MoneyTypeOK'
    BY <1>1, <1>2, <1>7 DEF MoneyTypeOK, balances, caches
  <1>9. SessionBooks'
    <2> SUFFICES ASSUME NEW j \in SessionIds
                 PROVE  LET r == sessionById'[j]
                        IN  /\ r.user # NoAccount => (r.settled <=> r.lockedInternal = 0)
                            /\ r.lockedInternal + r.paidToProviderInternal <= r.openingInternal
                            /\ r.paidToProviderInternal <= r.usageRecorded
                            /\ r.paidToProtocolInternal <= r.paidToProviderInternal
      BY DEF SessionBooks
    <2>1. CASE j = id
      <3>1. s.usageRecorded \in Nat /\ s.paidToProviderInternal \in Nat
        BY <1>3 DEF Session
      <3>2. /\ s.user # NoAccount => (s.settled <=> s.lockedInternal = 0)
            /\ s.lockedInternal + s.paidToProviderInternal <= s.openingInternal
            /\ s.paidToProviderInternal <= s.usageRecorded
            /\ s.paidToProtocolInternal <= s.paidToProviderInternal
        BY <1>1 DEF SessionBooks
      <3> QED
        BY <1>4, <1>6, <1>7, <2>1, <3>1, <3>2
    <2>2. CASE j # id
      BY <1>1, <1>7, <2>2 DEF SessionBooks
    <2> QED
      BY <2>1, <2>2
  <1>10. Locks' = Locks
    <2>1. \A j \in SessionIds : sessionById'[j].lockedInternal = sessionById[j].lockedInternal
      BY <1>6, <1>7
    <2> QED
      BY <2>1 DEF Locks
  <1>11. ASSUME NEW n PROVE OpenSessionsOf(n)' = OpenSessionsOf(n)
    BY <1>6, <1>7 DEF OpenSessionsOf
  <1>12. LocksConserved' /\ CirculatingConserved' /\ OpenCountsMatch'
    BY <1>1, <1>2, <1>10, <1>11
       DEF LocksConserved, CirculatingConserved, OpenCountsMatch, balances, caches
  <1> QED
    BY <1>7, <1>8, <1>9, <1>12 DEF MoneyInv

\* What a settle does to the record of its session.
LEMMA ReleasedFields ==
    ASSUME NEW s \in Session, NEW p \in Nat, NEW u \in Nat,
           p + u <= s.lockedInternal, ProtocolFee(p) \in Nat
    PROVE  LET new == Released(s, p, u)
           IN  /\ new \in Session
               /\ new.user = s.user /\ new.nodeId = s.nodeId /\ new.modelId = s.modelId
               /\ new.openingInternal = s.openingInternal
               /\ new.usageRecorded = s.usageRecorded
               /\ new.lockedInternal = s.lockedInternal - (p + u)
               /\ new.paidToProviderInternal = s.paidToProviderInternal + p
               /\ new.paidToProtocolInternal = s.paidToProtocolInternal + ProtocolFee(p)
               /\ new.settled = (s.lockedInternal = p + u)
  <1> DEFINE r1 == [s EXCEPT !.lockedInternal = s.lockedInternal - (p + u)]
  <1> DEFINE r2 == [r1 EXCEPT !.paidToProviderInternal = s.paidToProviderInternal + p]
  <1> DEFINE r3 == [r2 EXCEPT !.paidToProtocolInternal =
                                  s.paidToProtocolInternal + ProtocolFee(p)]
  <1> DEFINE drained == (s.lockedInternal = p + u)
  <1> DEFINE new == [r3 EXCEPT !.settled = drained]
  <1>1. /\ s.lockedInternal - (p + u) \in Nat
        /\ s.paidToProviderInternal + p \in Nat
        /\ s.paidToProtocolInternal + ProtocolFee(p) \in Nat
        /\ drained \in BOOLEAN
    BY DEF Session
  <1> HIDE DEF drained
  <1>2. /\ r1 \in Session
        /\ r1.user = s.user /\ r1.nodeId = s.nodeId /\ r1.modelId = s.modelId
        /\ r1.openingInternal = s.openingInternal
        /\ r1.usageRecorded = s.usageRecorded
        /\ r1.lockedInternal = s.lockedInternal - (p + u)
    BY <1>1 DEF Session
  <1> HIDE DEF r1
  <1>3. /\ r2 \in Session
        /\ r2.user = s.user /\ r2.nodeId = s.nodeId /\ r2.modelId = s.modelId
        /\ r2.openingInternal = s.openingInternal
        /\ r2.usageRecorded = s.usageRecorded
        /\ r2.lockedInternal = s.lockedInternal - (p + u)
        /\ r2.paidToProviderInternal = s.paidToProviderInternal + p
    BY <1>1, <1>2 DEF Session
  <1> HIDE DEF r2
  <1>4. /\ r3 \in Session
        /\ r3.user = s.user /\ r3.nodeId = s.nodeId /\ r3.modelId = s.modelId
        /\ r3.openingInternal = s.openingInternal
        /\ r3.usageRecorded = s.usageRecorded
        /\ r3.lockedInternal = s.lockedInternal - (p + u)
        /\ r3.paidToProviderInternal = s.paidToProviderInternal + p
        /\ r3.paidToProtocolInternal = s.paidToProtocolInternal + ProtocolFee(p)
    BY <1>1, <1>3 DEF Session
  <1> HIDE DEF r3
  <1>5. /\ new \in Session
        /\ new.user = s.user /\ new.nodeId = s.nodeId /\ new.modelId = s.modelId
        /\ new.openingInternal = s.openingInternal
        /\ new.usageRecorded = s.usageRecorded
        /\ new.lockedInternal = s.lockedInternal - (p + u)
        /\ new.paidToProviderInternal = s.paidToProviderInternal + p
        /\ new.paidToProtocolInternal = s.paidToProtocolInternal + ProtocolFee(p)
        /\ new.settled = drained
    BY <1>1, <1>4 DEF Session
  <1>6. Released(s, p, u) = new
    BY Zenon DEF Released, r1, r2, r3, drained
  <1> HIDE DEF new
  <1> QED
    BY <1>5, <1>6 DEF drained

\* _settle: what leaves the lock arrives, split between user, node and treasury.
LEMMA SettleMoney ==
    ASSUME MoneyInv, ConfigTypeOK, NEW id \in SessionIds, NEW p \in Nat, NEW u \in Nat,
           NEW mustDrain \in BOOLEAN, Settle(id, p, u, mustDrain)
    PROVE  MoneyInv'
  <1> DEFINE s == sessionById[id]
  <1> DEFINE fee == ProtocolFee(p)
  <1> DEFINE new == Released(s, p, u)
  <1>1. /\ MoneyTypeOK /\ SessionShape /\ SessionBooks
        /\ LocksConserved /\ CirculatingConserved /\ OpenCountsMatch
    BY DEF MoneyInv
  <1>2. /\ s.user # NoAccount
        /\ ~s.settled
        /\ SplitAllowed(s, p, u, mustDrain)
        /\ CloseCount(s, p, u)
        /\ sessionById' = [sessionById EXCEPT ![id] = new]
        /\ totalLockedInternal' = totalLockedInternal - (p + u)
        /\ dotBalances' = [dotBalances EXCEPT ![s.user] = @ + u]
        /\ providerBalances' = [providerBalances EXCEPT ![s.nodeId] = @ + (p - fee)]
        /\ protocolBalances' = protocolBalances + fee
        /\ internalCirculating' = internalCirculating
        /\ nextSessionId' = nextSessionId
    BY DEF Settle, PayProvider, Unlock
  <1>3. id < nextSessionId /\ s \in Session /\ s.user \in Accounts /\ s.nodeId \in Nodes
    BY <1>2, RealSession
  <1>4. p + u <= s.lockedInternal /\ s.paidToProviderInternal + p <= s.usageRecorded
    BY <1>2, <1>3 DEF SplitAllowed, Session
  <1>5. fee \in 0..p
    BY FeeBound
  <1>6. /\ new \in Session
        /\ new.user = s.user /\ new.nodeId = s.nodeId /\ new.modelId = s.modelId
        /\ new.openingInternal = s.openingInternal
        /\ new.usageRecorded = s.usageRecorded
        /\ new.lockedInternal = s.lockedInternal - (p + u)
        /\ new.paidToProviderInternal = s.paidToProviderInternal + p
        /\ new.paidToProtocolInternal = s.paidToProtocolInternal + fee
        /\ new.settled = (s.lockedInternal = p + u)
    BY <1>3, <1>4, <1>5, ReleasedFields
  <1> HIDE DEF new, fee
  <1>7. /\ sessionById' \in [SessionIds -> Session]
        /\ sessionById'[id] = new
        /\ \A j \in SessionIds \ {id} : sessionById'[j] = sessionById[j]
        /\ SessionShape'
    BY <1>2, <1>3, <1>6, ShapeKept
  <1>8. s.lockedInternal \in Nat /\ s.lockedInternal <= totalLockedInternal
    BY <1>3, Bounds DEF Session
  <1>9. MoneyTypeOK'
    <2>1. totalLockedInternal' \in Nat
      BY <1>1, <1>2, <1>4, <1>8 DEF MoneyTypeOK
    <2>2. dotBalances' \in [Accounts -> Nat]
      BY <1>1, <1>2, <1>3 DEF MoneyTypeOK
    <2>3. providerBalances' \in [Nodes -> Nat] /\ protocolBalances' \in Nat
      BY <1>1, <1>2, <1>3, <1>5 DEF MoneyTypeOK
    <2>4. openSessionCountByNode' \in [Nodes -> Nat]
      BY <1>1, <1>2, <1>3 DEF MoneyTypeOK, CloseCount
    <2> QED
      BY <1>1, <1>2, <1>7, <2>1, <2>2, <2>3, <2>4 DEF MoneyTypeOK
  <1>10. SessionBooks'
    <2> SUFFICES ASSUME NEW j \in SessionIds
                 PROVE  LET r == sessionById'[j]
                        IN  /\ r.user # NoAccount => (r.settled <=> r.lockedInternal = 0)
                            /\ r.lockedInternal + r.paidToProviderInternal <= r.openingInternal
                            /\ r.paidToProviderInternal <= r.usageRecorded
                            /\ r.paidToProtocolInternal <= r.paidToProviderInternal
      BY DEF SessionBooks
    <2>1. CASE j = id
      <3>1. /\ s.paidToProviderInternal \in Nat
            /\ s.paidToProtocolInternal \in Nat /\ s.openingInternal \in Nat
        BY <1>3 DEF Session
      <3>2. /\ s.lockedInternal + s.paidToProviderInternal <= s.openingInternal
            /\ s.paidToProtocolInternal <= s.paidToProviderInternal
        BY <1>1 DEF SessionBooks
      <3>3. new.settled <=> new.lockedInternal = 0
        <4>1. s.lockedInternal = p + u <=> new.lockedInternal = 0
          BY <1>6, <1>8
        <4>2. new.settled = (s.lockedInternal = p + u)
          BY <1>6
        <4> QED
          BY <4>1, <4>2, Zenon
      <3> QED
        BY <1>4, <1>5, <1>6, <1>7, <1>8, <2>1, <3>1, <3>2, <3>3
    <2>2. CASE j # id
      BY <1>1, <1>7, <2>2 DEF SessionBooks
    <2> QED
      BY <2>1, <2>2
  <1>11. LocksConserved'
    <2>1. Locks \in [SessionIds -> Nat]
      BY <1>1, LocksNat
    <2>2. Locks' = [Locks EXCEPT ![id] = @ - (p + u)]
      <3>1. Locks[id] = s.lockedInternal
        BY DEF Locks
      <3>2. \A j \in SessionIds \ {id} : Locks'[j] = Locks[j]
        BY <1>7 DEF Locks
      <3>3. Locks'[id] = Locks[id] - (p + u)
        BY <1>6, <1>7, <3>1 DEF Locks
      <3>4. Locks' = [j \in SessionIds |-> Locks'[j]]
        BY DEF Locks
      <3> QED
        BY <2>1, <3>2, <3>3, <3>4
    <2>3. p + u \in Nat /\ p + u <= Locks[id]
      BY <1>4 DEF Locks
    <2>4. Total(Locks', SessionIds) = Total(Locks, SessionIds) - (p + u)
      BY <2>1, <2>2, <2>3, SessionIdsFinite, TotalExceptSub, Zenon
    <2> QED
      BY <1>1, <1>2, <2>4 DEF LocksConserved
  <1>12. OpenCountsMatch'
    <2> SUFFICES ASSUME NEW k \in Nodes
                 PROVE  openSessionCountByNode'[k] = Cardinality(OpenSessionsOf(k)')
      BY DEF OpenCountsMatch
    <2>1. openSessionCountByNode[k] = Cardinality(OpenSessionsOf(k))
      BY <1>1 DEF OpenCountsMatch
    <2>2. CASE s.lockedInternal = p + u /\ k = s.nodeId
      <3>1. id \in OpenSessionsOf(k)
        BY <1>2, <2>2 DEF OpenSessionsOf
      <3>2. OpenSessionsOf(k)' = OpenSessionsOf(k) \ {id}
        BY <1>6, <1>7, <2>2 DEF OpenSessionsOf
      <3>3. Cardinality(OpenSessionsOf(k) \ {id}) = Cardinality(OpenSessionsOf(k)) - 1
        BY <3>1, OpenFinite, FS_RemoveElement
      <3>4. openSessionCountByNode'[k] = openSessionCountByNode[k] - 1
        BY <1>1, <1>2, <2>2 DEF MoneyTypeOK, CloseCount
      <3> QED
        BY <2>1, <3>2, <3>3, <3>4
    <2>3. CASE ~(s.lockedInternal = p + u /\ k = s.nodeId)
      <3>1. OpenSessionsOf(k)' = OpenSessionsOf(k)
        <4>1. \A j \in SessionIds \ {id} : j \in OpenSessionsOf(k)' <=> j \in OpenSessionsOf(k)
          BY <1>7 DEF OpenSessionsOf
        <4>2. id \in OpenSessionsOf(k)' <=> id \in OpenSessionsOf(k)
          BY <1>2, <1>6, <1>7, <2>3 DEF OpenSessionsOf
        <4>3. OpenSessionsOf(k)' \subseteq SessionIds /\ OpenSessionsOf(k) \subseteq SessionIds
          BY DEF OpenSessionsOf
        <4> QED
          BY <4>1, <4>2, <4>3
      <3>2. openSessionCountByNode'[k] = openSessionCountByNode[k]
        BY <1>1, <1>2, <2>3 DEF MoneyTypeOK, CloseCount
      <3> QED
        BY <2>1, <3>1, <3>2
    <2> QED
      BY <2>2, <2>3
  <1>13. CirculatingConserved'
    <2>1. Total(dotBalances, Accounts) \in Nat /\ Total(providerBalances, Nodes) \in Nat
      BY <1>1, FiniteAssumption, UnitsFinite DEF MoneyTypeOK
    <2>2. dotBalances \in [Accounts -> Nat] /\ providerBalances \in [Nodes -> Nat]
      BY <1>1 DEF MoneyTypeOK
    <2>3. Total(dotBalances', Accounts) = Total(dotBalances, Accounts) + u
      BY <1>2, <1>3, <2>2, FiniteAssumption, TotalExceptAdd, Zenon
    <2>4. p - fee \in Nat
      BY <1>5
    <2>5. Total(providerBalances', Nodes) = Total(providerBalances, Nodes) + (p - fee)
      BY <1>2, <1>3, <2>2, <2>4, FiniteAssumption, TotalExceptAdd, Zenon
    <2> QED
      BY <1>1, <1>2, <1>4, <1>5, <1>8, <2>1, <2>3, <2>5 DEF CirculatingConserved, MoneyTypeOK
  <1> QED
    BY <1>7, <1>9, <1>10, <1>11, <1>12, <1>13 DEF MoneyInv

-------------------------------------------------------------------------------
\* The rest of the type invariant.

\* A native payout is natural and covered by what the contract holds.
LEMMA PayNativeNat ==
    ASSUME CustodyTypeOK, NEW amount \in Nat, PayNative(amount)
    PROVE  nativeBalance' \in Nat
  <1>1. InternalToNative(amount) \in Nat
    BY ScaleAssumption, DivNat DEF InternalToNative
  <1> QED
    BY <1>1 DEF PayNative, CustodyTypeOK

\* Governance keeps the configuration within its caps and moves no money.
LEMMA GovernanceStep ==
    ASSUME MoneyInv, TypeOK, Governance
    PROVE  MoneyInv' /\ TypeOK'
  <1> USE DEF TypeOK, ConfigTypeOK, CustodyTypeOK, ViewTypeOK, roles, rates, custody,
              registryView, oracleView
  <1>1. PICK sender \in Accounts :
           \/ \E bps \in TeeMultiplierChoices : SetTeePriceMultiplierBps(sender, bps)
           \/ \E bps \in FeeBpsChoices : SetProtocolFeeBps(sender, bps)
           \/ \E a \in RoleChoices : SetSettlementOperator(sender, a)
           \/ \E a \in RoleChoices : SetRecordUsage(sender, a)
           \/ \E a \in RoleChoices : SetProtocolTreasury(sender, a)
    BY DEF Governance
  <1>2. UNCHANGED moneyVars
    BY <1>1 DEF SetTeePriceMultiplierBps, SetProtocolFeeBps, SetSettlementOperator,
                SetRecordUsage, SetProtocolTreasury, moneyVars
  <1>3. MoneyInv'
    BY <1>2, MoneyUntouched
  <1>4. CustodyTypeOK' /\ ViewTypeOK'
    BY <1>1 DEF SetTeePriceMultiplierBps, SetProtocolFeeBps, SetSettlementOperator,
                SetRecordUsage, SetProtocolTreasury
  <1>5. ConfigTypeOK'
    <2>1. CASE \E bps \in TeeMultiplierChoices : SetTeePriceMultiplierBps(sender, bps)
      BY <2>1, ScaleAssumption DEF SetTeePriceMultiplierBps
    <2>2. CASE \E bps \in FeeBpsChoices : SetProtocolFeeBps(sender, bps)
      BY <2>2, ScaleAssumption DEF SetProtocolFeeBps
    <2>3. CASE \E a \in RoleChoices : SetSettlementOperator(sender, a)
      BY <2>3, AccountAssumption DEF SetSettlementOperator
    <2>4. CASE \E a \in RoleChoices : SetRecordUsage(sender, a)
      BY <2>4, AccountAssumption DEF SetRecordUsage
    <2>5. CASE \E a \in RoleChoices : SetProtocolTreasury(sender, a)
      BY <2>5, AccountAssumption DEF SetProtocolTreasury
    <2> QED
      BY <1>1, <2>1, <2>2, <2>3, <2>4, <2>5
  <1> QED
    BY <1>3, <1>4, <1>5 DEF MoneyInv

\* Deposits, gifts and withdrawals.
LEMMA MoneyMovesStep ==
    ASSUME MoneyInv, TypeOK, MoneyMoves
    PROVE  MoneyInv' /\ TypeOK'
  <1> SUFFICES MoneyInv' /\ CustodyTypeOK'
    <2>1. ConfigTypeOK' /\ ViewTypeOK'
      BY DEF MoneyMoves, DepositDot, Receive, DepositUsdcAsDot, WithdrawDot,
             WithdrawProtocolDot, WithdrawProviderDot, TypeOK, ConfigTypeOK, ViewTypeOK,
             roles, rates, registryView, oracleView
    <2> QED
      BY <2>1 DEF TypeOK, MoneyInv
  <1>1. /\ CustodyTypeOK /\ ViewTypeOK
    BY DEF TypeOK
  <1>2. ASSUME NEW sender \in Accounts, NEW value \in 1..MaxNative, DepositDot(sender, value)
        PROVE  MoneyInv' /\ CustodyTypeOK'
    <2>1. value \in Nat /\ NativeToInternal(value) \in Nat
      BY ScaleAssumption, AmountAssumption, MulNat DEF NativeToInternal
    <2>2. MoneyInv'
      BY <1>2, <2>1, CreditUser DEF DepositDot
    <2>3. CustodyTypeOK'
      BY <1>1, <1>2, <2>1 DEF DepositDot, CustodyTypeOK
    <2> QED
      BY <2>2, <2>3
  <1>3. ASSUME NEW value \in Gifts, Receive(value)
        PROVE  MoneyInv' /\ CustodyTypeOK'
    <2>1. MoneyInv'
      BY <1>3, MoneyUntouched DEF Receive, moneyVars
    <2>2. CustodyTypeOK'
      BY <1>1, <1>3, AmountAssumption DEF Receive, CustodyTypeOK
    <2> QED
      BY <2>1, <2>2
  <1>4. ASSUME NEW sender \in Accounts, NEW amount \in UsdcAmounts,
               DepositUsdcAsDot(sender, amount)
        PROVE  MoneyInv' /\ CustodyTypeOK'
    <2> DEFINE credited == (amount * USDC_UNIT) \div usdcPerDot
    <2>1. usdcPerDot \in Nat \ {0}
      BY <1>1, <1>4 DEF DepositUsdcAsDot, ViewTypeOK
    <2>2. amount * USDC_UNIT \in Nat
      BY AmountAssumption, ScaleAssumption, MulNat
    <2>3. credited \in Nat
      BY <2>1, <2>2, DivNat
    <2>4. /\ dotBalances' = [dotBalances EXCEPT ![sender] = @ + credited]
          /\ internalCirculating' = internalCirculating + credited
          /\ usdcCredited' = usdcCredited + credited
          /\ nativeBalance' = nativeBalance
          /\ UNCHANGED <<providerBalances, protocolBalances, totalLockedInternal,
                         openSessionCountByNode, sessionVars>>
      BY <1>4 DEF DepositUsdcAsDot
    <2> HIDE DEF credited
    <2>5. MoneyInv'
      BY <2>3, <2>4, CreditUser
    <2>6. CustodyTypeOK'
      BY <1>1, <2>3, <2>4 DEF CustodyTypeOK
    <2> QED
      BY <2>5, <2>6
  <1>5. ASSUME NEW sender \in Accounts, NEW amount \in Amounts, WithdrawDot(sender, amount)
        PROVE  MoneyInv' /\ CustodyTypeOK'
    <2>1. MoneyInv'
      BY <1>5, WithdrawDotMoney
    <2>2. nativeBalance' \in Nat
      BY <1>1, <1>5, AmountAssumption, PayNativeNat DEF WithdrawDot
    <2>3. CustodyTypeOK'
      BY <1>1, <1>5, <2>2 DEF WithdrawDot, CustodyTypeOK
    <2> QED
      BY <2>1, <2>3
  <1>6. ASSUME NEW sender \in Accounts, NEW amount \in Amounts,
               WithdrawProtocolDot(sender, amount)
        PROVE  MoneyInv' /\ CustodyTypeOK'
    <2>1. MoneyInv'
      BY <1>6, WithdrawProtocolMoney
    <2>2. nativeBalance' \in Nat
      BY <1>1, <1>6, AmountAssumption, PayNativeNat DEF WithdrawProtocolDot
    <2>3. CustodyTypeOK'
      BY <1>1, <1>6, <2>2 DEF WithdrawProtocolDot, CustodyTypeOK
    <2> QED
      BY <2>1, <2>3
  <1>7. ASSUME NEW sender \in Accounts, NEW n \in Nodes, NEW amount \in Amounts,
               WithdrawProviderDot(sender, n, amount)
        PROVE  MoneyInv' /\ CustodyTypeOK'
    <2>1. MoneyInv'
      BY <1>7, WithdrawProviderMoney
    <2>2. nativeBalance' \in Nat
      BY <1>1, <1>7, AmountAssumption, PayNativeNat DEF WithdrawProviderDot
    <2>3. CustodyTypeOK'
      BY <1>1, <1>7, <2>2 DEF WithdrawProviderDot, CustodyTypeOK
    <2> QED
      BY <2>1, <2>3
  <1> QED
    BY <1>2, <1>3, <1>4, <1>5, <1>6, <1>7 DEF MoneyMoves

\* Opens, usage reports and settles.
LEMMA SessionMovesStep ==
    ASSUME MoneyInv, TypeOK, SessionMoves
    PROVE  MoneyInv' /\ TypeOK'
  <1>1. ConfigTypeOK /\ CustodyTypeOK /\ ViewTypeOK
    BY DEF TypeOK
  <1>2. ConfigTypeOK' /\ ViewTypeOK'
    BY DEF SessionMoves, OpenSession, RecordUsage, SettleByUser, SettleByOperator, Settle,
           TypeOK, ConfigTypeOK, ViewTypeOK, roles, rates, registryView, oracleView
  <1>3. PICK sender \in Accounts :
          \/ \E n \in Nodes, t \in Tier, m \in Models, amount \in Amounts,
                value \in 0..MaxNative : OpenSession(sender, n, t, m, amount, value)
          \/ \E id \in SessionIds, d \in TokenDeltas : RecordUsage(sender, id, d[1], d[2])
          \/ \E id \in SessionIds, p \in 0..MaxUsage, u \in 0..MaxCirculating,
                mustDrain \in BOOLEAN : Settle(id, p, u, mustDrain)
    BY DEF SessionMoves, SettleByUser, SettleByOperator
  <1>4. CASE \E n \in Nodes, t \in Tier, m \in Models, amount \in Amounts,
                value \in 0..MaxNative : OpenSession(sender, n, t, m, amount, value)
    <2>1. PICK n \in Nodes, t \in Tier, m \in Models, amount \in Amounts,
               value \in 0..MaxNative : OpenSession(sender, n, t, m, amount, value)
      BY <1>4
    <2>2. MoneyInv'
      BY <2>1, OpenSessionMoney
    <2>3. CustodyTypeOK'
      BY <1>1, <2>1, AmountAssumption DEF OpenSession, FundLockedSession, CustodyTypeOK
    <2> QED
      BY <1>2, <2>2, <2>3 DEF TypeOK, MoneyInv
  <1>5. CASE \E id \in SessionIds, d \in TokenDeltas : RecordUsage(sender, id, d[1], d[2])
    <2>1. PICK id \in SessionIds, d \in TokenDeltas : RecordUsage(sender, id, d[1], d[2])
      BY <1>5
    <2>2. d[1] \in Nat /\ d[2] \in Nat
      BY AmountAssumption
    <2>3. MoneyInv'
      BY <1>1, <2>1, <2>2, RecordUsageMoney
    <2>4. CustodyTypeOK'
      BY <1>1, <2>1 DEF RecordUsage, CustodyTypeOK, custody
    <2> QED
      BY <1>2, <2>3, <2>4 DEF TypeOK, MoneyInv
  <1>6. CASE \E id \in SessionIds, p \in 0..MaxUsage, u \in 0..MaxCirculating,
                mustDrain \in BOOLEAN : Settle(id, p, u, mustDrain)
    <2>1. PICK id \in SessionIds, p \in 0..MaxUsage, u \in 0..MaxCirculating,
               mustDrain \in BOOLEAN : Settle(id, p, u, mustDrain)
      BY <1>6
    <2>2. p \in Nat /\ u \in Nat
      BY AmountAssumption
    <2>3. MoneyInv'
      BY <1>1, <2>1, <2>2, SettleMoney
    <2>4. CustodyTypeOK'
      BY <1>1, <2>1 DEF Settle, CustodyTypeOK, custody
    <2> QED
      BY <1>2, <2>3, <2>4 DEF TypeOK, MoneyInv
  <1> QED
    BY <1>3, <1>4, <1>5, <1>6

\* What the registry and the oracles answer changes no money.
LEMMA OutsideMovesStep ==
    ASSUME MoneyInv, TypeOK, OutsideMoves
    PROVE  MoneyInv' /\ TypeOK'
  <1> USE DEF RegistryChanges, RegistryOwnerChanges, ModelPriceChanges, RateChanges
  <1>1. UNCHANGED moneyVars
    BY DEF OutsideMoves, moneyVars
  <1>2. MoneyInv'
    BY <1>1, MoneyUntouched
  <1>3. ConfigTypeOK' /\ CustodyTypeOK'
    BY DEF OutsideMoves, TypeOK, ConfigTypeOK, CustodyTypeOK, roles, rates, custody
  <1>4. ViewTypeOK'
    BY AccountAssumption, AmountAssumption
       DEF OutsideMoves, TypeOK, ViewTypeOK, registryView, oracleView
  <1> QED
    BY <1>2, <1>3, <1>4 DEF TypeOK, MoneyInv

-------------------------------------------------------------------------------
\* The inductive invariant and the theorems.

IInv == MoneyInv /\ TypeOK

\* The deployed contract satisfies the whole invariant.
LEMMA InitIInv == Init => IInv
  <1> SUFFICES ASSUME Init PROVE IInv
    OBVIOUS
  <1>1. MoneyInv
    BY InitMoney
  <1>2. ConfigTypeOK
    BY AccountAssumption, ScaleAssumption DEF Init, ConfigTypeOK
  <1>3. CustodyTypeOK
    BY DEF Init, CustodyTypeOK
  <1>4. ViewTypeOK
    BY AccountAssumption, AmountAssumption DEF Init, ViewTypeOK
  <1> QED
    BY <1>1, <1>2, <1>3, <1>4 DEF IInv, TypeOK, MoneyInv

\* Every call preserves the whole invariant.
LEMMA NextIInv == IInv /\ [Next]_vars => IInv'
  <1> SUFFICES ASSUME IInv, [Next]_vars PROVE IInv'
    OBVIOUS
  <1>1. CASE Governance
    BY <1>1, GovernanceStep DEF IInv
  <1>2. CASE MoneyMoves
    BY <1>2, MoneyMovesStep DEF IInv
  <1>3. CASE SessionMoves
    BY <1>3, SessionMovesStep DEF IInv
  <1>4. CASE OutsideMoves
    BY <1>4, OutsideMovesStep DEF IInv
  <1>5. CASE UNCHANGED vars
    <2>1. MoneyInv'
      BY <1>5, MoneyUntouched DEF IInv, vars, moneyVars
    <2>2. ConfigTypeOK' /\ CustodyTypeOK' /\ ViewTypeOK'
      BY <1>5 DEF IInv, TypeOK, ConfigTypeOK, CustodyTypeOK, ViewTypeOK, vars, roles,
                  rates, custody, registryView, oracleView
    <2> QED
      BY <2>1, <2>2 DEF IInv, TypeOK, MoneyInv
  <1> QED
    BY <1>1, <1>2, <1>3, <1>4, <1>5 DEF Next

\* The escrow keeps its inductive invariant.
THEOREM Invariance == Spec => []IInv
  BY InitIInv, NextIInv, PTL DEF Spec

\* No balance or counter of the contract ever underflows, for any number of
\* accounts, nodes and sessions (TypeOK).
THEOREM TypeCorrect == Spec => []TypeOK
  <1>1. IInv => TypeOK
    BY DEF IInv
  <1> QED
    BY <1>1, Invariance, PTL

\* internalCirculating is the sum of the free balances, locks, earnings and fees
\* after any sequence of calls.
THEOREM MoneyConserved == Spec => []CirculatingConserved
  <1>1. IInv => CirculatingConserved
    BY DEF IInv, MoneyInv
  <1> QED
    BY <1>1, Invariance, PTL

\* totalLockedInternal is the sum of the locks after any sequence of calls.
THEOREM LocksAreConserved == Spec => []LocksConserved
  <1>1. IInv => LocksConserved
    BY DEF IInv, MoneyInv
  <1> QED
    BY <1>1, Invariance, PTL

\* openSessionCountByNode, the counter the registry's markDefunct reads, always
\* counts the unsettled sessions of the node.
THEOREM OpenCountsExact == Spec => []OpenCountsMatch
  <1>1. IInv => OpenCountsMatch
    BY DEF IInv, MoneyInv
  <1> QED
    BY <1>1, Invariance, PTL

\* Payouts stay within the recorded usage and within the lock over any sequence
\* of partial and full settles.
THEOREM BooksBalanced == Spec => []SessionBooks
  <1>1. IInv => SessionBooks
    BY DEF IInv, MoneyInv
  <1> QED
    BY <1>1, Invariance, PTL

-------------------------------------------------------------------------------
\* The action property.

\* Every call leaves each session as it was or advances it.
LEMMA StepAdvances ==
    ASSUME IInv, [Next]_vars, NEW id \in SessionIds
    PROVE  SessionAdvances(id)
  <1>1. /\ MoneyInv /\ ConfigTypeOK /\ ViewTypeOK
        /\ sessionById \in [SessionIds -> Session] /\ sessionById[id] \in Session
    BY DEF IInv, MoneyInv, MoneyTypeOK, TypeOK
  <1>2. ASSUME sessionById'[id] = sessionById[id] PROVE SessionAdvances(id)
    BY <1>1, <1>2 DEF SessionAdvances, Session
  <1>3. CASE UNCHANGED sessionById
    BY <1>2, <1>3
  <1>4. ASSUME NEW a \in Accounts, NEW n \in Nodes, NEW t \in Tier, NEW m \in Models,
               NEW amt \in Amounts, NEW v \in 0..MaxNative, OpenSession(a, n, t, m, amt, v)
        PROVE  SessionAdvances(id)
    <2>1. CASE id = nextSessionId
      <3>1. sessionById[id] = NoSession
        BY <1>1, <2>1 DEF MoneyInv, SessionShape, MoneyTypeOK
      <3> QED
        BY <3>1 DEF SessionAdvances, NoSession, NewSession
    <2>2. CASE id # nextSessionId
      BY <1>1, <1>2, <1>4, <2>2 DEF OpenSession
    <2> QED
      BY <2>1, <2>2
  <1>5. ASSUME NEW a \in Accounts, NEW k \in SessionIds, NEW i \in Nat, NEW o \in Nat,
               RecordUsage(a, k, i, o)
        PROVE  SessionAdvances(id)
    <2> DEFINE s == sessionById[k]
    <2> DEFINE cost == UsageCost(s.tier, effectivePrice[s.modelId], i, o)
    <2> DEFINE new == Metered(s, cost, i, o)
    <2>1. /\ s.user # NoAccount /\ ~s.settled /\ effectivePrice[s.modelId] # NoPrice
          /\ sessionById' = [sessionById EXCEPT ![k] = new]
      BY <1>5 DEF RecordUsage
    <2>2. CASE id = k
      <3>1. s \in Session /\ s.modelId \in Models
        BY <1>1, <2>1, RealSession
      <3>2. cost \in Nat
        BY <1>1, <2>1, <3>1, CostNat DEF ViewTypeOK
      <3>3. Uint64(i) \in Nat /\ Uint64(o) \in Nat
        BY ScaleAssumption DEF Uint64
      <3> HIDE DEF cost
      <3>4. /\ new.user = s.user /\ new.nodeId = s.nodeId
            /\ new.openingInternal = s.openingInternal
            /\ new.lockedInternal = s.lockedInternal
            /\ new.paidToProviderInternal = s.paidToProviderInternal
            /\ new.usageRecorded = s.usageRecorded + cost
        BY <3>1, <3>2, <3>3, MeteredFields
      <3> HIDE DEF new
      <3>5. sessionById'[id] = new
        BY <1>1, <2>1, <2>2
      <3> QED
        BY <2>1, <2>2, <3>1, <3>2, <3>4, <3>5 DEF SessionAdvances, Session
    <2>3. CASE id # k
      <3> HIDE DEF new
      <3> QED
        BY <1>1, <1>2, <2>1, <2>3
    <2> QED
      BY <2>2, <2>3
  <1>6. ASSUME NEW k \in SessionIds, NEW p \in Nat, NEW u \in Nat,
               NEW mustDrain \in BOOLEAN, Settle(k, p, u, mustDrain)
        PROVE  SessionAdvances(id)
    <2> DEFINE s == sessionById[k]
    <2> DEFINE new == Released(s, p, u)
    <2>1. /\ s.user # NoAccount /\ ~s.settled
          /\ SplitAllowed(s, p, u, mustDrain)
          /\ sessionById' = [sessionById EXCEPT ![k] = new]
      BY <1>6 DEF Settle
    <2>2. CASE id = k
      <3>1. s \in Session
        BY <1>1, <2>1, RealSession
      <3>2. p + u <= s.lockedInternal
        BY <2>1, <3>1 DEF SplitAllowed, Session
      <3>3. ProtocolFee(p) \in Nat
        BY <1>1, FeeBound
      <3>4. /\ new.user = s.user /\ new.nodeId = s.nodeId
            /\ new.openingInternal = s.openingInternal
            /\ new.usageRecorded = s.usageRecorded
            /\ new.lockedInternal = s.lockedInternal - (p + u)
            /\ new.paidToProviderInternal = s.paidToProviderInternal + p
        BY <3>1, <3>2, <3>3, ReleasedFields
      <3> HIDE DEF new
      <3>5. sessionById'[id] = new
        BY <1>1, <2>1, <2>2
      <3> QED
        BY <2>1, <2>2, <3>1, <3>4, <3>5 DEF SessionAdvances, Session
    <2>3. CASE id # k
      <3> HIDE DEF new
      <3> QED
        BY <1>1, <1>2, <2>1, <2>3
    <2> QED
      BY <2>2, <2>3
  <1>7. CASE UNCHANGED vars
    BY <1>3, <1>7 DEF vars, sessionVars
  <1>8. CASE Governance \/ MoneyMoves \/ OutsideMoves
    <2>1. UNCHANGED sessionById
      BY <1>8 DEF Governance, SetTeePriceMultiplierBps, SetProtocolFeeBps,
                  SetSettlementOperator, SetRecordUsage, SetProtocolTreasury, MoneyMoves,
                  DepositDot, Receive, DepositUsdcAsDot, WithdrawDot, WithdrawProtocolDot,
                  WithdrawProviderDot, OutsideMoves, RegistryChanges, RegistryOwnerChanges,
                  ModelPriceChanges, RateChanges, sessionVars
    <2> QED
      BY <1>3, <2>1
  <1>9. CASE SessionMoves
    <2>1. PICK sender \in Accounts :
            \/ \E n \in Nodes, t \in Tier, m \in Models, amount \in Amounts,
                  value \in 0..MaxNative : OpenSession(sender, n, t, m, amount, value)
            \/ \E k \in SessionIds, d \in TokenDeltas : RecordUsage(sender, k, d[1], d[2])
            \/ \E k \in SessionIds, p \in 0..MaxUsage, u \in 0..MaxCirculating,
                  mustDrain \in BOOLEAN : Settle(k, p, u, mustDrain)
      BY <1>9 DEF SessionMoves, SettleByUser, SettleByOperator
    <2>2. \A d \in TokenDeltas : d[1] \in Nat /\ d[2] \in Nat
      BY AmountAssumption
    <2>3. 0..MaxUsage \subseteq Nat /\ 0..MaxCirculating \subseteq Nat
      BY AmountAssumption
    <2> QED
      BY <1>4, <1>5, <1>6, <2>1, <2>2, <2>3, Zenon
  <1> QED
    BY <1>7, <1>8, <1>9 DEF Next

\* A session's user appears only by openSession, on a node that supports its tier.
LEMMA OpensSupported ==
    ASSUME IInv, [Next]_vars, NEW n \in Nodes, supportedTiers[n] = {}
    PROVE  OpenSessionsOf(n)' \subseteq OpenSessionsOf(n)
  <1> SUFFICES ASSUME NEW id \in SessionIds, id \in OpenSessionsOf(n)'
               PROVE  id \in OpenSessionsOf(n)
    BY DEF OpenSessionsOf
  <1>1. /\ sessionById'[id].user # NoAccount
        /\ ~sessionById'[id].settled
        /\ sessionById'[id].nodeId = n
    BY DEF OpenSessionsOf
  <1>2. CASE sessionById[id].user # NoAccount
    BY <1>1, <1>2, StepAdvances DEF SessionAdvances, OpenSessionsOf
  <1>3. CASE sessionById[id].user = NoAccount
    <2>1. sessionById \in [SessionIds -> Session]
      BY DEF IInv, MoneyInv, MoneyTypeOK
    <2>2. sessionById'[id] # sessionById[id]
      BY <1>1, <1>3
    <2>3. ASSUME NEW a \in Accounts, NEW m \in Nodes, NEW t \in Tier, NEW mod \in Models,
                 NEW amt \in Amounts, NEW v \in 0..MaxNative,
                 OpenSession(a, m, t, mod, amt, v)
          PROVE  FALSE
      <3>1. t \in supportedTiers[m]
        BY <2>3 DEF OpenSession
      <3>2. sessionById' = [sessionById EXCEPT
                ![nextSessionId] = NewSession(a, m, mod, t, amt)]
        BY <2>3 DEF OpenSession
      <3>3. sessionById'[id] = NewSession(a, m, mod, t, amt)
        BY <2>1, <2>2, <3>2
      <3>4. m = n
        BY <1>1, <3>3 DEF NewSession
      <3> QED
        BY <3>1, <3>4
    <2>4. ASSUME NEW k \in SessionIds, NEW new, sessionById[k].user # NoAccount,
                 sessionById' = [sessionById EXCEPT ![k] = new]
          PROVE  FALSE
      BY <1>3, <2>1, <2>2, <2>4
    <2>5. CASE SessionMoves
      <3>1. PICK sender \in Accounts :
              \/ \E m \in Nodes, t \in Tier, mod \in Models, amount \in Amounts,
                    value \in 0..MaxNative : OpenSession(sender, m, t, mod, amount, value)
              \/ \E k \in SessionIds, d \in TokenDeltas : RecordUsage(sender, k, d[1], d[2])
              \/ \E k \in SessionIds, p \in 0..MaxUsage, u \in 0..MaxCirculating,
                    mustDrain \in BOOLEAN : Settle(k, p, u, mustDrain)
        BY <2>5 DEF SessionMoves, SettleByUser, SettleByOperator
      <3>2. ASSUME NEW k \in SessionIds, NEW i, NEW o, RecordUsage(sender, k, i, o)
            PROVE  FALSE
        BY <2>4, <3>2, Zenon DEF RecordUsage
      <3>3. ASSUME NEW k \in SessionIds, NEW p, NEW u, NEW mustDrain,
                   Settle(k, p, u, mustDrain)
            PROVE  FALSE
        BY <2>4, <3>3, Zenon DEF Settle
      <3> QED
        BY <2>3, <3>1, <3>2, <3>3, Zenon
    <2>6. CASE Governance \/ MoneyMoves \/ OutsideMoves \/ UNCHANGED vars
      <3>1. UNCHANGED sessionById
        BY <2>6 DEF Governance, SetTeePriceMultiplierBps, SetProtocolFeeBps,
                  SetSettlementOperator, SetRecordUsage, SetProtocolTreasury, MoneyMoves,
                  DepositDot, Receive, DepositUsdcAsDot, WithdrawDot, WithdrawProtocolDot,
                  WithdrawProviderDot, OutsideMoves, RegistryChanges, RegistryOwnerChanges,
                  ModelPriceChanges, RateChanges, sessionVars, vars
      <3> QED
        BY <2>2, <3>1
    <2> QED
      BY <2>5, <2>6 DEF Next
  <1> QED
    BY <1>2, <1>3

\* A zero counter means that no session of the node is unsettled.
LEMMA ZeroCountDrained ==
    ASSUME IInv, NEW n \in Nodes, openSessionCountByNode[n] = 0
    PROVE  OpenSessionsOf(n) = {}
  BY OpenFinite, FS_EmptySet DEF IInv, MoneyInv, OpenCountsMatch

\* A settled session is frozen, and an open one keeps its user, node and opening
\* amount while its lock only shrinks and its usage and payouts only grow
\* (SessionsOnlyAdvance).
THEOREM SessionsAdvance == Spec => SessionsOnlyAdvance
  <1>1. IInv /\ [Next]_vars => [\A id \in SessionIds : SessionAdvances(id)]_vars
    BY StepAdvances
  <1> QED
    BY <1>1, Invariance, PTL DEF Spec, SessionsOnlyAdvance

-------------------------------------------------------------------------------
\* Whose money the earnings are.

\* Net payouts and fees are natural numbers, per session.
LEMMA PaidNat ==
    ASSUME MoneyInv
    PROVE  /\ \A n \in Nodes : NetPaid(n) \in [SessionIds -> Nat]
           /\ Fees \in [SessionIds -> Nat]
  <1>1. \A id \in SessionIds :
          /\ sessionById[id].paidToProviderInternal \in Nat
          /\ sessionById[id].paidToProtocolInternal \in Nat
          /\ sessionById[id].paidToProtocolInternal <= sessionById[id].paidToProviderInternal
    BY DEF MoneyInv, MoneyTypeOK, Session, SessionBooks
  <1> QED
    BY <1>1 DEF NetPaid, Fees

\* A step that pays nobody and takes at most from the balances.
LEMMA EarningsKept ==
    ASSUME MoneyInv, MoneyInv', EarningsAttributed,
           \A n \in Nodes : \A id \in SessionIds : NetPaid(n)'[id] = NetPaid(n)[id],
           \A id \in SessionIds : Fees'[id] = Fees[id],
           \A n \in Nodes : providerBalances'[n] <= providerBalances[n],
           protocolBalances' <= protocolBalances
    PROVE  EarningsAttributed'
  <1>1. Fees' = Fees /\ \A n \in Nodes : NetPaid(n)' = NetPaid(n)
    <2>1. ASSUME NEW n \in Nodes PROVE NetPaid(n)' = NetPaid(n)
      <3>1. /\ NetPaid(n) = [id \in SessionIds |-> NetPaid(n)[id]]
            /\ NetPaid(n)' = [id \in SessionIds |-> NetPaid(n)'[id]]
        BY DEF NetPaid
      <3> QED
        BY <3>1
    <2>2. Fees' = Fees
      <3>1. /\ Fees = [id \in SessionIds |-> Fees[id]]
            /\ Fees' = [id \in SessionIds |-> Fees'[id]]
        BY DEF Fees
      <3> QED
        BY <3>1
    <2> QED
      BY <2>1, <2>2
  <1>2. \A n \in Nodes : /\ providerBalances[n] \in Nat /\ providerBalances'[n] \in Nat
                         /\ Total(NetPaid(n), SessionIds) \in Nat
    BY PaidNat, SessionIdsFinite, UnitsFinite DEF MoneyInv, MoneyTypeOK
  <1>3. /\ protocolBalances \in Nat /\ protocolBalances' \in Nat
        /\ Total(Fees, SessionIds) \in Nat
    BY PaidNat, SessionIdsFinite, UnitsFinite DEF MoneyInv, MoneyTypeOK
  <1> QED
    BY <1>1, <1>2, <1>3 DEF EarningsAttributed

\* _settle adds to the node's earnings, and to the treasury's, what it adds to
\* the payout and the fee of one session of that node.
LEMMA EarningsSettle ==
    ASSUME IInv, MoneyInv', EarningsAttributed, NEW id \in SessionIds,
           NEW p \in Nat, NEW u \in Nat, NEW mustDrain \in BOOLEAN,
           Settle(id, p, u, mustDrain)
    PROVE  EarningsAttributed'
  <1> DEFINE s == sessionById[id]
  <1> DEFINE fee == ProtocolFee(p)
  <1> DEFINE new == Released(s, p, u)
  <1>1. MoneyInv /\ ConfigTypeOK /\ sessionById \in [SessionIds -> Session]
    BY DEF IInv, TypeOK, MoneyTypeOK
  <1>2. /\ s.user # NoAccount
        /\ SplitAllowed(s, p, u, mustDrain)
        /\ sessionById' = [sessionById EXCEPT ![id] = new]
        /\ providerBalances' = [providerBalances EXCEPT ![s.nodeId] = @ + (p - fee)]
        /\ protocolBalances' = protocolBalances + fee
    BY DEF Settle, PayProvider
  <1>3. s \in Session /\ s.nodeId \in Nodes
    BY <1>1, <1>2, RealSession
  <1>4. p + u <= s.lockedInternal
    BY <1>2, <1>3 DEF SplitAllowed, Session
  <1>5. fee \in Nat /\ fee <= p
    BY <1>1, FeeBound
  <1>6. /\ new.nodeId = s.nodeId
        /\ new.paidToProviderInternal = s.paidToProviderInternal + p
        /\ new.paidToProtocolInternal = s.paidToProtocolInternal + fee
    BY <1>3, <1>4, <1>5, ReleasedFields
  <1> HIDE DEF new, fee
  <1>7. sessionById'[id] = new /\ \A j \in SessionIds \ {id} : sessionById'[j] = sessionById[j]
    BY <1>1, <1>2
  <1>8. /\ s.paidToProviderInternal \in Nat
        /\ s.paidToProtocolInternal \in Nat
    BY <1>3 DEF Session
  <1>9. protocolBalances' <= Total(Fees', SessionIds)
    <2>1. Fees \in [SessionIds -> Nat]
      BY <1>1, PaidNat
    <2>2. Fees' = [Fees EXCEPT ![id] = @ + fee]
      <3>1. /\ Fees'[id] = Fees[id] + fee
            /\ \A j \in SessionIds \ {id} : Fees'[j] = Fees[j]
        BY <1>6, <1>7 DEF Fees
      <3>2. Fees' = [j \in SessionIds |-> Fees'[j]]
        BY DEF Fees
      <3> QED
        BY <2>1, <3>1, <3>2
    <2>3. Total(Fees', SessionIds) = Total(Fees, SessionIds) + fee
      BY <1>5, <2>1, <2>2, SessionIdsFinite, TotalExceptAdd, Zenon
    <2>4. Total(Fees, SessionIds) \in Nat /\ protocolBalances \in Nat
      BY <1>1, <2>1, SessionIdsFinite, UnitsFinite DEF MoneyInv, MoneyTypeOK
    <2> QED
      BY <1>2, <1>5, <2>3, <2>4 DEF EarningsAttributed
  <1>10. ASSUME NEW n \in Nodes PROVE providerBalances'[n] <= Total(NetPaid(n)', SessionIds)
    <2>1. NetPaid(n) \in [SessionIds -> Nat]
      BY <1>1, PaidNat
    <2>2. providerBalances \in [Nodes -> Nat] /\ Total(NetPaid(n), SessionIds) \in Nat
      BY <1>1, <2>1, SessionIdsFinite, UnitsFinite DEF MoneyInv, MoneyTypeOK
    <2>3. providerBalances[n] <= Total(NetPaid(n), SessionIds)
      BY DEF EarningsAttributed
    <2>4. NetPaid(n)' = [j \in SessionIds |-> NetPaid(n)'[j]]
      BY DEF NetPaid
    <2>5. \A j \in SessionIds \ {id} : NetPaid(n)'[j] = NetPaid(n)[j]
      BY <1>7 DEF NetPaid
    <2>6. CASE n = s.nodeId
      <3>1. NetPaid(n)'[id] = NetPaid(n)[id] + (p - fee)
        BY <1>5, <1>6, <1>7, <1>8, <2>6 DEF NetPaid
      <3>2. NetPaid(n)' = [NetPaid(n) EXCEPT ![id] = @ + (p - fee)]
        BY <2>1, <2>4, <2>5, <3>1
      <3>3. p - fee \in Nat
        BY <1>5
      <3>4. Total(NetPaid(n)', SessionIds) = Total(NetPaid(n), SessionIds) + (p - fee)
        <4> DEFINE f == NetPaid(n)
        <4> DEFINE d == p - fee
        <4>1. f \in [SessionIds -> Nat] /\ d \in Nat
          BY <2>1, <3>3
        <4>2. NetPaid(n)' = [f EXCEPT ![id] = f[id] + d]
          BY <3>2
        <4> HIDE DEF f, d
        <4>3. Total([f EXCEPT ![id] = f[id] + d], SessionIds) = Total(f, SessionIds) + d
          BY <4>1, SessionIdsFinite, TotalExceptAdd, Zenon
        <4>4. Total(NetPaid(n)', SessionIds) = Total(f, SessionIds) + d
          BY <4>2, <4>3, Zenon
        <4> QED
          BY <4>4 DEF f, d
      <3> QED
        BY <1>2, <1>3, <2>2, <2>3, <2>6, <3>3, <3>4
    <2>7. CASE n # s.nodeId
      <3>1. NetPaid(n)'[id] = NetPaid(n)[id]
        BY <1>6, <1>7, <2>7 DEF NetPaid
      <3>2. NetPaid(n)' = NetPaid(n)
        BY <2>1, <2>4, <2>5, <3>1
      <3> QED
        BY <1>2, <1>3, <2>2, <2>3, <2>7, <3>2
    <2> QED
      BY <2>6, <2>7
  <1> QED
    BY <1>9, <1>10 DEF EarningsAttributed

\* Every step keeps the earnings attributed.
LEMMA EarningsStep ==
    ASSUME IInv, IInv', EarningsAttributed, [Next]_vars
    PROVE  EarningsAttributed'
  <1>1. /\ MoneyInv /\ MoneyInv' /\ ConfigTypeOK /\ ViewTypeOK
        /\ sessionById \in [SessionIds -> Session]
        /\ providerBalances \in [Nodes -> Nat] /\ protocolBalances \in Nat
    BY DEF IInv, TypeOK, MoneyTypeOK
  <1>2. ASSUME UNCHANGED sessionById,
               \A n \in Nodes : providerBalances'[n] <= providerBalances[n],
               protocolBalances' <= protocolBalances
        PROVE  EarningsAttributed'
    <2>1. /\ \A n \in Nodes : \A id \in SessionIds : NetPaid(n)'[id] = NetPaid(n)[id]
          /\ \A id \in SessionIds : Fees'[id] = Fees[id]
      BY <1>2 DEF NetPaid, Fees
    <2> QED
      BY <1>1, <1>2, <2>1, EarningsKept
  <1>3. CASE Governance \/ OutsideMoves \/ UNCHANGED vars
    <2>1. UNCHANGED <<sessionById, providerBalances, protocolBalances>>
      BY <1>3 DEF Governance, SetTeePriceMultiplierBps, SetProtocolFeeBps,
                  SetSettlementOperator, SetRecordUsage, SetProtocolTreasury,
                  OutsideMoves, RegistryChanges, RegistryOwnerChanges, ModelPriceChanges,
                  RateChanges, vars, balances, sessionVars
    <2> QED
      BY <1>1, <1>2, <2>1
  <1>4. CASE MoneyMoves
    <2>1. UNCHANGED sessionById
      BY <1>4 DEF MoneyMoves, DepositDot, Receive, DepositUsdcAsDot, WithdrawDot,
                  WithdrawProtocolDot, WithdrawProviderDot, sessionVars
    <2>2. \A n \in Nodes : providerBalances'[n] <= providerBalances[n]
      BY <1>1, <1>4, AmountAssumption
         DEF MoneyMoves, DepositDot, Receive, DepositUsdcAsDot, WithdrawDot,
             WithdrawProtocolDot, WithdrawProviderDot, balances
    <2>3. protocolBalances' <= protocolBalances
      BY <1>1, <1>4, AmountAssumption
         DEF MoneyMoves, DepositDot, Receive, DepositUsdcAsDot, WithdrawDot,
             WithdrawProtocolDot, WithdrawProviderDot, balances
    <2> QED
      BY <1>2, <2>1, <2>2, <2>3
  <1>5. ASSUME NEW a \in Accounts, NEW k \in Nodes, NEW t \in Tier, NEW m \in Models,
               NEW amt \in Amounts, NEW v \in 0..MaxNative, OpenSession(a, k, t, m, amt, v)
        PROVE  EarningsAttributed'
    <2> DEFINE id == nextSessionId
    <2>1. id \in SessionIds /\ sessionById[id] = NoSession
      BY <1>1, <1>5, AmountAssumption
         DEF MoneyInv, MoneyTypeOK, SessionShape, OpenSession, SessionIds
    <2>2. /\ sessionById' = [sessionById EXCEPT ![id] = NewSession(a, k, m, t, amt)]
          /\ UNCHANGED <<providerBalances, protocolBalances>>
      BY <1>5 DEF OpenSession
    <2> HIDE DEF id
    <2>3. /\ sessionById'[id].paidToProviderInternal = 0
          /\ sessionById'[id].paidToProtocolInternal = 0
          /\ sessionById[id].paidToProviderInternal = 0
          /\ sessionById[id].paidToProtocolInternal = 0
          /\ \A j \in SessionIds \ {id} : sessionById'[j] = sessionById[j]
      BY <1>1, <2>1, <2>2 DEF NewSession, NoSession
    <2>4. /\ \A n \in Nodes : \A j \in SessionIds : NetPaid(n)'[j] = NetPaid(n)[j]
          /\ \A j \in SessionIds : Fees'[j] = Fees[j]
      BY <2>3 DEF NetPaid, Fees
    <2> QED
      BY <1>1, <2>2, <2>4, EarningsKept
  <1>6. ASSUME NEW a \in Accounts, NEW id \in SessionIds, NEW i \in Nat, NEW o \in Nat,
               RecordUsage(a, id, i, o)
        PROVE  EarningsAttributed'
    <2> DEFINE s == sessionById[id]
    <2> DEFINE cost == UsageCost(s.tier, effectivePrice[s.modelId], i, o)
    <2> DEFINE new == Metered(s, cost, i, o)
    <2>1. /\ s.user # NoAccount /\ effectivePrice[s.modelId] # NoPrice
          /\ sessionById' = [sessionById EXCEPT ![id] = new]
          /\ UNCHANGED <<providerBalances, protocolBalances>>
      BY <1>6 DEF RecordUsage, balances
    <2>2. s \in Session /\ s.modelId \in Models
      BY <1>1, <2>1, RealSession
    <2>3. cost \in Nat
      BY <1>1, <2>1, <2>2, CostNat DEF ViewTypeOK
    <2>4. Uint64(i) \in Nat /\ Uint64(o) \in Nat
      BY ScaleAssumption DEF Uint64
    <2> HIDE DEF cost
    <2>5. /\ new.nodeId = s.nodeId
          /\ new.paidToProviderInternal = s.paidToProviderInternal
          /\ new.paidToProtocolInternal = s.paidToProtocolInternal
      BY <2>2, <2>3, <2>4, MeteredFields
    <2> HIDE DEF new
    <2>6. sessionById'[id] = new /\ \A j \in SessionIds \ {id} : sessionById'[j] = sessionById[j]
      BY <1>1, <2>1
    <2>7. /\ \A n \in Nodes : \A j \in SessionIds : NetPaid(n)'[j] = NetPaid(n)[j]
          /\ \A j \in SessionIds : Fees'[j] = Fees[j]
      BY <2>5, <2>6 DEF NetPaid, Fees
    <2> QED
      BY <1>1, <2>1, <2>7, EarningsKept
  <1>7. CASE SessionMoves
    <2>1. PICK sender \in Accounts :
            \/ \E n \in Nodes, t \in Tier, m \in Models, amount \in Amounts,
                  value \in 0..MaxNative : OpenSession(sender, n, t, m, amount, value)
            \/ \E k \in SessionIds, d \in TokenDeltas : RecordUsage(sender, k, d[1], d[2])
            \/ \E k \in SessionIds, p \in 0..MaxUsage, u \in 0..MaxCirculating,
                  mustDrain \in BOOLEAN : Settle(k, p, u, mustDrain)
      BY <1>7 DEF SessionMoves, SettleByUser, SettleByOperator
    <2>2. \A d \in TokenDeltas : d[1] \in Nat /\ d[2] \in Nat
      BY AmountAssumption
    <2>3. 0..MaxUsage \subseteq Nat /\ 0..MaxCirculating \subseteq Nat
      BY AmountAssumption
    <2>4. ASSUME NEW k \in SessionIds, NEW p \in Nat, NEW u \in Nat,
                 NEW mustDrain \in BOOLEAN, Settle(k, p, u, mustDrain)
          PROVE  EarningsAttributed'
      BY <1>1, <2>4, EarningsSettle
    <2> QED
      BY <1>5, <1>6, <2>1, <2>2, <2>3, <2>4, Zenon
  <1> QED
    BY <1>3, <1>4, <1>7 DEF Next

\* What each node and the treasury can withdraw is covered by the payouts and the
\* fees of the very sessions it came from (EarningsAttributed).
THEOREM EarningsAreAttributed == Spec => []EarningsAttributed
  <1>1. Init => EarningsAttributed
    <2> SUFFICES ASSUME Init PROVE EarningsAttributed
      OBVIOUS
    <2>1. MoneyInv
      BY InitMoney
    <2>2. /\ \A n \in Nodes : Total(NetPaid(n), SessionIds) \in Nat
          /\ Total(Fees, SessionIds) \in Nat
      BY <2>1, PaidNat, SessionIdsFinite, UnitsFinite
    <2> QED
      BY <2>2 DEF Init, EarningsAttributed
  <1>2. IInv /\ IInv' /\ EarningsAttributed /\ [Next]_vars => EarningsAttributed'
    BY EarningsStep
  <1> QED
    BY <1>1, <1>2, Invariance, PTL DEF Spec

-------------------------------------------------------------------------------
\* The native custody.

\* Rounding an amount down to whole native units loses less than one unit.
LEMMA DivRemainder ==
    ASSUME NEW a \in Nat, NEW b \in Nat \ {0}
    PROVE  (a \div b) * b <= a /\ a <= (a \div b) * b + (b - 1)
  <1>1. a = (a \div b) * b + (a % b) /\ a % b \in 0..(b - 1)
    BY SMT
  <1>2. (a \div b) * b \in Nat
    BY DivNat, MulNat
  <1> QED
    BY <1>1, <1>2

\* Products distribute over sums and differences of naturals.
LEMMA Distributes ==
    ASSUME NEW a \in Nat, NEW b \in Nat, NEW c \in Nat
    PROVE  (a + b) * c = a * c + b * c /\ (a - b) * c = a * c - b * c
  BY SMT

\* Each step widens the gap between the liabilities and the native custody by at
\* most what ShortfallBounded allows it.
LEMMA ShortfallStep ==
    ASSUME IInv, ShortfallBounded, [Next]_vars
    PROVE  ShortfallBounded'
  <1> DEFINE U == NATIVE_UNIT
  <1> DEFINE held == nativeBalance * U
  <1> DEFINE slack == (U - 1) * nextSessionId
  <1>1. /\ internalCirculating \in Nat /\ nativeBalance \in Nat /\ usdcCredited \in Nat
        /\ nextSessionId \in Nat /\ U \in Nat \ {0} /\ U - 1 \in Nat
    BY ScaleAssumption DEF IInv, TypeOK, MoneyTypeOK, CustodyTypeOK
  <1>2. held \in Nat /\ slack \in Nat
    BY <1>1, MulNat
  <1>3. internalCirculating <= held + usdcCredited + slack
    BY DEF ShortfallBounded
  <1>4. ASSUME NEW d \in Nat, PayNative(d), internalCirculating' = internalCirculating - d,
               UNCHANGED <<usdcCredited, nextSessionId>>
        PROVE  ShortfallBounded'
    <2> DEFINE q == d \div U
    <2>1. q \in Nat /\ q * U <= d /\ q * U \in Nat
      BY <1>1, DivNat, MulNat, DivRemainder
    <2>2. nativeBalance' = nativeBalance - q
      BY <1>4 DEF PayNative, InternalToNative
    <2>3. nativeBalance' * U = held - q * U
      BY <1>1, <2>1, <2>2, Distributes
    <2> HIDE DEF q, held, slack
    <2>4. internalCirculating' <= nativeBalance' * U + usdcCredited + slack
      BY <1>1, <1>2, <1>3, <1>4, <2>1, <2>3
    <2> QED
      BY <1>4, <2>4 DEF ShortfallBounded, slack
  <1>5. ASSUME NEW v \in Nat, nativeBalance' = nativeBalance + v,
               internalCirculating' = internalCirculating + v * U
                   \/ internalCirculating' = internalCirculating,
               UNCHANGED <<usdcCredited, nextSessionId>>
        PROVE  ShortfallBounded'
    <2>1. v * U \in Nat /\ nativeBalance' * U = held + v * U
      BY <1>1, <1>5, MulNat, Distributes
    <2> HIDE DEF held, slack
    <2>2. internalCirculating' <= nativeBalance' * U + usdcCredited + slack
      BY <1>1, <1>2, <1>3, <1>5, <2>1
    <2> QED
      BY <1>5, <2>2 DEF ShortfallBounded, slack
  <1>6. CASE UNCHANGED <<internalCirculating, nativeBalance, usdcCredited, nextSessionId>>
    BY <1>6 DEF ShortfallBounded
  <1>7. CASE Governance \/ OutsideMoves \/ UNCHANGED vars
    BY <1>6, <1>7 DEF Governance, SetTeePriceMultiplierBps, SetProtocolFeeBps,
                  SetSettlementOperator, SetRecordUsage, SetProtocolTreasury,
                  OutsideMoves, RegistryChanges, RegistryOwnerChanges, ModelPriceChanges,
                  RateChanges, vars, caches, custody, sessionVars
  <1>8. CASE MoneyMoves
    <2>1. ASSUME NEW a \in Accounts, NEW v \in 1..MaxNative, DepositDot(a, v)
          PROVE  ShortfallBounded'
      <3>1. v \in Nat
        BY AmountAssumption
      <3> QED
        BY <1>5, <2>1, <3>1 DEF DepositDot, NativeToInternal, sessionVars
    <2>2. ASSUME NEW v \in Gifts, Receive(v)
          PROVE  ShortfallBounded'
      BY <1>5, <2>2, AmountAssumption DEF Receive, caches, sessionVars
    <2>3. ASSUME NEW a \in Accounts, NEW amount \in UsdcAmounts, DepositUsdcAsDot(a, amount)
          PROVE  ShortfallBounded'
      <3> DEFINE credited == (amount * USDC_UNIT) \div usdcPerDot
      <3>1. usdcPerDot \in Nat \ {0}
        BY <2>3 DEF DepositUsdcAsDot, IInv, TypeOK, ViewTypeOK
      <3>2. credited \in Nat
        BY <3>1, AmountAssumption, ScaleAssumption, MulNat, DivNat
      <3>3. /\ internalCirculating' = internalCirculating + credited
            /\ usdcCredited' = usdcCredited + credited
            /\ UNCHANGED <<nativeBalance, nextSessionId>>
        BY <2>3 DEF DepositUsdcAsDot, sessionVars
      <3> HIDE DEF credited, held, slack
      <3>4. internalCirculating' <= held + usdcCredited' + slack
        BY <1>1, <1>2, <1>3, <3>2, <3>3
      <3> QED
        BY <3>3, <3>4 DEF ShortfallBounded, held, slack
    <2>4. ASSUME NEW a \in Accounts, NEW amount \in Amounts,
                 WithdrawDot(a, amount) \/ WithdrawProtocolDot(a, amount)
                     \/ \E n \in Nodes : WithdrawProviderDot(a, n, amount)
          PROVE  ShortfallBounded'
      BY <1>4, <2>4, AmountAssumption
         DEF WithdrawDot, WithdrawProtocolDot, WithdrawProviderDot, sessionVars
    <2> QED
      BY <1>8, <2>1, <2>2, <2>3, <2>4 DEF MoneyMoves
  <1>9. ASSUME NEW a \in Accounts, NEW n \in Nodes, NEW t \in Tier, NEW m \in Models,
               NEW amt \in Amounts, NEW v \in 0..MaxNative, OpenSession(a, n, t, m, amt, v)
        PROVE  ShortfallBounded'
    <2>1. amt \in Nat /\ v \in Nat
      BY AmountAssumption
    <2>2. nextSessionId' = nextSessionId + 1 /\ UNCHANGED usdcCredited
      BY <1>9 DEF OpenSession
    <2>3. (U - 1) * nextSessionId' = slack + (U - 1)
      <3>1. (nextSessionId + 1) * (U - 1) = nextSessionId * (U - 1) + 1 * (U - 1)
        BY <1>1, Distributes
      <3> QED
        BY <1>1, <2>2, <3>1, SMT
    <2>4. CASE UNCHANGED <<internalCirculating, nativeBalance>>
      <3> HIDE DEF held, slack
      <3>1. internalCirculating' <= held + usdcCredited + (U - 1) * nextSessionId'
        BY <1>1, <1>2, <1>3, <2>3, <2>4
      <3> QED
        BY <2>2, <2>4, <3>1 DEF ShortfallBounded, held
    <2>5. CASE /\ v = InternalToNative(amt)
               /\ internalCirculating' = internalCirculating + amt
               /\ nativeBalance' = nativeBalance + v
      <3>1. v * U \in Nat /\ amt <= v * U + (U - 1)
        BY <1>1, <2>1, <2>5, MulNat, DivRemainder DEF InternalToNative
      <3>2. nativeBalance' * U = held + v * U
        BY <1>1, <2>1, <2>5, Distributes
      <3> HIDE DEF held, slack
      <3>3. internalCirculating' <= nativeBalance' * U + usdcCredited + (U - 1) * nextSessionId'
        BY <1>1, <1>2, <1>3, <2>1, <2>3, <2>5, <3>1, <3>2
      <3> QED
        BY <2>2, <3>3 DEF ShortfallBounded
    <2> QED
      BY <1>9, <2>4, <2>5 DEF OpenSession, FundLockedSession
  <1>10. CASE SessionMoves
    <2>1. PICK sender \in Accounts :
            \/ \E n \in Nodes, t \in Tier, m \in Models, amount \in Amounts,
                  value \in 0..MaxNative : OpenSession(sender, n, t, m, amount, value)
            \/ \E k \in SessionIds, d \in TokenDeltas : RecordUsage(sender, k, d[1], d[2])
            \/ \E k \in SessionIds, p \in 0..MaxUsage, u \in 0..MaxCirculating,
                  mustDrain \in BOOLEAN : Settle(k, p, u, mustDrain)
      BY <1>10 DEF SessionMoves, SettleByUser, SettleByOperator
    <2>2. ASSUME NEW k \in SessionIds, NEW i, NEW o, RecordUsage(sender, k, i, o)
          PROVE  ShortfallBounded'
      BY <1>6, <2>2 DEF RecordUsage, caches, custody
    <2>3. ASSUME NEW k \in SessionIds, NEW p, NEW u, NEW mustDrain, Settle(k, p, u, mustDrain)
          PROVE  ShortfallBounded'
      BY <1>6, <2>3 DEF Settle, custody
    <2> QED
      BY <1>9, <2>1, <2>2, <2>3, Zenon
  <1> QED
    BY <1>7, <1>8, <1>10 DEF Next

\* Native custody falls behind the liabilities by no more than the USDC credits
\* and one rounding per session (ShortfallBounded).
THEOREM CustodyShortfall == Spec => []ShortfallBounded
  <1>1. Init => ShortfallBounded
    BY ScaleAssumption DEF Init, ShortfallBounded
  <1>2. IInv /\ ShortfallBounded /\ [Next]_vars => ShortfallBounded'
    BY ShortfallStep
  <1> QED
    BY <1>1, <1>2, Invariance, PTL DEF Spec

-------------------------------------------------------------------------------
\* The escrow implements SessionLedger.  The refinement needs the invariant: a full
\* settle of an empty lock would be no step of the ledger, and SessionBooks excludes it.

\* A call that writes one session record changes one entry of the ledger.
LEMMA EntryUpdate ==
    ASSUME sessionById \in [SessionIds -> Session], NEW k \in SessionIds, NEW new,
           sessionById' = [sessionById EXCEPT ![k] = new]
    PROVE  entries' = [entries EXCEPT ![k] = EntryOf(new)]
  <1>1. \A id \in SessionIds : sessionById'[id] = IF id = k THEN new ELSE sessionById[id]
    OBVIOUS
  <1>2. entries' = [id \in SessionIds |-> EntryOf(sessionById'[id])]
    BY DEF entries, EntryOf
  <1> QED
    BY <1>1, <1>2 DEF entries

\* openSession opens an entry that was unknown.
LEMMA OpenIsOpen ==
    ASSUME IInv, NEW a \in Accounts, NEW n \in Nodes, NEW t \in Tier, NEW m \in Models,
           NEW amt \in Amounts, NEW v \in 0..MaxNative, OpenSession(a, n, t, m, amt, v)
    PROVE  Ledger!LedgerNext
  <1> DEFINE k == nextSessionId
  <1>1. /\ k \in SessionIds /\ sessionById \in [SessionIds -> Session]
        /\ sessionById[k] = NoSession
        /\ sessionById' = [sessionById EXCEPT ![k] = NewSession(a, n, m, t, amt)]
        /\ amt > 0
    BY AmountAssumption DEF OpenSession, IInv, MoneyInv, MoneyTypeOK, SessionShape, SessionIds
  <1> HIDE DEF k
  <1>2. entries' = [entries EXCEPT ![k] = EntryOf(NewSession(a, n, m, t, amt))]
    BY <1>1, EntryUpdate
  <1>3. a # NoAccount
    BY AccountAssumption
  <1>4. EntryOf(NewSession(a, n, m, t, amt)) = Ledger!Opened(amt)
    BY <1>3 DEF EntryOf, NewSession, Ledger!Opened
  <1>5. entries[k].status = "unknown"
    BY <1>1 DEF entries, EntryOf, NoSession, NewSession
  <1>6. Ledger!Open(k, amt)
    BY <1>1, <1>2, <1>4, <1>5 DEF Ledger!Open
  <1> QED
    BY <1>1, <1>6 DEF Ledger!LedgerNext

\* recordUsage reports on an open entry.
LEMMA RecordIsReport ==
    ASSUME IInv, NEW a \in Accounts, NEW k \in SessionIds, NEW i \in Nat, NEW o \in Nat,
           RecordUsage(a, k, i, o)
    PROVE  Ledger!LedgerNext
  <1> DEFINE s == sessionById[k]
  <1> DEFINE cost == UsageCost(s.tier, effectivePrice[s.modelId], i, o)
  <1> DEFINE new == Metered(s, cost, i, o)
  <1>1. /\ MoneyInv /\ ConfigTypeOK /\ ViewTypeOK
        /\ sessionById \in [SessionIds -> Session]
    BY DEF IInv, MoneyInv, MoneyTypeOK, TypeOK
  <1>2. /\ s.user # NoAccount /\ ~s.settled /\ effectivePrice[s.modelId] # NoPrice
        /\ s.usageRecorded + cost <= MaxUsage
        /\ sessionById' = [sessionById EXCEPT ![k] = new]
    BY DEF RecordUsage
  <1>3. s \in Session /\ s.modelId \in Models
    BY <1>1, <1>2, RealSession
  <1>4. cost \in Nat
    BY <1>1, <1>2, <1>3, CostNat DEF ViewTypeOK
  <1>5. Uint64(i) \in Nat /\ Uint64(o) \in Nat
    BY ScaleAssumption DEF Uint64
  <1>6. cost \in 0..MaxUsage /\ s.usageRecorded \in Nat
    BY <1>2, <1>3, <1>4, AmountAssumption DEF Session
  <1> HIDE DEF cost
  <1>7. /\ new.user = s.user /\ new.settled = s.settled
        /\ new.openingInternal = s.openingInternal
        /\ new.lockedInternal = s.lockedInternal
        /\ new.paidToProviderInternal = s.paidToProviderInternal
        /\ new.usageRecorded = s.usageRecorded + cost
    BY <1>3, <1>4, <1>5, MeteredFields
  <1> HIDE DEF new
  <1>8. entries' = [entries EXCEPT ![k] = EntryOf(new)]
    BY <1>1, <1>2, EntryUpdate
  <1>9. /\ entries[k] = EntryOf(s)
        /\ entries[k].status = "open" /\ entries[k].usage = s.usageRecorded
    BY <1>2 DEF entries, EntryOf
  <1>10. EntryOf(new) = [entries[k] EXCEPT !.usage = entries[k].usage + cost]
    BY <1>2, <1>7, <1>9 DEF EntryOf
  <1>11. Ledger!Report(k, cost)
    BY <1>2, <1>8, <1>9, <1>10 DEF Ledger!Report, Ledger!Reportable
  <1> QED
    BY <1>6, <1>11 DEF Ledger!LedgerNext

\* Each settle call releases from an open entry, and settles it when it is drained.
LEMMA SettleIsRelease ==
    ASSUME IInv, NEW k \in SessionIds, NEW p \in Nat, NEW u \in Nat,
           NEW mustDrain \in BOOLEAN, Settle(k, p, u, mustDrain)
    PROVE  Ledger!LedgerNext
  <1> DEFINE s == sessionById[k]
  <1> DEFINE new == Released(s, p, u)
  <1>1. /\ MoneyInv /\ ConfigTypeOK
        /\ sessionById \in [SessionIds -> Session]
    BY DEF IInv, MoneyInv, MoneyTypeOK, TypeOK
  <1>2. /\ s.user # NoAccount /\ ~s.settled
        /\ SplitAllowed(s, p, u, mustDrain)
        /\ sessionById' = [sessionById EXCEPT ![k] = new]
    BY DEF Settle
  <1>3. s \in Session /\ s.lockedInternal \in Nat /\ s.paidToProviderInternal \in Nat
    BY <1>1, <1>2, RealSession DEF Session
  <1>4. s.lockedInternal # 0
    BY <1>1, <1>2 DEF MoneyInv, SessionBooks
  <1>5. /\ p + u <= s.lockedInternal /\ p + u > 0
        /\ s.paidToProviderInternal + p <= s.usageRecorded
    BY <1>2, <1>3, <1>4 DEF SplitAllowed
  <1>6. ProtocolFee(p) \in Nat
    BY <1>1, FeeBound
  <1>7. /\ new.user = s.user
        /\ new.openingInternal = s.openingInternal
        /\ new.usageRecorded = s.usageRecorded
        /\ new.lockedInternal = s.lockedInternal - (p + u)
        /\ new.paidToProviderInternal = s.paidToProviderInternal + p
        /\ new.settled = (s.lockedInternal = p + u)
    BY <1>3, <1>5, <1>6, ReleasedFields
  <1> HIDE DEF new
  <1>8. entries' = [entries EXCEPT ![k] = EntryOf(new)]
    BY <1>1, <1>2, EntryUpdate
  <1>9. /\ entries[k] = EntryOf(s)
        /\ entries[k].status = "open" /\ entries[k].usage = s.usageRecorded
        /\ entries[k].locked = s.lockedInternal
        /\ entries[k].paid = s.paidToProviderInternal
        /\ entries[k].opening = s.openingInternal
    BY <1>2 DEF entries, EntryOf
  <1>10. EntryOf(new) = Ledger!Released(entries[k], p, u)
    BY <1>2, <1>7, <1>9 DEF EntryOf, Ledger!Released
  <1>11. Ledger!Release(k, p, u)
    BY <1>5, <1>8, <1>9, <1>10 DEF Ledger!Release, Ledger!Releasable
  <1>12. p \in 0..entries[k].locked /\ u \in 0..entries[k].locked
    BY <1>3, <1>5, <1>9
  <1> QED
    BY <1>11, <1>12 DEF Ledger!LedgerNext

\* Every step of the escrow is a step of the ledger or leaves it as it is.
LEMMA StepRefines ==
    ASSUME IInv, [Next]_vars
    PROVE  [Ledger!LedgerNext]_entries
  <1>1. CASE UNCHANGED sessionById
    BY <1>1 DEF entries, EntryOf
  <1>2. CASE UNCHANGED vars
    BY <1>1, <1>2 DEF vars, sessionVars
  <1>3. CASE Governance \/ MoneyMoves \/ OutsideMoves
    <2>1. UNCHANGED sessionById
      BY <1>3 DEF Governance, SetTeePriceMultiplierBps, SetProtocolFeeBps,
                  SetSettlementOperator, SetRecordUsage, SetProtocolTreasury, MoneyMoves,
                  DepositDot, Receive, DepositUsdcAsDot, WithdrawDot, WithdrawProtocolDot,
                  WithdrawProviderDot, OutsideMoves, RegistryChanges, RegistryOwnerChanges,
                  ModelPriceChanges, RateChanges, sessionVars
    <2> QED
      BY <1>1, <2>1
  <1>4. CASE SessionMoves
    <2>1. PICK sender \in Accounts :
            \/ \E n \in Nodes, t \in Tier, m \in Models, amount \in Amounts,
                  value \in 0..MaxNative : OpenSession(sender, n, t, m, amount, value)
            \/ \E k \in SessionIds, d \in TokenDeltas : RecordUsage(sender, k, d[1], d[2])
            \/ \E k \in SessionIds, p \in 0..MaxUsage, u \in 0..MaxCirculating,
                  mustDrain \in BOOLEAN : Settle(k, p, u, mustDrain)
      BY <1>4 DEF SessionMoves, SettleByUser, SettleByOperator
    <2>2. \A d \in TokenDeltas : d[1] \in Nat /\ d[2] \in Nat
      BY AmountAssumption
    <2>3. 0..MaxUsage \subseteq Nat /\ 0..MaxCirculating \subseteq Nat
      BY AmountAssumption
    <2>4. Ledger!LedgerNext
      BY <2>1, <2>2, <2>3, OpenIsOpen, RecordIsReport, SettleIsRelease, Zenon
    <2> QED
      BY <2>4
  <1> QED
    BY <1>2, <1>3, <1>4 DEF Next

\* SettlementEscrow.sol implements SessionLedger: what the node's worker assumes
\* of the chain is what the contract does (LedgerRefined).
THEOREM LedgerImplemented == Spec => LedgerRefined
  <1>1. Init => Ledger!LedgerInit
    BY DEF Init, Ledger!LedgerInit, Ledger!NoEntry, entries, EntryOf, NoSession, NewSession
  <1>2. IInv /\ [Next]_vars => [Ledger!LedgerNext]_entries
    BY StepRefines
  <1> QED
    BY <1>1, <1>2, Invariance, PTL DEF Spec, LedgerRefined, Ledger!LedgerSpec
===============================================================================
