------------------------- MODULE TokenBucketProofs --------------------------
(***************************************************************************)
(* Proofs about RateLimiter for every capacity, rate, cost and bound.      *)
(***************************************************************************)
EXTENDS TokenBucket, TLAPS

\* The refill never yields a balance outside the bucket, and never takes
\* anything away (main.cpp:49-55).
LEMMA RefilledBounds ==
  ASSUME TypeOK
  PROVE  /\ Refilled \in 0..Capacity
         /\ tokens <= Refilled
         /\ Refilled <= tokens + (now - last_check) * RefillRate
<1>1. (now - last_check) * RefillRate \in Nat
  <2> DEFINE d == now - last_check
  <2>1. d \in Nat
    BY SMT DEF TypeOK
  <2>2. RefillRate \in Nat
    BY BucketAssumption
  <2> HIDE DEF d
  <2>3. d * RefillRate \in Nat
    BY <2>1, <2>2, SMT
  <2> QED BY <2>3 DEF d
<1> DEFINE earned == (now - last_check) * RefillRate
<1>2. tokens \in 0..Capacity /\ Capacity \in Nat
  BY BucketAssumption DEF TypeOK
<1>3. Refilled = IF tokens + earned > Capacity THEN Capacity ELSE tokens + earned
  BY DEF Refilled, Unclamped
<1> HIDE DEF earned
<1>4. earned \in Nat
  BY <1>1 DEF earned
<1>5. /\ Refilled \in 0..Capacity
      /\ tokens <= Refilled
      /\ Refilled <= tokens + earned
  BY <1>2, <1>3, <1>4, SMT
<1> QED BY <1>5 DEF earned

\* Appending the current time keeps the history well typed.
LEMMA HistoryGrows ==
  ASSUME TypeOK
  PROVE  /\ Append(admitted, now) \in Seq(0..now)
         /\ Len(Append(admitted, now)) = Len(admitted) + 1
         /\ Append(admitted, now)[Len(admitted) + 1] = now
         /\ \A i \in 1..Len(admitted) : Append(admitted, now)[i] = admitted[i]
  BY SMT DEF TypeOK

\* The balance and the clock of the limiter stay in range (main.cpp:46-62).
THEOREM TypeCorrect == Spec => []TypeOK
<1>1. Init => TypeOK
  BY BucketAssumption, SMT DEF Init, TypeOK
<1>2. TypeOK /\ [Next]_vars => TypeOK'
  <2> SUFFICES ASSUME TypeOK, [Next]_vars PROVE TypeOK'
    OBVIOUS
  <2> USE BucketAssumption
  <2>1. CASE Tick
    <3>1. admitted \in Seq(0..(now + 1))
      <4>1. /\ admitted \in Seq(0..now)
            /\ now \in Nat
        BY DEF TypeOK
      <4>2. \A i \in 1..Len(admitted) : admitted[i] \in 0..(now + 1)
        BY <4>1, SMT
      <4> QED BY <4>1, <4>2, SMT
    <3> QED BY <2>1, <3>1, SMT DEF Tick, TypeOK
  <2>2. CASE Admit
    BY <2>2, RefilledBounds, HistoryGrows, SMT DEF Admit, TypeOK
  <2>3. CASE Refuse
    BY <2>3, RefilledBounds, SMT DEF Refuse, TypeOK
  <2>4. CASE UNCHANGED vars
    BY <2>4 DEF vars, TypeOK
  <2> QED BY <2>1, <2>2, <2>3, <2>4 DEF Next
<1> QED BY <1>1, <1>2, PTL DEF Spec

-----------------------------------------------------------------------------
\* What its first half needs to be inductive: counted from any admission on,
\* the units spent and the units still there came out of a full bucket and
\* the refill up to the last call.
Ledger ==
  \A i \in 1..Len(admitted) :
    /\ admitted[i] <= last_check
    /\ (Len(admitted) - i + 1) * Cost + tokens
         <= Capacity + (last_check - admitted[i]) * RefillRate

BurstInv == TypeOK /\ Ledger /\ AdmitsAtMost

\* The law for a pair of admissions that is already in the history
\* does not depend on the later ones.
LEMMA LawKept ==
  ASSUME BurstInv, UNCHANGED admitted
  PROVE  AdmitsAtMost'
  BY DEF BurstInv, AdmitsAtMost

\* Every run of admissions is bounded by the capacity and the refill of the
\* time it spans (main.cpp:46-62).
LEMMA BurstBound == Spec => [](TypeOK /\ AdmitsAtMost)
<1>1. Init => BurstInv
  BY BucketAssumption, SMT DEF Init, BurstInv, TypeOK, Ledger, AdmitsAtMost
<1>2. BurstInv /\ TypeOK' /\ [Next]_vars => BurstInv'
  <2> SUFFICES ASSUME BurstInv, TypeOK', [Next]_vars PROVE BurstInv'
    OBVIOUS
  <2> USE BucketAssumption
  <2> DEFINE n == Len(admitted)
             earned == (now - last_check) * RefillRate
  <2>0. /\ TypeOK /\ Ledger /\ AdmitsAtMost
        /\ n \in Nat
        /\ tokens \in Int /\ last_check \in Int /\ now \in Int
        /\ last_check <= now
        /\ \A i \in 1..n : admitted[i] \in Nat
    BY SMT DEF BurstInv, TypeOK
  <2>1. CASE Tick
    <3>1. Ledger'
      BY <2>0, <2>1 DEF Tick, Ledger
    <3> QED BY <2>1, <3>1, LawKept DEF Tick, BurstInv
  <2>2. ASSUME NEW i \in 1..n
        PROVE  /\ (now - admitted[i]) * RefillRate
                    = earned + (last_check - admitted[i]) * RefillRate
               /\ (n - i + 1) * Cost + Refilled
                    <= Capacity + (now - admitted[i]) * RefillRate
               /\ admitted[i] <= now
    <3> DEFINE a == admitted[i]
    <3>1. a \in Nat /\ a <= last_check
      BY <2>0 DEF Ledger
    <3>2. (now - a) * RefillRate = earned + (last_check - a) * RefillRate
      <4> HIDE DEF a
      <4> QED BY <2>0, <3>1, SMT
    <3>3. (n - i + 1) * Cost + tokens <= Capacity + (last_check - a) * RefillRate
      BY <2>0 DEF Ledger
    <3>4. Refilled <= tokens + earned /\ Refilled \in Int
      BY <2>0, RefilledBounds, SMT
    <3>5. /\ earned \in Int
          /\ (n - i + 1) * Cost \in Int
          /\ (last_check - a) * RefillRate \in Int
      <4> HIDE DEF a
      <4> QED BY <2>0, <3>1, SMT
    <3> DEFINE spent == (n - i + 1) * Cost
               gained == (last_check - a) * RefillRate
               total == (now - a) * RefillRate
    <3>6. spent + Refilled <= Capacity + total
      <4>1. /\ total = earned + gained
            /\ spent + tokens <= Capacity + gained
            /\ Refilled <= tokens + earned
            /\ earned \in Int /\ spent \in Int /\ gained \in Int
            /\ tokens \in Int /\ Refilled \in Int /\ Capacity \in Int
        BY <2>0, <3>2, <3>3, <3>4, <3>5
      <4> HIDE DEF spent, gained, total, earned
      <4> QED BY <4>1, SMT
    <3> QED BY <2>0, <3>1, <3>2, <3>6, SMT
  <2>3. CASE Refuse
    <3>1. Ledger'
      BY <2>2, <2>3 DEF Refuse, Ledger
    <3> QED BY <2>3, <3>1, LawKept DEF Refuse, BurstInv
  <2>4. CASE Admit
    <3> DEFINE log == Append(admitted, now)
    <3>1. /\ admitted' = log
          /\ Len(log) = n + 1
          /\ log[n + 1] = now
          /\ \A i \in 1..n : log[i] = admitted[i]
          /\ last_check' = now /\ now' = now
          /\ tokens' = Refilled - Cost
          /\ tokens' >= 0 /\ Refilled \in Int
          /\ Refilled <= Capacity
      BY <2>0, <2>4, HistoryGrows, RefilledBounds, SMT DEF Admit
    <3> HIDE DEF log
    <3>2. ASSUME NEW i \in 1..(n + 1)
          PROVE  /\ log[i] <= now
                 /\ (n + 1 - i + 1) * Cost + (Refilled - Cost)
                      <= Capacity + (now - log[i]) * RefillRate
      <4>1. CASE i = n + 1
        <5>1. (now - log[i]) * RefillRate = 0 /\ (n + 1 - i + 1) * Cost = Cost
          BY <2>0, <3>1, <4>1, SMT
        <5> QED BY <2>0, <3>1, <4>1, <5>1, SMT
      <4>2. CASE i \in 1..n
        <5>1. (n + 1 - i + 1) * Cost = (n - i + 1) * Cost + Cost
              /\ (n - i + 1) * Cost \in Int
          BY <2>0, <4>2, SMT
        <5>2. (now - log[i]) * RefillRate \in Int /\ log[i] = admitted[i]
          BY <2>0, <3>1, <4>2, SMT
        <5>3. /\ (n - i + 1) * Cost + Refilled
                    <= Capacity + (now - log[i]) * RefillRate
              /\ log[i] <= now
          BY <2>2, <4>2, <5>2
        <5> DEFINE spent == (n - i + 1) * Cost
                   total == (now - log[i]) * RefillRate
        <5> HIDE DEF spent, total
        <5>4. spent + Cost + (Refilled - Cost) <= Capacity + total
          BY <3>1, <5>1, <5>2, <5>3, SMT DEF spent, total
        <5> QED BY <5>1, <5>3, <5>4 DEF spent, total
      <4> QED BY <2>0, <4>1, <4>2, SMT
    <3>3. Ledger'
      BY <3>1, <3>2 DEF Ledger
    <3>4. AdmitsAtMost'
      <4> SUFFICES ASSUME NEW j \in 1..(n + 1), NEW i \in 1..j
                   PROVE  (j - i + 1) * Cost
                            <= Capacity + (log[j] - log[i]) * RefillRate
        BY <3>1 DEF AdmitsAtMost
      <4>1. CASE j = n + 1
        <5>1. i \in 1..(n + 1)
          BY <2>0, <4>1
        <5>2. /\ (n + 1 - i + 1) * Cost \in Int
              /\ (now - log[i]) * RefillRate \in Int
          <6>1. log[i] \in Int
            BY <2>0, <3>1, <5>1, SMT
          <6> QED BY <2>0, <5>1, <6>1, SMT
        <5> DEFINE spent == (n + 1 - i + 1) * Cost
                   total == (now - log[i]) * RefillRate
        <5>3. /\ spent + (Refilled - Cost) <= Capacity + total
              /\ Refilled - Cost >= 0 /\ Refilled - Cost \in Int
              /\ spent \in Int /\ total \in Int
          BY <3>1, <3>2, <5>1, <5>2, SMT
        <5> HIDE DEF spent, total
        <5>4. spent <= Capacity + total
          BY <5>3, SMT
        <5> QED BY <3>1, <4>1, <5>4 DEF spent, total
      <4>2. CASE j \in 1..n
        <5>1. i \in 1..n /\ log[i] = admitted[i] /\ log[j] = admitted[j]
          BY <2>0, <3>1, <4>2, SMT
        <5> QED BY <2>0, <4>2, <5>1 DEF AdmitsAtMost
      <4> QED BY <2>0, <4>1, <4>2, SMT
    <3> QED BY <3>3, <3>4 DEF BurstInv
  <2>5. CASE UNCHANGED vars
    BY <2>5 DEF vars, BurstInv, TypeOK, Ledger, AdmitsAtMost
  <2> QED BY <2>1, <2>3, <2>4, <2>5 DEF Next
<1>3. BurstInv => TypeOK /\ AdmitsAtMost
  BY DEF BurstInv
<1> QED BY <1>1, <1>2, <1>3, TypeCorrect, PTL DEF Spec

-----------------------------------------------------------------------------
\* What the second half needs: the bucket was full after the last call, or
\* since some admission nothing has been clamped away and the ledger is exact.
Exact ==
  \/ tokens = Capacity
  \/ \E i \in 1..Len(admitted) :
       (Len(admitted) - i + 1) * Cost + tokens
         >= Capacity + (last_check - admitted[i]) * RefillRate

\* What the next call would find is exact, too.
LEMMA RefilledExact ==
  ASSUME TypeOK, Exact
  PROVE  \/ Refilled = Capacity
         \/ \E i \in 1..Len(admitted) :
              (Len(admitted) - i + 1) * Cost + Refilled
                >= Capacity + (now - admitted[i]) * RefillRate
<1> DEFINE earned == (now - last_check) * RefillRate
<1>1. /\ Refilled \in 0..Capacity /\ tokens <= Refilled /\ Refilled <= tokens + earned
      /\ Refilled = IF tokens + earned > Capacity THEN Capacity ELSE tokens + earned
  BY RefilledBounds DEF Refilled, Unclamped
<1>2. /\ tokens \in 0..Capacity /\ Capacity \in Nat /\ now \in Nat /\ last_check \in Nat
      /\ RefillRate \in Nat /\ Cost \in Nat
      /\ Len(admitted) \in Nat /\ \A i \in 1..Len(admitted) : admitted[i] \in Nat
  BY BucketAssumption DEF TypeOK
<1>3. earned \in Int
  BY <1>2, SMT
<1>4. CASE tokens = Capacity \/ tokens + earned > Capacity
  <2> HIDE DEF earned
  <2> QED BY <1>1, <1>2, <1>3, <1>4, SMT
<1>5. CASE tokens # Capacity /\ ~(tokens + earned > Capacity)
  <2>1. PICK i \in 1..Len(admitted) :
          (Len(admitted) - i + 1) * Cost + tokens
            >= Capacity + (last_check - admitted[i]) * RefillRate
    BY <1>5 DEF Exact
  <2> DEFINE a == admitted[i]
             spent == (Len(admitted) - i + 1) * Cost
             gained == (last_check - a) * RefillRate
             total == (now - a) * RefillRate
  <2>2. a \in Nat
    BY <1>2
  <2>3. spent \in Int /\ gained \in Int /\ total = earned + gained
    <3> HIDE DEF a
    <3> QED BY <1>2, <2>2, SMT
  <2>4. spent + tokens >= Capacity + gained
    BY <2>1
  <2>5. Refilled = tokens + earned
    BY <1>1, <1>5
  <2>6. spent + Refilled >= Capacity + total
    <3> HIDE DEF spent, gained, total, earned
    <3> QED BY <1>2, <1>3, <2>3, <2>4, <2>5, SMT
  <2> QED BY <2>6
<1> QED BY <1>4, <1>5

\* The balance is exact after every call and however long one waits.
LEMMA BalanceExact == Spec => []Exact
<1>1. Init => Exact
  BY DEF Init, Exact
<1>2. Exact /\ TypeOK /\ [Next]_vars => Exact'
  <2> SUFFICES ASSUME Exact, TypeOK, [Next]_vars PROVE Exact'
    OBVIOUS
  <2> USE BucketAssumption
  <2>1. CASE Tick \/ UNCHANGED vars
    BY <2>1 DEF Tick, vars, Exact
  <2>2. CASE Refuse
    BY <2>2, RefilledExact DEF Refuse, Exact
  <2>3. CASE Admit
    <3> DEFINE n == Len(admitted)
               log == Append(admitted, now)
    <3>1. /\ admitted' = log /\ tokens' = Refilled - Cost /\ last_check' = now
          /\ Len(log) = n + 1 /\ log[n + 1] = now
          /\ \A i \in 1..n : log[i] = admitted[i] /\ admitted[i] \in Nat
          /\ Refilled \in Int /\ n \in Nat /\ now \in Nat
      BY <2>3, HistoryGrows, RefilledBounds DEF Admit, TypeOK
    <3> HIDE DEF log
    <3>2. SUFFICES \E i \in 1..(n + 1) :
                     (n + 1 - i + 1) * Cost + (Refilled - Cost)
                       >= Capacity + (now - log[i]) * RefillRate
      BY <3>1 DEF Exact
    <3>3. CASE Refilled = Capacity
      <4>1. (n + 1 - (n + 1) + 1) * Cost = Cost /\ (now - now) * RefillRate = 0
        BY <3>1, SMT
      <4>2. (n + 1 - (n + 1) + 1) * Cost + (Refilled - Cost)
              >= Capacity + (now - log[n + 1]) * RefillRate
        BY <3>1, <3>3, <4>1, SMT
      <4>3. n + 1 \in 1..(n + 1)
        BY <3>1
      <4> QED BY <4>2, <4>3, Zenon
    <3>4. CASE \E i \in 1..n : (n - i + 1) * Cost + Refilled
                                 >= Capacity + (now - admitted[i]) * RefillRate
      <4>1. PICK i \in 1..n : (n - i + 1) * Cost + Refilled
                                >= Capacity + (now - admitted[i]) * RefillRate
        BY <3>4
      <4>2. (n + 1 - i + 1) * Cost = (n - i + 1) * Cost + Cost
            /\ (n - i + 1) * Cost \in Int
        BY <3>1, SMT
      <4>3. log[i] = admitted[i] /\ (now - log[i]) * RefillRate \in Int
        BY <3>1, SMT
      <4> DEFINE spent == (n - i + 1) * Cost
                 more == (n + 1 - i + 1) * Cost
                 total == (now - log[i]) * RefillRate
      <4>4. more + (Refilled - Cost) >= Capacity + total
        <5>1. spent + Refilled >= Capacity + total /\ more = spent + Cost
              /\ spent \in Int /\ total \in Int
          BY <4>1, <4>2, <4>3
        <5> HIDE DEF spent, more, total
        <5> QED BY <3>1, <5>1, SMT
      <4> QED BY <3>1, <4>4
    <3> QED BY <3>3, <3>4, RefilledExact
  <2> QED BY <2>1, <2>2, <2>3 DEF Next
<1> QED BY <1>1, <1>2, TypeCorrect, PTL DEF Spec

\* The law of the bucket, both halves: no run of admissions gets more than the
\* capacity and the refill of the time it spans, and a call is refused only
\* when one more admission would (main.cpp:46-62).
THEOREM WindowLawHolds == Spec => []WindowLaw
<1>1. TypeOK /\ Exact => RefusesOnlyBeyond
  <2> SUFFICES ASSUME TypeOK, Exact, Refilled < Cost
               PROVE  \E i \in 1..Len(admitted) :
                        (Len(admitted) - i + 2) * Cost
                          > Capacity + (now - admitted[i]) * RefillRate
    BY DEF RefusesOnlyBeyond
  <2> USE BucketAssumption
  <2> DEFINE n == Len(admitted)
  <2>1. /\ n \in Nat /\ now \in Nat /\ \A i \in 1..n : admitted[i] \in Nat
        /\ Refilled \in Int /\ Refilled # Capacity
    BY RefilledBounds DEF TypeOK
  <2>2. PICK i \in 1..n : (n - i + 1) * Cost + Refilled
                            >= Capacity + (now - admitted[i]) * RefillRate
    BY <2>1, RefilledExact
  <2> DEFINE spent == (n - i + 1) * Cost
             more == (n - i + 2) * Cost
             total == (now - admitted[i]) * RefillRate
  <2>3. spent \in Int /\ more = spent + Cost /\ total \in Int
    BY <2>1, SMT
  <2>4. spent + Refilled >= Capacity + total
    BY <2>2
  <2>5. more > Capacity + total
    <3> HIDE DEF spent, more, total
    <3> QED BY <2>1, <2>3, <2>4, SMT
  <2> QED BY <2>5
<1> QED BY <1>1, BurstBound, BalanceExact, PTL DEF WindowLaw

-----------------------------------------------------------------------------
\* The lazy bucket of the code implements the bucket the clock fills.
THEOREM ImplementsBucket == Spec => IdealSpec
<1>1. Init => Ideal!Init
  BY BucketAssumption, SMT DEF Init, Ideal!Init, Refilled, Unclamped
<1>2. TypeOK /\ TypeOK' /\ [Next]_vars => [Ideal!Next]_Ideal!vars
  <2> SUFFICES ASSUME TypeOK, TypeOK', [Next]_vars
               PROVE  Ideal!Next \/ UNCHANGED Ideal!vars
    OBVIOUS
  <2> USE BucketAssumption
  <2> DEFINE earned == (now - last_check) * RefillRate
  <2>1. CASE Tick
    <3>1. (now + 1 - last_check) * RefillRate = earned + RefillRate
          /\ earned \in Int
      BY SMT DEF TypeOK
    <3>2. Unclamped = tokens + earned /\ Unclamped' = tokens + (earned + RefillRate)
      <4>1. /\ Unclamped = tokens + (now - last_check) * RefillRate
            /\ Unclamped' = tokens + (now + 1 - last_check) * RefillRate
        <5>1. Unclamped' = tokens' + (now' - last_check') * RefillRate
          BY DEF Unclamped
        <5>2. now' = now + 1 /\ tokens' = tokens /\ last_check' = last_check
          BY <2>1 DEF Tick
        <5>3. Unclamped' = tokens + (now + 1 - last_check) * RefillRate
          BY <5>1, <5>2, SMT DEF TypeOK
        <5>4. Unclamped = tokens + (now - last_check) * RefillRate
          BY DEF Unclamped
        <5> QED BY <5>3, <5>4
      <4> QED BY <3>1, <4>1, Zenon
    <3>3. tokens \in Int /\ Capacity \in Nat /\ RefillRate \in Nat
      BY DEF TypeOK
    <3> HIDE DEF earned
    <3>4. Refilled' = IF Refilled + RefillRate > Capacity
                        THEN Capacity ELSE Refilled + RefillRate
      BY <3>1, <3>2, <3>3, SMT DEF Refilled
    <3> QED BY <2>1, <3>4 DEF Tick, Ideal!Next, Ideal!Tick
  <2>2. ASSUME last_check' = now, now' = now
        PROVE  Refilled' = tokens'
    <3>1. (now' - last_check') * RefillRate = 0
      BY <2>2, SMT DEF TypeOK
    <3>2. tokens' \in 0..Capacity
      BY DEF TypeOK
    <3> QED BY <3>1, <3>2, SMT DEF Refilled, Unclamped
  <2>3. CASE Admit
    BY <2>2, <2>3 DEF Admit, Ideal!Next, Ideal!Admit
  <2>4. CASE Refuse
    BY <2>2, <2>4 DEF Refuse, Ideal!Next, Ideal!Refuse
  <2>5. CASE UNCHANGED vars
    BY <2>5 DEF vars, Ideal!vars, Refilled, Unclamped
  <2> QED BY <2>1, <2>3, <2>4, <2>5 DEF Next
<1> QED BY <1>1, <1>2, TypeCorrect, PTL DEF Spec, IdealSpec, Ideal!Spec
=============================================================================
