-------------------------- MODULE GeminiClientProofs --------------------------
(***************************************************************************)
(* Proofs about the cost ledger under the retry loop, for every cap, set   *)
(* of estimates and usages, number of attempts and classification of the   *)
(* SDK's exceptions.                                                       *)
(***************************************************************************)
EXTENDS GeminiClient, SequenceTheorems, TLAPS

\* What the loop knows of its own locals
LoopInv ==
    /\ TypeOK
    /\ phase = "next" => attempts < MaxAttempts
    /\ phase = "failed" => error \in Categories

\* A commit keeps the types of the ledger.
LEMMA CommitTypes ==
    ASSUME TypeOK, NEW charge \in Nat, Commit(charge)
    PROVE  /\ spent' \in Nat /\ reserved' \in Nat /\ open' \in Seq(Nat)
           /\ authorized' \in Nat /\ committed' \in Nat
<1>1. Latest \in Nat
  BY DEF Latest, TypeOK
<1>2. open' \in Seq(Nat)
  BY DEF Commit, Release, TypeOK
<1>3. reserved' \in Nat
  BY <1>1 DEF Commit, Release, AtLeastZero, TypeOK
<1>4. spent' \in Nat /\ authorized' \in Nat /\ committed' \in Nat
  BY DEF Commit, TypeOK
<1> QED BY <1>2, <1>3, <1>4

LEMMA LatestType == ASSUME TypeOK PROVE Latest \in Nat
BY DEF Latest, TypeOK

LEMMA MapSdkExceptionType ==
    ASSUME NEW words
    PROVE  MapSdkException(words) \in Categories
BY DEF MapSdkException, Categories, TransientCategories, PermanentCategories

LEMMA LoopStep == LoopInv /\ [Next]_vars => LoopInv'
<1> SUFFICES ASSUME LoopInv, [Next]_vars PROVE LoopInv'
  OBVIOUS
<1> USE ClientConstants DEF LoopInv, billed
<1>1. CASE Ask
  BY <1>1 DEF Ask, End, TypeOK, ledger, NoCause, Categories, PermanentCategories
<1>2. ASSUME NEW e \in Estimates, Attempt(e) PROVE LoopInv'
  <2>1. CASE Fits(e)
    <3>1. e \in Nat /\ attempts' \in 0 .. MaxAttempts
      BY <1>2 DEF Attempt, TypeOK
    <3>2. /\ spent' \in Nat /\ reserved' \in Nat /\ open' \in Seq(Nat)
          /\ authorized' \in Nat /\ committed' \in Nat
      <4>1. Authorize(e) BY <1>2, <2>1 DEF Attempt
      <4>2. open' \in Seq(Nat) BY <3>1, <4>1 DEF Authorize, TypeOK
      <4> QED BY <3>1, <4>1, <4>2 DEF Authorize, TypeOK
    <3>3. /\ phase' = "sent" /\ estimate' = e /\ sends' = sends + 1
          /\ UNCHANGED <<error, answer, queries, transport, billed, escaped, cause>>
      BY <1>2, <2>1 DEF Attempt
    <3> QED BY <3>1, <3>2, <3>3 DEF TypeOK
  <2>2. CASE ~Fits(e)
    BY <1>2, <2>2 DEF Attempt, Authorize, End, TypeOK, ledger, Categories, PermanentCategories
  <2> QED BY <2>1, <2>2
<1>3. ASSUME NEW c \in Causes, NEW u \in Usages, SdkRaises(c, u) PROVE LoopInv'
  BY <1>3, MapSdkExceptionType DEF SdkRaises, Fail, BillAtEstimate, AtLeastZero, TypeOK, ledger
<1>4. ASSUME NEW u \in Usages, NEW wellFormed \in BOOLEAN, Respond(u, wellFormed) PROVE LoopInv'
  BY <1>4 DEF Respond, Fail, BillAtEstimate, AtLeastZero, TypeOK, ledger, Categories,
     PermanentCategories
<1>5. ASSUME NEW u \in Usages, RaiseUnexpected(u) PROVE LoopInv'
  BY <1>5 DEF RaiseUnexpected, End, BillAtEstimate, AtLeastZero, TypeOK, ledger
<1>6. CASE CommitActual
  <2>1. estimate \in Nat BY DEF TypeOK
  <2>2. /\ spent' \in Nat /\ reserved' \in Nat /\ open' \in Seq(Nat)
        /\ authorized' \in Nat /\ committed' \in Nat
    BY <1>6, <2>1, CommitTypes DEF CommitActual
  <2> QED BY <1>6, <2>2 DEF CommitActual, Fail, End, TypeOK, Categories, PermanentCategories
<1>7. CASE Handle
  <2>1. /\ spent' \in Nat /\ reserved' \in Nat /\ open' \in Seq(Nat)
        /\ authorized' \in Nat /\ committed' \in Nat
    BY <1>7, LatestType, CommitTypes DEF Handle, KeepCharge
  <2> QED BY <1>7, <2>1 DEF Handle, AttemptLeft, End, TypeOK, Categories, PermanentCategories
<1>8. CASE UNCHANGED vars
  BY <1>8 DEF vars, ledger, clientVars, billed, TypeOK
<1> QED BY <1>1, <1>2, <1>3, <1>4, <1>5, <1>6, <1>7, <1>8 DEF Next

LEMMA LoopInvariant == Spec => []LoopInv
<1>1. Init => LoopInv
  BY ClientConstants DEF Init, LedgerInit, LoopInv, TypeOK
<1> QED BY <1>1, LoopStep, PTL DEF Spec

\* The ledger and the loop keep their types; in particular no query makes more
\* than MaxAttempts attempts.
THEOREM LedgerTypes == Spec => []TypeOK
<1>1. LoopInv => TypeOK BY DEF LoopInv
<1> QED BY <1>1, LoopInvariant, PTL

-----------------------------------------------------------------------------
(* The hard cap *)

\* Whatever the provider bills, fails or leaks, the run never records more
\* than its hard cap.
THEOREM CapHolds == Spec => []SpentWithinCap
<1>1. Init => SpentWithinCap
  BY HardCapIsNat DEF Init, LedgerInit, SpentWithinCap
<1>2. LoopInv /\ SpentWithinCap /\ [Next]_vars => SpentWithinCap'
  <2> SUFFICES ASSUME LoopInv, SpentWithinCap, [Next]_vars PROVE SpentWithinCap'
    OBVIOUS
  <2> USE DEF SpentWithinCap
  <2>1. ASSUME NEW charge \in Nat, Commit(charge) PROVE SpentWithinCap'
    BY <2>1, HardCapIsNat DEF Commit, Overcharges, LoopInv, TypeOK
  <2>2. CASE CommitActual
    BY <2>1, <2>2 DEF CommitActual, LoopInv, TypeOK
  <2>3. CASE Handle
    BY <2>1, <2>3, LatestType DEF Handle, KeepCharge, LoopInv
  <2>4. CASE UNCHANGED spent
    BY <2>4
  <2> QED
    BY <2>2, <2>3, <2>4 DEF Next, Ask, Attempt, Authorize, SdkRaises, Respond,
       RaiseUnexpected, ledger, vars
<1> QED BY <1>1, <1>2, LoopInvariant, PTL DEF Spec

-----------------------------------------------------------------------------
(* Reservations *)

LEMMA AppendLast ==
    ASSUME NEW q \in Seq(Nat), NEW e \in Nat
    PROVE  /\ Append(q, e) \in Seq(Nat)
           /\ Append(q, e) # <<>>
           /\ Len(Append(q, e)) = Len(q) + 1
           /\ Append(q, e)[Len(Append(q, e))] = e
  OBVIOUS

LEMMA FrontLength ==
    ASSUME NEW q \in Seq(Nat), q # <<>>
    PROVE  Len(SubSeq(q, 1, Len(q) - 1)) = Len(q) - 1
<1>1. PICK n \in Nat : n = Len(q) - 1 BY EmptySeq
<1>2. \A i \in 1 .. n : q[i] \in Nat BY <1>1
<1>3. Len(SubSeq(q, 1, n)) = IF 1 <= n THEN n - 1 + 1 ELSE 0
  BY <1>1, <1>2, SubSeqProperties
<1> QED BY <1>1, <1>3

\* A commit takes at most one reservation off the stack, and charges only what
\* fits.
LEMMA CommitSettles ==
    ASSUME TypeOK, NEW charge \in Nat, Commit(charge)
    PROVE  /\ Len(open') = IF open = <<>> THEN 0 ELSE Len(open) - 1
           /\ spent' = IF spent + charge > HardCap THEN spent ELSE spent + charge
           /\ committed' = IF spent + charge > HardCap THEN committed ELSE committed + 1
           /\ authorized' = authorized
<1>1. Len(open') = IF open = <<>> THEN 0 ELSE Len(open) - 1
  <2>1. open \in Seq(Nat) BY DEF TypeOK
  <2>2. CASE open = <<>> BY <2>2 DEF Commit, Release
  <2>3. CASE open # <<>>
    <3>1. open' = SubSeq(open, 1, Len(open) - 1) BY <2>3 DEF Commit, Release
    <3> QED BY <2>1, <2>3, <3>1, FrontLength
  <2> QED BY <2>2, <2>3
<1> QED BY <1>1 DEF Commit, Overcharges

\* How many reservations each phase holds, at most, beside those that escaped
\* exceptions left; the latest is the attempt's own while it is on its way
SettledInv ==
    /\ LoopInv
    /\ phase \in {"idle", "next"} => Len(open) <= escaped
    /\ phase \in {"sent", "parsed", "failed"} => Len(open) <= escaped + 1
    /\ phase \in {"sent", "parsed"} => open # <<>>
    /\ phase = "sent" => Latest = estimate
    /\ phase = "sent" => estimate <= reserved
    /\ phase = "sent" => spent + reserved <= HardCap
    /\ committed <= authorized
    /\ InFlight => committed < authorized

LEMMA SettledStep == SettledInv /\ [Next]_vars => SettledInv'
<1> SUFFICES ASSUME SettledInv, [Next]_vars PROVE SettledInv'
  OBVIOUS
<1>0. LoopInv' BY LoopStep DEF SettledInv
<1>a. /\ TypeOK
      /\ spent \in Nat /\ reserved \in Nat /\ authorized \in Nat /\ committed \in Nat
      /\ estimate \in Nat /\ escaped \in Nat /\ open \in Seq(Nat) /\ Len(open) \in Nat
  BY DEF SettledInv, LoopInv, TypeOK
<1> USE HardCapIsNat, ClientConstants
<1>1. CASE Ask
  BY <1>0, <1>1, <1>a DEF Ask, End, SettledInv, ledger, InFlight, Latest
<1>2. ASSUME NEW e \in Estimates, Attempt(e) PROVE SettledInv'
  <2>0. e \in Nat /\ Len(open) <= escaped /\ committed <= authorized /\ escaped' = escaped
    BY <1>2 DEF Attempt, SettledInv
  <2>1. CASE Fits(e)
    <3>1. Authorize(e) /\ phase' = "sent" /\ estimate' = e
      BY <1>2, <2>1 DEF Attempt
    <3>2. open' = Append(open, e) /\ reserved' = reserved + e /\ spent' = spent
          /\ authorized' = authorized + 1 /\ committed' = committed
      BY <3>1 DEF Authorize
    <3>3. open' # <<>> /\ Len(open') = Len(open) + 1 /\ open'[Len(open')] = e
      BY <1>a, <2>0, <3>2, AppendLast
    <3>4. Latest' = e BY <3>3 DEF Latest
    <3>5. spent + (reserved + e) <= HardCap BY <1>a, <2>0, <2>1 DEF Fits
    <3>6. (spent + reserved)' <= HardCap BY <3>2, <3>5
    <3>7. e <= reserved' BY <1>a, <2>0, <3>2
    <3>8. Len(open') <= escaped' + 1 BY <1>a, <2>0, <3>3
    <3>9. committed' < authorized' BY <1>a, <2>0, <3>2
    <3>10. committed' <= authorized' BY <1>a, <2>0, <3>2
    <3> QED BY <1>0, <3>1, <3>3, <3>4, <3>6, <3>7, <3>8, <3>9, <3>10 DEF SettledInv
  <2>2. CASE ~Fits(e)
    BY <1>0, <1>2, <1>a, <2>0, <2>2 DEF Attempt, Authorize, SettledInv, ledger, InFlight, End, Latest
  <2> QED BY <2>1, <2>2
<1>3. ASSUME NEW c \in Causes, NEW u \in Usages, SdkRaises(c, u) PROVE SettledInv'
  BY <1>0, <1>3, <1>a DEF SdkRaises, Fail, SettledInv, ledger, InFlight
<1>4. ASSUME NEW u \in Usages, NEW wellFormed \in BOOLEAN, Respond(u, wellFormed) PROVE SettledInv'
  BY <1>0, <1>4, <1>a DEF Respond, Fail, SettledInv, ledger, InFlight
<1>5. ASSUME NEW u \in Usages, RaiseUnexpected(u) PROVE SettledInv'
  BY <1>0, <1>5, <1>a DEF RaiseUnexpected, End, SettledInv, ledger, InFlight
<1>6. CASE CommitActual
  <2>1. Commit(estimate) /\ escaped' = escaped /\ committed < authorized
        /\ Len(open) <= escaped + 1 /\ open # <<>>
    BY <1>6 DEF CommitActual, SettledInv, InFlight
  <2>2. Len(open') = Len(open) - 1 /\ authorized' = authorized
    BY <1>a, <2>1, CommitSettles
  <2>3. Len(open') <= escaped' BY <1>a, <2>1, <2>2
  <2>4. CASE Overcharges(estimate)
    <3>1. phase' = "failed" BY <1>6, <2>4 DEF CommitActual, Fail
    <3>2. committed' = committed BY <1>a, <2>1, <2>4 DEF Commit
    <3>3. Len(open') <= escaped' + 1 BY <1>a, <2>1, <2>2
    <3> QED BY <1>0, <1>a, <2>1, <2>2, <3>1, <3>2, <3>3 DEF SettledInv
  <2>5. CASE ~Overcharges(estimate)
    <3>1. phase' = "idle" BY <1>6, <2>5 DEF CommitActual, End
    <3>2. committed' = committed + 1 BY <1>a, <2>1, <2>5 DEF Commit
    <3> QED BY <1>0, <1>a, <2>1, <2>2, <2>3, <3>1, <3>2 DEF SettledInv, InFlight
  <2> QED BY <2>4, <2>5
<1>7. CASE Handle
  <2>1. Commit(Latest) /\ Latest \in Nat /\ escaped' = escaped /\ committed < authorized
        /\ Len(open) <= escaped + 1 /\ phase' \in {"idle", "next"}
    BY <1>7, <1>a, LatestType DEF Handle, KeepCharge, SettledInv, InFlight, End
  <2>2. /\ Len(open') = IF open = <<>> THEN 0 ELSE Len(open) - 1
        /\ authorized' = authorized
        /\ committed' \in {committed, committed + 1}
    BY <1>a, <2>1, CommitSettles
  <2>3. Len(open') <= escaped' BY <1>a, <2>1, <2>2
  <2>4. committed' <= authorized' BY <1>a, <2>1, <2>2
  <2> QED BY <1>0, <2>1, <2>3, <2>4 DEF SettledInv, InFlight
<1>8. CASE UNCHANGED vars
  BY <1>0, <1>8 DEF vars, ledger, clientVars, SettledInv, InFlight, Latest
<1> QED
  BY <1>1, <1>2, <1>3, <1>4, <1>5, <1>6, <1>7, <1>8 DEF Next

LEMMA SettledInvariant == Spec => []SettledInv
<1>1. Init => SettledInv
  BY HardCapIsNat, ClientConstants DEF Init, LedgerInit, SettledInv, LoopInv, TypeOK, InFlight
<1> QED BY <1>1, SettledStep, PTL DEF Spec

\* Every authorized attempt is settled once: a request is only on its way with
\* its own estimate reserved under the cap, and between queries only escaped
\* exceptions have left reservations.
THEOREM AttemptsAreSettled == Spec => []ReservationsSettled
<1>1. SettledInv => ReservationsSettled
  BY DEF SettledInv, ReservationsSettled, InFlight, LoopInv, TypeOK, cumulative
<1> QED BY <1>1, SettledInvariant, PTL

-----------------------------------------------------------------------------
(* What was billed *)

\* The open reservations add up to the reserved amount: S holds the partial sums
PartialSums(S) ==
    /\ S[0] = 0
    /\ \A i \in 1 .. Len(open) : S[i] = S[i - 1] + open[i]
    /\ S[Len(open)] = reserved

OpenAddsUp == \E S \in [0 .. Len(open) -> Nat] : PartialSums(S)

\* What the ledger shows beside the attempt at hand covers what was billed before
\* it; once settlement is due, the attempt's own reservation covers its part
CoveredInv ==
    /\ SettledInv
    /\ OpenAddsUp
    /\ phase \in {"idle", "next", "failed"} => usage <= spent + reserved + lost
    /\ phase = "sent" => usage + estimate <= spent + reserved + lost
    /\ phase = "parsed" => usage + Latest <= spent + reserved + lost + estimate
    /\ InFlight => spent + reserved <= HardCap

\* Opening a reservation keeps the sum.
LEMMA PushAddsUp ==
    ASSUME TypeOK, OpenAddsUp, NEW e \in Nat,
           open' = Append(open, e), reserved' = reserved + e
    PROVE  OpenAddsUp'
<1>1. open \in Seq(Nat) /\ Len(open) \in Nat /\ reserved \in Nat
  BY DEF TypeOK
<1>2. PICK n \in Nat : n = Len(open)
  BY <1>1
<1>3. PICK S \in [0 .. n -> Nat] : PartialSums(S)
  BY <1>2 DEF OpenAddsUp
<1>4. S[0] = 0 /\ S[n] = reserved /\ \A i \in 1 .. n : S[i] = S[i - 1] + open[i]
  BY <1>2, <1>3 DEF PartialSums
<1>5. PICK m \in Nat : m = n + 1
  OBVIOUS
<1>6. Len(open') = m /\ open'[m] = e /\ \A i \in 1 .. n : open'[i] = open[i]
  BY <1>1, <1>2, <1>5
<1>7. PICK r \in Nat : r = reserved + e
  BY <1>1
<1>8. PICK T : T = [i \in 0 .. m |-> IF i = m THEN r ELSE S[i]]
  OBVIOUS
<1>9. T \in [0 .. m -> Nat]
  BY <1>3, <1>5, <1>8
<1>10. T[0] = 0 /\ T[m] = r /\ \A i \in 0 .. n : T[i] = S[i]
  BY <1>4, <1>5, <1>8
<1>11. ASSUME NEW i \in 1 .. m PROVE T[i] = T[i - 1] + open'[i]
  <2> DEFINE j == i - 1
  <2>1. CASE i = m
    <3>1. j = n /\ n \in 0 .. n BY <1>5, <2>1
    <3>2. T[j] = reserved BY <1>4, <1>10, <3>1
    <3> HIDE DEF j
    <3> QED BY <1>1, <1>6, <1>7, <1>10, <2>1, <3>2 DEF j
  <2>2. CASE i # m
    <3>1. i \in 1 .. n /\ i \in 0 .. n /\ j \in 0 .. n BY <1>5, <2>2
    <3>2. S[i] = S[j] + open[i] BY <1>4, <3>1
    <3>3. T[i] = S[i] /\ T[j] = S[j] /\ open'[i] = open[i] BY <1>6, <1>10, <3>1
    <3> QED BY <3>2, <3>3
  <2> QED BY <2>1, <2>2
<1>12. PartialSums(T)'
  BY <1>6, <1>7, <1>10, <1>11 DEF PartialSums
<1>13. (\E U \in [0 .. Len(open) -> Nat] : PartialSums(U))'
  BY <1>6, <1>9, <1>12
<1> QED BY <1>13 DEF OpenAddsUp

\* Settling one keeps it, and no reservation is larger than the sum.
LEMMA PopAddsUp ==
    ASSUME TypeOK, OpenAddsUp
    PROVE  /\ Latest <= reserved
           /\ Release => OpenAddsUp'
<1>1. open \in Seq(Nat) /\ Len(open) \in Nat /\ reserved \in Nat
  BY DEF TypeOK
<1>2. PICK n \in Nat : n = Len(open)
  BY <1>1
<1>3. PICK S \in [0 .. n -> Nat] : PartialSums(S)
  BY <1>2 DEF OpenAddsUp
<1>4. S[0] = 0 /\ S[n] = reserved /\ \A i \in 1 .. n : S[i] = S[i - 1] + open[i]
  BY <1>2, <1>3 DEF PartialSums
<1>5. CASE open = <<>>
  <2>1. Latest = 0 /\ Latest <= reserved BY <1>1, <1>5 DEF Latest
  <2>2. Release => open' = open /\ reserved' = reserved
    BY <1>1, <1>5, <2>1 DEF Release, AtLeastZero
  <2>3. ASSUME open' = open, reserved' = reserved PROVE OpenAddsUp'
    BY <2>3 DEF OpenAddsUp, PartialSums
  <2> QED BY <2>1, <2>2, <2>3
<1>6. CASE open # <<>>
  <2>1. n # 0 BY <1>1, <1>2, <1>6, EmptySeq
  <2>2. PICK k \in Nat : k = n - 1 BY <2>1
  <2>3. n \in 1 .. n /\ k \in 0 .. n BY <2>1, <2>2
  <2>4. Latest = open[n] /\ Latest \in Nat
    BY <1>1, <1>2, <1>6, <2>3 DEF Latest
  <2>5. S[n] = S[k] + open[n] /\ S[k] \in Nat
    BY <1>3, <1>4, <2>2, <2>3
  <2>6. Latest <= reserved /\ S[k] = reserved - Latest
    BY <1>1, <1>4, <2>4, <2>5
  <2>7. ASSUME Release PROVE OpenAddsUp'
    <3>1. open' = SubSeq(open, 1, k) /\ reserved' = reserved - Latest
      BY <1>1, <1>2, <1>6, <2>2, <2>4, <2>6, <2>7 DEF Release, AtLeastZero
    <3>2. Len(open') = k
      BY <1>1, <1>2, <1>6, <2>2, <3>1, FrontLength
    <3>3. \A i \in 1 .. k : open[i] \in Nat
      BY <1>1, <1>2, <2>2
    <3>4. \A i \in 1 .. k : open'[i] = open[i]
      BY <3>1, <3>3, SubSeqProperties
    <3>5. PICK T : T = [i \in 0 .. k |-> S[i]]
      OBVIOUS
    <3>6. \A i \in 0 .. k : i \in 0 .. n BY <2>2
    <3>7. T \in [0 .. k -> Nat] BY <1>3, <3>5, <3>6
    <3>8. T[0] = 0 /\ T[k] = reserved' BY <1>4, <2>6, <3>1, <3>5
    <3>9. ASSUME NEW i \in 1 .. k PROVE T[i] = T[i - 1] + open'[i]
      <4> DEFINE j == i - 1
      <4>1. i \in 1 .. n /\ i \in 0 .. k /\ j \in 0 .. k BY <2>2
      <4>2. S[i] = S[j] + open[i] BY <1>4, <4>1
      <4>3. T[i] = S[i] /\ T[j] = S[j] /\ open'[i] = open[i] BY <3>4, <3>5, <4>1
      <4> QED BY <4>2, <4>3
    <3>10. PartialSums(T)'
      BY <3>2, <3>8, <3>9 DEF PartialSums
    <3>11. (\E U \in [0 .. Len(open) -> Nat] : PartialSums(U))'
      BY <3>2, <3>7, <3>10
    <3> QED BY <3>11 DEF OpenAddsUp
  <2> QED BY <2>6, <2>7
<1> QED BY <1>5, <1>6

\* A settlement moves the latest reservation; the charge is spent unless the cap
\* refuses it.
LEMMA CommitMoves ==
    ASSUME TypeOK, OpenAddsUp, NEW charge \in Nat, Commit(charge)
    PROVE  /\ OpenAddsUp'
           /\ Latest <= reserved
           /\ reserved' = reserved - Latest
           /\ Overcharges(charge) => spent' = spent
           /\ ~Overcharges(charge) => spent' = spent + charge
<1>1. Latest <= reserved /\ OpenAddsUp'
  BY PopAddsUp DEF Commit
<1>2. Latest \in Nat /\ reserved \in Nat
  BY LatestType DEF TypeOK
<1> QED BY <1>1, <1>2 DEF Commit, Release, AtLeastZero

LEMMA CoveredStep == CoveredInv /\ [Next]_vars => CoveredInv'
<1> SUFFICES ASSUME CoveredInv, [Next]_vars PROVE CoveredInv'
  OBVIOUS
<1>0. SettledInv' BY SettledStep DEF CoveredInv
<1>a. /\ TypeOK
      /\ spent \in Nat /\ reserved \in Nat /\ usage \in Nat /\ lost \in Nat
      /\ estimate \in Nat /\ Latest \in Nat
  BY LatestType DEF CoveredInv, SettledInv, LoopInv, TypeOK
<1>b. OpenAddsUp
  BY DEF CoveredInv
<1>c. ASSUME open' = open, reserved' = reserved PROVE OpenAddsUp' /\ Latest' = Latest
  BY <1>b, <1>c DEF OpenAddsUp, PartialSums, Latest
<1> USE HardCapIsNat, ClientConstants
<1>1. CASE Ask
  <2>1. ledger' = ledger /\ usage' = usage /\ lost' = lost /\ phase = "idle"
        /\ phase' \in {"idle", "next"}
    BY <1>1 DEF Ask, End, billed
  <2> QED BY <1>0, <1>b, <1>c, <2>1 DEF CoveredInv, ledger, InFlight
<1>2. ASSUME NEW e \in Estimates, Attempt(e) PROVE CoveredInv'
  <2>0. usage' = usage /\ lost' = lost /\ phase = "next" /\ e \in Nat
        /\ usage <= spent + reserved + lost
    BY <1>2 DEF Attempt, billed, CoveredInv
  <2>1. CASE Fits(e)
    <3>1. /\ phase' = "sent" /\ estimate' = e
          /\ open' = Append(open, e) /\ reserved' = reserved + e /\ spent' = spent
      BY <1>2, <2>1 DEF Attempt, Authorize
    <3>2. OpenAddsUp' BY <1>a, <1>b, <2>0, <3>1, PushAddsUp
    <3>3. spent + (reserved + e) <= HardCap BY <1>a, <2>0, <2>1 DEF Fits
    <3>4. /\ usage' + estimate' <= spent' + reserved' + lost'
          /\ spent' + reserved' <= HardCap
      BY <1>a, <2>0, <3>1, <3>3
    <3> QED BY <1>0, <1>b, <2>0, <3>1, <3>2, <3>4 DEF CoveredInv
  <2>2. CASE ~Fits(e)
    <3>1. ledger' = ledger /\ phase' = "idle"
      BY <1>2, <2>2 DEF Attempt, Authorize, End
    <3> QED BY <1>0, <1>b, <1>c, <2>0, <3>1 DEF CoveredInv, ledger, InFlight
  <2> QED BY <2>1, <2>2
<1>3. ASSUME NEW u \in Usages, phase = "sent", ledger' = ledger, BillAtEstimate(u),
             phase' \in {"failed", "idle"}
      PROVE  CoveredInv'
  \* an SDK error, a rejected text or an escaped exception
  <2>1. /\ usage + estimate <= spent + reserved + lost /\ spent + reserved <= HardCap
        /\ u \in Nat
    BY <1>3 DEF CoveredInv, InFlight
  <2>2. /\ spent' = spent /\ reserved' = reserved /\ open' = open
        /\ usage' = usage + u
        /\ lost' = lost + (IF u - estimate < 0 THEN 0 ELSE u - estimate)
    BY <1>3 DEF BillAtEstimate, AtLeastZero, ledger
  <2>3. usage' <= spent' + reserved' + lost' /\ spent' + reserved' <= HardCap
    BY <1>a, <2>1, <2>2
  <2> QED BY <1>0, <1>3, <1>c, <2>2, <2>3 DEF CoveredInv
<1>4. ASSUME NEW u \in Usages, NEW wellFormed \in BOOLEAN, Respond(u, wellFormed) PROVE CoveredInv'
  <2>1. CASE wellFormed
    <3>1. /\ Latest = estimate /\ usage + estimate <= spent + reserved + lost
          /\ spent + reserved <= HardCap /\ u \in Nat
      BY <1>4 DEF Respond, CoveredInv, SettledInv, InFlight
    <3>2. /\ spent' = spent /\ reserved' = reserved /\ open' = open
          /\ usage' = usage + u /\ lost' = lost /\ estimate' = u /\ phase' = "parsed"
      BY <1>4, <2>1 DEF Respond, ledger
    <3>3. /\ usage' + Latest <= spent' + reserved' + lost' + estimate'
          /\ spent' + reserved' <= HardCap
      BY <1>a, <3>1, <3>2
    <3> QED BY <1>0, <1>c, <3>2, <3>3 DEF CoveredInv
  <2>2. CASE ~wellFormed
    BY <1>3, <1>4, <2>2 DEF Respond, Fail
  <2> QED BY <2>1, <2>2
<1>5. ASSUME NEW u \in Usages, RaiseUnexpected(u) PROVE CoveredInv'
  BY <1>3, <1>5 DEF RaiseUnexpected, End
<1>6. ASSUME NEW c \in Causes, NEW u \in Usages, SdkRaises(c, u) PROVE CoveredInv'
  BY <1>3, <1>6 DEF SdkRaises, Fail
<1>7. CASE CommitActual
  <2>1. /\ usage + Latest <= spent + reserved + lost + estimate
        /\ spent + reserved <= HardCap /\ usage' = usage
    BY <1>7 DEF CommitActual, CoveredInv, InFlight
  <2>2. /\ OpenAddsUp' /\ Latest <= reserved /\ reserved' = reserved - Latest
        /\ Overcharges(estimate) => spent' = spent
        /\ ~Overcharges(estimate) => spent' = spent + estimate
    BY <1>7, <1>a, <1>b, CommitMoves DEF CommitActual
  <2>3. CASE Overcharges(estimate)
    <3>1. phase' = "failed" /\ lost' = lost + estimate
      BY <1>7, <2>3 DEF CommitActual, Fail
    <3>2. /\ usage' <= spent' + reserved' + lost' /\ spent' + reserved' <= HardCap
      BY <1>a, <2>1, <2>2, <2>3, <3>1
    <3> QED BY <1>0, <2>2, <3>1, <3>2 DEF CoveredInv
  <2>4. CASE ~Overcharges(estimate)
    <3>1. phase' = "idle" /\ lost' = lost
      BY <1>7, <2>4 DEF CommitActual, End
    <3>2. usage' <= spent' + reserved' + lost'
      BY <1>a, <2>1, <2>2, <2>4, <3>1
    <3> QED BY <1>0, <2>2, <3>1, <3>2 DEF CoveredInv, InFlight
  <2> QED BY <2>3, <2>4
<1>8. CASE Handle
  <2>1. /\ usage <= spent + reserved + lost /\ spent + reserved <= HardCap
        /\ usage' = usage /\ lost' = lost
    BY <1>8 DEF Handle, CoveredInv, InFlight, billed
  <2>2. /\ OpenAddsUp' /\ Latest <= reserved /\ reserved' = reserved - Latest
        /\ ~Overcharges(Latest) => spent' = spent + Latest
    BY <1>8, <1>a, <1>b, CommitMoves DEF Handle, KeepCharge
  <2>3. ~Overcharges(Latest)
    BY <1>a, <2>1, <2>2 DEF Overcharges
  <2>4. usage' <= spent' + reserved' + lost'
    BY <1>a, <2>1, <2>2, <2>3
  <2>5. phase' \in {"idle", "next"} BY <1>8 DEF Handle, End
  <2> QED BY <1>0, <2>2, <2>4, <2>5 DEF CoveredInv, InFlight
<1>9. CASE UNCHANGED vars
  <2>1. /\ ledger' = ledger /\ usage' = usage /\ lost' = lost /\ phase' = phase
        /\ estimate' = estimate
    BY <1>9 DEF vars, clientVars, billed
  <2> QED BY <1>0, <1>b, <1>c, <2>1 DEF CoveredInv, ledger, InFlight
<1> QED
  BY <1>1, <1>2, <1>4, <1>5, <1>6, <1>7, <1>8, <1>9 DEF Next

\* Whatever leaks, fails or overruns, in any run: what the provider billed is
\* spent or reserved, but for the excess over an estimate and the charge refused
\* at the cap.  The latest reservation of an attempt that failed at the cap may be
\* another attempt's; it still fits (OpenAddsUp), so the handler never fails.
THEOREM BillsAreCovered == Spec => []UsageCovered
<1>1. Init => CoveredInv
  <2> SUFFICES ASSUME Init PROVE CoveredInv
    OBVIOUS
  <2>1. SettledInv
    BY HardCapIsNat, ClientConstants DEF Init, LedgerInit, SettledInv, LoopInv, TypeOK, InFlight
  <2>2. open = <<>> /\ reserved = 0 /\ Len(open) = 0
    BY DEF Init, LedgerInit
  <2> DEFINE S == [i \in 0 .. 0 |-> 0]
  <2>3. S \in [0 .. 0 -> Nat] /\ S[0] = 0 OBVIOUS
  <2>4. \A i \in 1 .. 0 : S[i] = S[i - 1] + open[i] OBVIOUS
  <2> HIDE DEF S
  <2>5. OpenAddsUp
    BY <2>2, <2>3, <2>4 DEF OpenAddsUp, PartialSums
  <2> QED BY <2>1, <2>5 DEF Init, LedgerInit, CoveredInv, InFlight
<1>2. CoveredInv => UsageCovered
  <2> SUFFICES ASSUME CoveredInv, phase # "parsed" PROVE usage <= cumulative + lost
    BY DEF UsageCovered
  <2>1. /\ spent \in Nat /\ reserved \in Nat /\ usage \in Nat /\ lost \in Nat /\ estimate \in Nat
        /\ phase \in {"idle", "next", "sent", "failed"}
    BY DEF CoveredInv, SettledInv, LoopInv, TypeOK
  <2>2. usage <= spent + reserved + lost
    BY <2>1 DEF CoveredInv
  <2> QED BY <2>2 DEF cumulative
<1> QED BY <1>1, <1>2, CoveredStep, PTL DEF Spec

-----------------------------------------------------------------------------
(* Retries *)

\* The order of the tests makes a message that names a permanent error permanent.
LEMMA RetryableMessages ==
    ASSUME NEW words, Retryable(MapSdkException(words))
    PROVE  SaysTransient(words) /\ ~SaysPermanent(words)
<1> DEFINE Says(set) == Mentions(words, set)
<1>1. ASSUME Says({"401", "unauthor", "api key"}) PROVE FALSE
  BY <1>1 DEF MapSdkException, Retryable, TransientCategories
<1>2. ASSUME ~Says({"401", "unauthor", "api key"}), Says({"403", "permission"}) PROVE FALSE
  BY <1>2 DEF MapSdkException, Retryable, TransientCategories
<1>3. ASSUME ~Says({"401", "unauthor", "api key"}), ~Says({"403", "permission"}),
             Says({"404", "not found"}) \/ {"model", "not"} \subseteq words
      PROVE  FALSE
  BY <1>3 DEF MapSdkException, Retryable, TransientCategories
<1>4. ~SaysPermanent(words)
  BY <1>1, <1>2, <1>3 DEF SaysPermanent, Mentions
<1>5. Says({"429", "rate"}) \/ Says({"timeout", "timed out"}) \/ Says({"500", "502", "503", "504"})
  <2> SUFFICES ASSUME ~Says({"429", "rate"}), ~Says({"timeout", "timed out"}),
                      ~Says({"500", "502", "503", "504"})
      PROVE  FALSE
    OBVIOUS
  <2>1. MapSdkException(words) \in PermanentCategories
    BY DEF MapSdkException, PermanentCategories
  <2> QED BY <2>1 DEF Retryable, TransientCategories, PermanentCategories
<1> QED BY <1>4, <1>5 DEF SaysTransient, Mentions

\* Whatever makes the loop go round was the SDK's last exception
ReadsTransient == SaysTransient(cause.words) /\ ~SaysPermanent(cause.words)

RetryInv ==
    /\ phase = "next" /\ attempts > 0 => ReadsTransient
    /\ phase = "failed" /\ Retryable(error) => ReadsTransient

LEMMA RetryStep == LoopInv /\ RetryInv /\ [Next]_vars => RetryInv'
<1> SUFFICES ASSUME LoopInv, RetryInv, [Next]_vars PROVE RetryInv'
  OBVIOUS
<1> USE DEF RetryInv, ReadsTransient
<1>1. CASE Ask
  BY <1>1 DEF Ask, End
<1>2. ASSUME NEW e \in Estimates, Attempt(e) PROVE RetryInv'
  BY <1>2 DEF Attempt, End
<1>3. ASSUME NEW c \in Causes, NEW u \in Usages, SdkRaises(c, u) PROVE RetryInv'
  <2>1. phase' = "failed" /\ error' = MapSdkException(c.words) /\ cause' = c
    BY <1>3 DEF SdkRaises, Fail
  <2>2. Retryable(MapSdkException(c.words)) => SaysTransient(c.words) /\ ~SaysPermanent(c.words)
    BY RetryableMessages
  <2> QED BY <2>1, <2>2 DEF Retryable
<1>4. ASSUME NEW u \in Usages, NEW wellFormed \in BOOLEAN, Respond(u, wellFormed) PROVE RetryInv'
  BY <1>4 DEF Respond, Fail, Retryable, TransientCategories
<1>5. ASSUME NEW u \in Usages, RaiseUnexpected(u) PROVE RetryInv'
  BY <1>5 DEF RaiseUnexpected, End
<1>6. CASE CommitActual
  BY <1>6 DEF CommitActual, Fail, End, Retryable, TransientCategories
<1>7. CASE Handle
  BY <1>7 DEF Handle, End
<1>8. CASE UNCHANGED vars
  BY <1>8 DEF vars, clientVars, Retryable
<1> QED BY <1>1, <1>2, <1>3, <1>4, <1>5, <1>6, <1>7, <1>8 DEF Next

\* Whatever messages the SDK's exceptions carry: a query sends again only if its
\* last attempt ended in one that reads as transient and as no permanent error,
\* and at most max_attempts times.
THEOREM RetriesAreTransient == Spec => RetriesReadTransient
<1> DEFINE Again == sends' > sends =>
                        /\ attempts' <= MaxAttempts
                        /\ attempts' > 1 =>
                               SaysTransient(cause.words) /\ ~SaysPermanent(cause.words)
<1>1. Init => RetryInv
  BY DEF Init, RetryInv
<1>2. ASSUME LoopInv, RetryInv, [Next]_vars
      PROVE  Again
  <2>1. CASE \E e \in Estimates : Attempt(e)
    BY <1>2, <2>1, ClientConstants DEF Attempt, LoopInv, TypeOK, RetryInv, ReadsTransient
  <2>2. CASE UNCHANGED sends
    BY <1>2, <2>2 DEF LoopInv, TypeOK
  <2> QED
    BY <1>2, <2>1, <2>2 DEF Next, Ask, SdkRaises, Respond, RaiseUnexpected, CommitActual, Handle,
       vars, clientVars
<1>3. LoopInv /\ RetryInv /\ [Next]_vars => [Again]_vars
  BY <1>2
<1> QED BY <1>1, <1>3, RetryStep, LoopInvariant, PTL DEF Spec, RetriesReadTransient

-----------------------------------------------------------------------------
(* Progress *)

\* How many steps a query has left at most: four for each attempt to come, and
\* those of the attempt under way
StepsLeft ==
    4 * (MaxAttempts - attempts) +
        (CASE phase = "sent" -> 3 [] phase = "parsed" -> 2 [] phase = "failed" -> 1
           [] phase = "next" -> 0 [] phase = "idle" -> 0)

\* What a step does to the steps left
GoesForward ==
    IF phase = "idle"
    THEN StepsLeft' = 4 * MaxAttempts
    ELSE StepsLeft \in Nat \ {0} /\ (phase' # "idle" => StepsLeft' < StepsLeft)

\* The loop goes round only where an attempt is left (LoopInv).
LEMMA QueryStep == ASSUME LoopInv, Next PROVE GoesForward
<1> USE ClientConstants DEF StepsLeft, GoesForward
<1>0. /\ attempts \in 0 .. MaxAttempts
      /\ phase \in {"idle", "next", "sent", "parsed", "failed"}
      /\ phase = "next" => attempts < MaxAttempts
  BY DEF LoopInv, TypeOK
<1>1. phase # "idle" => StepsLeft \in Nat \ {0}
  BY <1>0
<1>2. ASSUME NEW e \in Estimates, Attempt(e) PROVE GoesForward
  BY <1>0, <1>1, <1>2 DEF Attempt, End
<1>3. ASSUME NEW c \in Causes, NEW u \in Usages, SdkRaises(c, u) PROVE GoesForward
  BY <1>0, <1>1, <1>3 DEF SdkRaises, Fail
<1>4. ASSUME NEW u \in Usages, NEW wellFormed \in BOOLEAN, Respond(u, wellFormed)
      PROVE  GoesForward
  BY <1>0, <1>1, <1>4 DEF Respond, Fail
<1>5. ASSUME NEW u \in Usages, RaiseUnexpected(u) PROVE GoesForward
  BY <1>0, <1>1, <1>5 DEF RaiseUnexpected, End
<1>6. CASE CommitActual BY <1>0, <1>1, <1>6 DEF CommitActual, Fail, End
<1>7. CASE Handle BY <1>0, <1>1, <1>7 DEF Handle, End
<1>8. CASE Ask BY <1>0, <1>8 DEF Ask, End
<1> QED BY <1>2, <1>3, <1>4, <1>5, <1>6, <1>7, <1>8 DEF Next

\* Whatever the provider answers or raises, a query has 4 * MaxAttempts steps when it
\* is asked and fewer after each of its steps: it is over after that many at most.
THEOREM QueriesGoForward == Spec => [][GoesForward]_vars
<1>1. LoopInv /\ [Next]_vars => [GoesForward]_vars
  BY QueryStep
<1> QED BY <1>1, LoopInvariant, PTL DEF Spec
==============================================================================
