------------------------- MODULE ReplicasPutterProofs -------------------------
(***************************************************************************)
(* Proofs about putter.Put, for every redundancy level, replica count and  *)
(* build semantics of the loop variable: the model keeps its types, and no *)
(* replica goroutine ever blocks sending on errc.                          *)
(***************************************************************************)
EXTENDS ReplicasPutter, FiniteSetTheorems, SequenceTheorems, TLAPS

\* The replica goroutines that have sent their error, for the goroutine
\* states p.
DoneOf(p) == {g \in Goroutines : p[g] = "done"}

(***************************************************************************)
(* The inductive invariant.  SendNeverBlocks needs a count: every error    *)
(* in errc, or already drained, comes from a goroutine that is done, and   *)
(* the goroutines started are exactly 1..spawned, at most the replica      *)
(* count.  A goroutine about to send is started and not done, so fewer     *)
(* than spawned are done and errc has room.  The same count gives the      *)
(* WaitGroup counter, which keeps it a natural number.  The conjuncts on   *)
(* gid and loopVar keep the stored addresses real replica addresses.       *)
(***************************************************************************)
Started ==
  /\ spawned <= ReplicaCount[level]
  /\ loopVar = spawned
  /\ \A g \in Goroutines : gpc[g] # "none" <=> g <= spawned
  /\ \A g \in Goroutines : gpc[g] \in {"put", "send", "done"} => gid[g] \in 1..MaxReplicas
  /\ \A g \in Goroutines : LoopVarPerIteration /\ gpc[g] = "sign" => gid[g] = g

Count ==
  /\ Len(errc) + Len(errs) = Cardinality(DoneOf(gpc))
  /\ wg + Cardinality(DoneOf(gpc)) = spawned

IInv == TypeOK /\ Started /\ Count

USE LevelsAssumption, CountAssumption, LoopVarAssumption

\* A part of 1..n is finite, has at most n elements, and fewer when it
\* misses one.
LEMMA IntervalSubset ==
  ASSUME NEW n \in Nat, NEW S \in SUBSET (1..n)
  PROVE  /\ IsFiniteSet(S)
         /\ Cardinality(S) \in 0..n
         /\ \A x \in (1..n) \ S : Cardinality(S) < n
<1>1. IsFiniteSet(1..n) /\ Cardinality(1..n) = n
  <2>0. 1 \in Int /\ n \in Int
    OBVIOUS
  <2>1. IsFiniteSet(1..n) /\ Cardinality(1..n) = IF 1 > n THEN 0 ELSE n - 1 + 1
    BY <2>0, FS_Interval, Zenon
  <2>2. (IF 1 > n THEN 0 ELSE n - 1 + 1) = n
    OBVIOUS
  <2>3. QED
    BY <2>1, <2>2
<1>2. IsFiniteSet(S) /\ Cardinality(S) <= n /\ (Cardinality(S) = n => S = 1..n)
  BY <1>1, FS_Subset, ZenonT(30)
<1>3. Cardinality(S) \in Nat
  BY <1>2, FS_CardinalityType
<1>4. QED
  BY <1>2, <1>3

\* The done goroutines are finite and count at most the started goroutines.
LEMMA DoneCount ==
  ASSUME IInv
  PROVE  /\ IsFiniteSet(DoneOf(gpc))
         /\ DoneOf(gpc) \subseteq 1..spawned
         /\ Cardinality(DoneOf(gpc)) \in 0..spawned
         /\ \A g \in Goroutines : gpc[g] \in {"sign", "put", "send"} =>
                                  Cardinality(DoneOf(gpc)) < spawned
<1>1. DoneOf(gpc) \subseteq 1..spawned /\ spawned \in Nat
  BY DEF IInv, TypeOK, Started, DoneOf, Goroutines
<1>2. \A g \in Goroutines : gpc[g] \in {"sign", "put", "send"} =>
                            g \in (1..spawned) \ DoneOf(gpc)
  BY DEF IInv, TypeOK, Started, DoneOf, Goroutines
<1>3. QED
  BY <1>1, <1>2, IntervalSubset

LEMMA InitIInv == Init => IInv
<1> SUFFICES ASSUME Init PROVE IInv
  OBVIOUS
<1>1. DoneOf(gpc) = {}
  BY DEF Init, DoneOf
<1>2. Cardinality(DoneOf(gpc)) = 0
  BY <1>1, FS_EmptySet
<1>3. errc \in Seq(Errors) /\ errs \in Seq(Errors)
  BY DEF Init
<1>4. gpc \in [Goroutines -> {"none", "sign", "put", "send", "done"}]
      /\ gid \in [Goroutines -> 0..MaxReplicas] /\ gerr \in [Goroutines -> Errors]
  BY DEF Init, Errors
<1>5. TypeOK
  BY <1>3, <1>4 DEF Init, TypeOK
<1>6. Started
  BY DEF Init, Started, Goroutines
<1>7. Count
  BY <1>2 DEF Init, Count
<1>8. QED
  BY <1>5, <1>6, <1>7 DEF IInv

\* The WaitGroup half of the count in a step, from the arithmetic alone.
LEMMA WgStep ==
  ASSUME NEW d \in {0, 1},
         Cardinality(DoneOf(gpc')) = Cardinality(DoneOf(gpc)) + d,
         wg' \in Int, spawned' \in Int,
         wg' + d = wg + (spawned' - spawned),
         Cardinality(DoneOf(gpc)) \in Nat, Cardinality(DoneOf(gpc')) \in Nat,
         wg \in Int, spawned \in Int, wg + Cardinality(DoneOf(gpc)) = spawned
  PROVE  wg' + Cardinality(DoneOf(gpc')) = spawned'
OBVIOUS

\* A step that makes d goroutines done, moves d errors into errc, and
\* changes wg by the change of spawned less d keeps the count.
LEMMA CountStep ==
  ASSUME IInv, NEW d \in {0, 1},
         Cardinality(DoneOf(gpc')) = Cardinality(DoneOf(gpc)) + d,
         Len(errc') + Len(errs') = Len(errc) + Len(errs) + d,
         errc' \in Seq(Errors), errs' \in Seq(Errors),
         wg' \in Int, spawned' \in Int,
         wg' + d = wg + (spawned' - spawned)
  PROVE  Count'
<1>1. Cardinality(DoneOf(gpc)) \in Nat
  BY DoneCount
<1>2. errc \in Seq(Errors) /\ errs \in Seq(Errors) /\ wg \in Nat /\ spawned \in 0..MaxReplicas
  BY DEF IInv, TypeOK
<1>3. Len(errc) \in Nat /\ Len(errs) \in Nat /\ Len(errc') \in Nat /\ Len(errs') \in Nat
  BY <1>2, LenProperties
<1>8. Cardinality(DoneOf(gpc')) \in Nat
  BY <1>1, SMTT(30)
<1>4. Len(errc) + Len(errs) = Cardinality(DoneOf(gpc)) /\ wg + Cardinality(DoneOf(gpc)) = spawned
  BY DEF IInv, Count
<1>9. wg \in Int /\ spawned \in Int
  BY <1>2
<1>5. Len(errc') + Len(errs') = Cardinality(DoneOf(gpc'))
  BY <1>1, <1>3, <1>4, <1>8
<1>11. wg + Cardinality(DoneOf(gpc)) = spawned
  BY <1>4
<1>6. wg' + Cardinality(DoneOf(gpc')) = spawned'
  BY <1>1, <1>8, <1>9, <1>11, WgStep, Zenon
<1>7. Len(errc') + Len(errs') = Cardinality(DoneOf(gpc'))
      /\ wg' + Cardinality(DoneOf(gpc')) = spawned'
  BY <1>5, <1>6
<1>10. QED
  BY <1>7 DEF Count

\* The steps that leave the done goroutines, errc, errs, wg and spawned
\* alone keep the count.
LEMMA SameDone ==
  ASSUME IInv, DoneOf(gpc') = DoneOf(gpc), UNCHANGED << errc, errs, wg, spawned >>
  PROVE  Count'
<1>2. Cardinality(DoneOf(gpc')) = Cardinality(DoneOf(gpc)) + 0
  <2>1. Cardinality(DoneOf(gpc)) \in Nat
    BY DoneCount
  <2>2. QED
    BY <2>1
<1>3. wg \in Int /\ spawned \in Int /\ errc' \in Seq(Errors) /\ errs' \in Seq(Errors)
  BY DEF IInv, TypeOK
<1>4. QED
  BY <1>2, <1>3, CountStep

\* The steps that leave every goroutine's state, and errc and errs, alone
\* keep the count.
LEMMA DoneUnchanged ==
  ASSUME IInv, UNCHANGED << gpc, errc, errs, wg, spawned >>
  PROVE  Count'
<1>1. DoneOf(gpc') = DoneOf(gpc)
  OBVIOUS
<1>2. QED
  BY <1>1, SameDone

\* The steps of the caller that leave the goroutines alone.
LEMMA CallerStep ==
  ASSUME IInv, UNCHANGED << level, loopVar, spawned, goVars, wg, stored >>,
         errc' \in Seq(Errors), errs' \in Seq(Errors),
         mpc' \in {"start", "loop", "wait", "drain", "returned"},
         closed' \in BOOLEAN, result' \in {"none", "nil", "err"}, Count'
  PROVE  IInv'
<1>1. TypeOK'
  BY DEF IInv, TypeOK, goVars
<1>2. Started'
  BY DEF IInv, Started, goVars
<1>3. QED
  BY <1>1, <1>2 DEF IInv

LEMMA NextIInv == IInv /\ [Next]_vars => IInv'
<1> SUFFICES ASSUME IInv, [Next]_vars PROVE IInv'
  OBVIOUS
<1>0. TypeOK /\ Started /\ Count
  BY DEF IInv
<1>1. CASE Start
  BY <1>0, <1>1, DoneUnchanged, CallerStep DEF Start, goVars, TypeOK
<1>2. CASE Receive
  <2> DEFINE g == spawned + 1
  <2>1. spawned < ReplicaCount[level] /\ g \in Goroutines /\ g <= MaxReplicas
    <3>1. ReplicaCount[level] \in 0..MaxReplicas
      BY <1>0 DEF TypeOK
    <3>2. QED
      BY <1>0, <1>2, <3>1 DEF Receive, ReplicatorSends, TypeOK, Goroutines
  <2>2. DoneOf(gpc') = DoneOf(gpc)
    BY <1>0, <1>2, <2>1 DEF Receive, DoneOf, Started, TypeOK
  <2>3. TypeOK'
    BY <1>0, <1>2, <2>1 DEF Receive, TypeOK
  <2>4. Started'
    BY <1>0, <1>2, <2>1, SMTT(30) DEF Receive, Started, TypeOK, Goroutines
  <2>5. Count'
    <3>1. Cardinality(DoneOf(gpc)) \in Nat /\ wg \in Nat /\ spawned \in Nat
      BY <1>0, DoneCount DEF TypeOK
    <3>2. Cardinality(DoneOf(gpc')) = Cardinality(DoneOf(gpc)) + 0
      BY <2>2, <3>1
    <3>3. Len(errc') + Len(errs') = Len(errc) + Len(errs) + 0
      BY <1>0, <1>2 DEF Receive, TypeOK
    <3>4. wg' \in Int /\ spawned' \in Int /\ wg' + 0 = wg + (spawned' - spawned)
          /\ errc' \in Seq(Errors) /\ errs' \in Seq(Errors)
      BY <1>0, <1>2, <3>1 DEF Receive, TypeOK
    <3>5. QED
      BY <3>2, <3>3, <3>4, CountStep
  <2>6. QED
    BY <2>3, <2>4, <2>5 DEF IInv
<1>3. CASE LoopEnd
  BY <1>0, <1>3, DoneUnchanged, CallerStep DEF LoopEnd, goVars, TypeOK
<1>4. CASE Wait
  BY <1>0, <1>4, DoneUnchanged, CallerStep DEF Wait, goVars, TypeOK
<1>5. CASE Drain
  <2>1. DoneOf(gpc') = DoneOf(gpc)
    BY <1>0, <1>5 DEF Drain, DoneOf, goVars
  <2>2. CASE errc # << >> /\ errs' = Append(errs, Head(errc)) /\ errc' = Tail(errc)
    <3>1. Head(errc) \in Errors /\ Len(errc') = Len(errc) - 1 /\ Len(errs') = Len(errs) + 1
      BY <1>0, <2>2 DEF TypeOK
    <3>2. errc' \in Seq(Errors) /\ errs' \in Seq(Errors)
      BY <1>0, <2>2, <3>1 DEF TypeOK
    <3>3. Count'
      <4>1. Cardinality(DoneOf(gpc)) \in Nat /\ wg \in Nat /\ spawned \in Nat /\ Len(errc) \in Nat /\ Len(errs) \in Nat
        BY <1>0, DoneCount DEF TypeOK
      <4>2. Cardinality(DoneOf(gpc')) = Cardinality(DoneOf(gpc)) + 0
        BY <2>1, <4>1
      <4>3. Len(errc') + Len(errs') = Len(errc) + Len(errs) + 0
        BY <3>1, <4>1
      <4>4. wg' \in Int /\ spawned' \in Int /\ wg' + 0 = wg + (spawned' - spawned)
        BY <1>5, <4>1 DEF Drain
      <4>5. QED
        BY <3>2, <4>2, <4>3, <4>4, CountStep
    <3>4. QED
      BY <1>0, <1>5, <2>2, <3>2, <3>3, CallerStep DEF Drain, TypeOK
  <2>3. CASE UNCHANGED << errs, errc >>
    <3>1. UNCHANGED << level, loopVar, spawned, goVars, wg, stored, gpc, errc, errs >>
      BY <1>5, <2>3 DEF Drain, goVars
    <3>2. Count'
      BY <3>1, DoneUnchanged
    <3>3. mpc' \in {"start", "loop", "wait", "drain", "returned"} /\ closed' \in BOOLEAN
          /\ result' \in {"none", "nil", "err"}
      BY <1>0, <1>5, <2>3 DEF Drain, TypeOK
    <3>4. errc' \in Seq(Errors) /\ errs' \in Seq(Errors)
      BY <1>0, <3>1 DEF TypeOK
    <3>5. QED
      BY <3>1, <3>2, <3>3, <3>4, CallerStep
  <2>4. QED
    BY <1>5, <2>2, <2>3 DEF Drain
<1>6. ASSUME NEW g \in Goroutines, Sign(g)
      PROVE IInv'
  <2>1. DoneOf(gpc') = DoneOf(gpc)
    BY <1>0, <1>6 DEF Sign, DoneOf, TypeOK
  <2>2. g <= spawned /\ spawned >= 1 /\ spawned <= MaxReplicas
    BY <1>0, <1>6, SMTT(30) DEF Sign, Started, TypeOK, Goroutines
  <2>3. gid'[g] \in 1..MaxReplicas
    BY <1>0, <1>6, <2>2 DEF Sign, Started, TypeOK, Goroutines
  <2>4. TypeOK'
    BY <1>0, <1>6, <2>3, ZenonT(30) DEF Sign, TypeOK, Errors
  <2>5. Started'
    <3>1. gpc'[g] \in {"put", "send"} /\ gpc' = [gpc EXCEPT ![g] = gpc'[g]]
      BY <1>0, <1>6 DEF Sign, TypeOK
    <3>2. gid' = [gid EXCEPT ![g] = gid'[g]]
      BY <1>0, <1>6 DEF Sign, TypeOK
    <3>3. UNCHANGED << level, loopVar, spawned >>
      BY <1>6 DEF Sign
    <3>4. \A h \in Goroutines : gpc'[h] # "none" <=> h <= spawned'
      BY <1>0, <2>2, <3>1, <3>3 DEF Started, TypeOK
    <3>5. \A h \in Goroutines : gpc'[h] \in {"put", "send", "done"} => gid'[h] \in 1..MaxReplicas
      BY <1>0, <2>3, <3>1, <3>2 DEF Started, TypeOK
    <3>6. \A h \in Goroutines : LoopVarPerIteration /\ gpc'[h] = "sign" => gid'[h] = h
      BY <1>0, <3>1, <3>2 DEF Started, TypeOK
    <3>7. QED
      BY <1>0, <3>3, <3>4, <3>5, <3>6 DEF Started
  <2>6. Count'
    BY <1>6, <2>1, SameDone DEF Sign
  <2>7. QED
    BY <2>4, <2>5, <2>6 DEF IInv
<1>7. ASSUME NEW g \in Goroutines, PutReplica(g)
      PROVE IInv'
  <2>1. DoneOf(gpc') = DoneOf(gpc)
    BY <1>0, <1>7 DEF PutReplica, DoneOf, TypeOK
  <2>2. gid[g] \in 1..MaxReplicas
    BY <1>0, <1>7 DEF PutReplica, Started
  <2>3. TypeOK'
    BY <1>0, <1>7, <2>2, ZenonT(30) DEF PutReplica, TypeOK, Errors
  <2>4. Started'
    BY <1>0, <1>7 DEF PutReplica, Started
  <2>5. Count'
    BY <1>7, <2>1, SameDone DEF PutReplica
  <2>6. QED
    BY <2>3, <2>4, <2>5 DEF IInv
<1>8. ASSUME NEW g \in Goroutines, Send(g)
      PROVE IInv'
  <2>1. g \notin DoneOf(gpc) /\ DoneOf(gpc') = DoneOf(gpc) \cup {g}
    BY <1>0, <1>8 DEF Send, DoneOf, TypeOK
  <2>2. IsFiniteSet(DoneOf(gpc)) /\ Cardinality(DoneOf(gpc)) < spawned /\ Cardinality(DoneOf(gpc)) \in Nat
    BY <1>8, DoneCount DEF Send
  <2>3. Cardinality(DoneOf(gpc')) = Cardinality(DoneOf(gpc)) + 1
    BY <2>1, <2>2, FS_AddElement, ZenonT(30)
  <2>4. Len(errc') = Len(errc) + 1 /\ errc' \in Seq(Errors)
    BY <1>0, <1>8 DEF Send, TypeOK
  <2>5. wg' \in Nat
    BY <1>0, <1>8, <2>2 DEF Send, Count, TypeOK
  <2>6. TypeOK'
    BY <1>0, <1>8, <2>4, <2>5 DEF Send, TypeOK
  <2>7. Started'
    BY <1>0, <1>8 DEF Send, Started
  <2>8. Count'
    <3>1. Len(errc') + Len(errs') = Len(errc) + Len(errs) + 1
      BY <1>0, <1>8, <2>4 DEF Send, TypeOK
    <3>2. wg' \in Int /\ spawned' \in Int /\ wg' + 1 = wg + (spawned' - spawned)
          /\ errs' \in Seq(Errors)
      BY <1>0, <1>8 DEF Send, TypeOK
    <3>3. QED
      BY <2>3, <2>4, <3>1, <3>2, CountStep
  <2>9. QED
    BY <2>6, <2>7, <2>8 DEF IInv
<1>9. CASE UNCHANGED vars
  BY <1>0, <1>9, DoneUnchanged, CallerStep DEF vars, goVars, TypeOK
<1>10. QED
  BY <1>1, <1>2, <1>3, <1>4, <1>5, <1>6, <1>7, <1>8, <1>9 DEF Next

LEMMA AlwaysIInv == Spec => []IInv
BY InitIInv, NextIInv, PTL DEF Spec

\* Every variable of Put's model keeps its type: the WaitGroup counter
\* never goes negative and only replica addresses are stored.
THEOREM TypeCorrect == Spec => []TypeOK
BY AlwaysIInv, PTL DEF IInv

\* No replica goroutine ever finds errc full, so the send of putter.go:53
\* never blocks before the caller's wg.Wait returns, for every level and
\* replica count.
THEOREM SendNeverBlocksHolds == Spec => []SendNeverBlocks
<1>1. IInv => SendNeverBlocks
  <2> SUFFICES ASSUME IInv, NEW g \in Goroutines, gpc[g] = "send"
               PROVE  Len(errc) < ErrcCapacity
    BY DEF SendNeverBlocks
  <2>1. Cardinality(DoneOf(gpc)) < spawned /\ Cardinality(DoneOf(gpc)) \in Nat
    BY DoneCount
  <2>2. Len(errc) <= Cardinality(DoneOf(gpc)) /\ spawned <= ReplicaCount[level]
    BY <2>1 DEF IInv, Count, Started, TypeOK
  <2>3. Len(errc) \in Nat /\ spawned \in Nat /\ ReplicaCount[level] \in Nat
    BY DEF IInv, TypeOK
  <2>4. QED
    BY <2>1, <2>2, <2>3 DEF ErrcCapacity
<1>2. QED
  BY <1>1, AlwaysIInv, PTL

=============================================================================
