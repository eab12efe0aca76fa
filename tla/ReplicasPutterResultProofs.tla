---------------------- MODULE ReplicasPutterResultProofs ----------------------
(***************************************************************************)
(* Proofs about what putter.Put returns, for every redundancy level and    *)
(* replica count: the result is faithful to what the replica goroutines    *)
(* did, no goroutine outlives the call, and with a per-iteration loop      *)
(* variable a nil result means the level's number of distinct replicas was *)
(* stored.  They rest on the invariant IInv of ReplicasPutterProofs.       *)
(***************************************************************************)
EXTENDS ReplicasPutterProofs

\* The values a sequence holds.
SeqVals(s) == {s[i] : i \in 1..Len(s)}

(***************************************************************************)
(* The invariant of the result.  Errors travel from the goroutines through *)
(* errc into errs in an order nobody controls, so the link between them is *)
(* kept as sets of values: the errors in errs and errc are exactly the     *)
(* errors of the goroutines that are done.  A goroutine that sends nil has *)
(* stored its replica.  The phases of the caller fix the rest: nothing has *)
(* started before the loop, the loop ends after ReplicaCount addresses,    *)
(* wg.Wait has joined every goroutine before errc is drained, and Put      *)
(* returns only on an empty errc with the join of errs.  With a            *)
(* per-iteration loop variable, goroutine g works on address g.            *)
(***************************************************************************)
Phases ==
  /\ mpc = "start" => spawned = 0 /\ wg = 0 /\ errs = << >> /\ errc = << >>
  /\ mpc \in {"wait", "drain"} \/ (mpc = "returned" /\ level # 0) =>
       spawned = ReplicaCount[level]
  /\ mpc \in {"drain", "returned"} => wg = 0
  /\ mpc = "returned" =>
       /\ errc = << >>
       /\ result = "nil" <=> \A i \in 1..Len(errs) : errs[i] = "nil"

Errs ==
  /\ SeqVals(errs) \cup SeqVals(errc) = {gerr[g] : g \in DoneOf(gpc)}
  /\ \A g \in Goroutines :
       gpc[g] \in {"send", "done"} /\ gerr[g] = "nil" => gid[g] \in stored

OwnAddress ==
  LoopVarPerIteration =>
    /\ \A g \in Goroutines : gpc[g] # "none" => gid[g] = g
    /\ stored \subseteq 1..spawned

RInv == Phases /\ Errs /\ OwnAddress

USE LevelsAssumption, CountAssumption, LoopVarAssumption

\* Appending x to a sequence adds x to its values.
LEMMA SeqValsAppend ==
  ASSUME NEW S, NEW s \in Seq(S), NEW x \in S
  PROVE  SeqVals(Append(s, x)) = SeqVals(s) \cup {x}
BY DEF SeqVals

\* Moving the head of t to the end of s keeps the values of the two.
LEMMA SeqValsShift ==
  ASSUME NEW S, NEW s \in Seq(S), NEW t \in Seq(S), t # << >>
  PROVE  SeqVals(Append(s, Head(t))) \cup SeqVals(Tail(t)) = SeqVals(s) \cup SeqVals(t)
<1>1. SeqVals(Append(s, Head(t))) = SeqVals(s) \cup {Head(t)}
  BY SeqValsAppend, HeadTailProperties
<1>2. SeqVals(t) = {Head(t)} \cup SeqVals(Tail(t))
  <2>1. Len(t) \in Nat \ {0} /\ Len(Tail(t)) = Len(t) - 1
        /\ \A i \in 1..Len(Tail(t)) : Tail(t)[i] = t[i + 1]
    BY HeadTailProperties, EmptySeq
  <2>2. QED
    BY <2>1, SMTT(20) DEF SeqVals
<1>3. QED
  BY <1>1, <1>2

\* 1..n is finite and has n elements.
LEMMA IntervalCard ==
  ASSUME NEW n \in Nat
  PROVE  IsFiniteSet(1..n) /\ Cardinality(1..n) = n
<1>0. 1 \in Int /\ n \in Int
  OBVIOUS
<1>1. IsFiniteSet(1..n) /\ Cardinality(1..n) = IF 1 > n THEN 0 ELSE n - 1 + 1
  BY <1>0, FS_Interval, Zenon
<1>2. (IF 1 > n THEN 0 ELSE n - 1 + 1) = n
  OBVIOUS
<1>3. QED
  BY <1>1, <1>2

\* A part of 1..n with n elements is all of it.
LEMMA FullInterval ==
  ASSUME NEW n \in Nat, NEW S \in SUBSET (1..n), Cardinality(S) = n
  PROVE  S = 1..n
BY IntervalCard, FS_Subset, ZenonT(30)

\* When the WaitGroup counter is zero, every goroutine started is done and
\* none is left to sign, put or send.
LEMMA AllJoined ==
  ASSUME IInv, wg = 0
  PROVE  /\ DoneOf(gpc) = 1..spawned
         /\ \A g \in Goroutines : gpc[g] \notin {"sign", "put", "send"}
<1>1. Cardinality(DoneOf(gpc)) = spawned /\ spawned \in Nat
  BY DEF IInv, Count, TypeOK
<1>2. DoneOf(gpc) \subseteq 1..spawned
  BY DoneCount
<1>3. \A g \in Goroutines : gpc[g] \in {"sign", "put", "send"} =>
                            Cardinality(DoneOf(gpc)) < spawned
  BY DoneCount
<1>4. QED
  BY <1>1, <1>2, <1>3, FullInterval

\* Setting a goroutine that is not done to a state other than done keeps
\* the done goroutines; setting it to done adds it.
LEMMA DoneExcept ==
  ASSUME NEW p \in [Goroutines -> {"none", "sign", "put", "send", "done"}],
         NEW g \in Goroutines, p[g] # "done",
         NEW v \in {"none", "sign", "put", "send", "done"}
  PROVE  DoneOf([p EXCEPT ![g] = v]) = IF v = "done" THEN DoneOf(p) \cup {g}
                                                      ELSE DoneOf(p)
BY DEF DoneOf

\* Changing the error of a goroutine outside D keeps the errors of D.
LEMMA ErrsExcept ==
  ASSUME NEW e \in [Goroutines -> Errors], NEW g \in Goroutines, NEW v,
         NEW D \in SUBSET Goroutines, g \notin D
  PROVE  {[e EXCEPT ![g] = v][h] : h \in D} = {e[h] : h \in D}
BY DEF Errors

LEMMA InitRInv == Init => RInv
<1> SUFFICES ASSUME Init PROVE RInv
  OBVIOUS
<1>1. DoneOf(gpc) = {} /\ SeqVals(errs) = {} /\ SeqVals(errc) = {}
  BY DEF Init, DoneOf, SeqVals
<1>2. Errs
  BY <1>1 DEF Init, Errs
<1>3. Phases
  BY DEF Init, Phases
<1>4. OwnAddress
  BY DEF Init, OwnAddress
<1>5. QED
  BY <1>2, <1>3, <1>4 DEF RInv

\* The caller's steps leave the goroutines, and so the errors of those
\* that are done, alone.
LEMMA CallerErrs ==
  ASSUME RInv, UNCHANGED << goVars, stored >>,
         SeqVals(errs') \cup SeqVals(errc') = SeqVals(errs) \cup SeqVals(errc)
  PROVE  Errs'
BY DEF RInv, Errs, goVars, DoneOf

LEMMA NextRInv == IInv /\ RInv /\ [Next]_vars /\ IInv' => RInv'
<1> SUFFICES ASSUME IInv, RInv, [Next]_vars, IInv' PROVE RInv'
  OBVIOUS
<1>0. TypeOK /\ Started /\ Count /\ Phases /\ Errs /\ OwnAddress
  BY DEF IInv, RInv
<1>1. CASE Start
  <2>1. Errs'
    BY <1>1, CallerErrs DEF Start
  <2>2. Phases'
    <3>1. spawned = 0 /\ wg = 0 /\ errs = << >> /\ errc = << >>
      BY <1>0, <1>1 DEF Start, Phases
    <3>2. 1..Len(errs) = {}
      BY <3>1
    <3>3. QED
      BY <1>1, <3>1, <3>2 DEF Start, Phases
  <2>3. OwnAddress'
    BY <1>0, <1>1 DEF Start, OwnAddress, goVars
  <2>4. QED
    BY <2>1, <2>2, <2>3 DEF RInv
<1>2. CASE Receive
  <2> DEFINE g == spawned + 1
  <2>1. g \in Goroutines /\ gpc[g] = "none"
    <3>1. spawned < ReplicaCount[level] /\ ReplicaCount[level] \in 0..MaxReplicas
          /\ spawned \in Nat
      BY <1>0, <1>2 DEF Receive, ReplicatorSends, TypeOK
    <3>2. g \in Goroutines
      BY <3>1 DEF Goroutines
    <3>3. QED
      BY <1>0, <3>1, <3>2 DEF Started
  <2>2. DoneOf(gpc') = DoneOf(gpc)
    BY <1>0, <1>2, <2>1, DoneExcept, ZenonT(30) DEF Receive, TypeOK
  <2>3. Errs'
    <3>1. \A h \in Goroutines : gpc'[h] \in {"send", "done"} => h # g /\ gpc'[h] = gpc[h]
      BY <1>0, <1>2, <2>1 DEF Receive, TypeOK
    <3>2. QED
      BY <1>0, <1>2, <2>2, <3>1 DEF Receive, Errs
  <2>4. Phases'
    BY <1>0, <1>2 DEF Receive, Phases
  <2>5. OwnAddress'
    BY <1>0, <1>2, <2>1 DEF Receive, OwnAddress, TypeOK, Started
  <2>6. QED
    BY <2>3, <2>4, <2>5 DEF RInv
<1>3. CASE LoopEnd
  <2>1. Errs'
    BY <1>3, CallerErrs DEF LoopEnd
  <2>2. Phases' /\ OwnAddress'
    BY <1>0, <1>3 DEF LoopEnd, ReplicatorSends, Phases, OwnAddress, goVars
  <2>3. QED
    BY <2>1, <2>2 DEF RInv
<1>4. CASE Wait
  <2>1. Errs'
    BY <1>4, CallerErrs DEF Wait
  <2>2. Phases' /\ OwnAddress'
    BY <1>0, <1>4 DEF Wait, Phases, OwnAddress, goVars
  <2>3. QED
    BY <2>1, <2>2 DEF RInv
<1>5. CASE Drain
  <2>1. CASE errc # << >>
    <3>1. errs' = Append(errs, Head(errc)) /\ errc' = Tail(errc)
          /\ UNCHANGED << mpc, result, level, spawned, goVars, wg, stored >>
      BY <1>5, <2>1 DEF Drain
    <3>2. SeqVals(errs') \cup SeqVals(errc') = SeqVals(errs) \cup SeqVals(errc)
      BY <1>0, <2>1, <3>1, SeqValsShift DEF TypeOK
    <3>3. Errs'
      BY <3>1, <3>2, CallerErrs
    <3>4. Phases' /\ OwnAddress'
      BY <1>0, <1>5, <3>1, SMTT(20) DEF Drain, Phases, OwnAddress, goVars
    <3>5. QED
      BY <3>3, <3>4 DEF RInv
  <2>2. CASE errc = << >>
    <3>1. /\ mpc' = "returned"
          /\ result' = IF \A i \in 1..Len(errs) : errs[i] = "nil" THEN "nil" ELSE "err"
          /\ UNCHANGED << errs, errc, level, spawned, goVars, wg, stored >>
      BY <1>5, <2>2 DEF Drain
    <3>2. Errs'
      BY <3>1, CallerErrs
    <3>3. Phases'
      BY <1>0, <1>5, <2>2, <3>1 DEF Drain, Phases
    <3>4. OwnAddress'
      BY <1>0, <3>1 DEF OwnAddress, goVars
    <3>5. QED
      BY <3>2, <3>3, <3>4 DEF RInv
  <2>3. QED
    BY <2>1, <2>2
<1>6. ASSUME NEW g \in Goroutines, Sign(g)
      PROVE RInv'
  <2>1. gpc[g] = "sign" /\ gpc'[g] \in {"put", "send"} /\ gpc' = [gpc EXCEPT ![g] = gpc'[g]]
    BY <1>0, <1>6 DEF Sign, TypeOK
  <2>2. DoneOf(gpc') = DoneOf(gpc) /\ g \notin DoneOf(gpc)
    BY <1>0, <2>1, DoneExcept DEF TypeOK, DoneOf
  <2>3. {gerr'[h] : h \in DoneOf(gpc')} = {gerr[h] : h \in DoneOf(gpc)}
    BY <1>0, <1>6, <2>2, ErrsExcept DEF Sign, TypeOK, DoneOf
  <2>4. Errs'
    BY <1>0, <1>6, <2>1, <2>3, ZenonT(30) DEF Sign, Errs, TypeOK
  <2>5. Phases'
    BY <1>0, <1>6 DEF Sign, Phases
  <2>6. OwnAddress'
    BY <1>0, <1>6, <2>1 DEF Sign, OwnAddress, TypeOK
  <2>7. QED
    BY <2>4, <2>5, <2>6 DEF RInv
<1>7. ASSUME NEW g \in Goroutines, PutReplica(g)
      PROVE RInv'
  <2>1. gpc[g] = "put" /\ gpc' = [gpc EXCEPT ![g] = "send"]
    BY <1>7 DEF PutReplica
  <2>2. DoneOf(gpc') = DoneOf(gpc) /\ g \notin DoneOf(gpc)
    BY <1>0, <2>1, DoneExcept DEF TypeOK, DoneOf
  <2>3. {gerr'[h] : h \in DoneOf(gpc')} = {gerr[h] : h \in DoneOf(gpc)}
    BY <1>0, <1>7, <2>2, ErrsExcept, SMTT(20) DEF PutReplica, TypeOK, DoneOf
  <2>4. Errs'
    BY <1>0, <1>7, <2>1, <2>3, ZenonT(30) DEF PutReplica, Errs, TypeOK
  <2>5. Phases'
    BY <1>0, <1>7 DEF PutReplica, Phases
  <2>6. OwnAddress'
    <3>1. gid' = gid /\ spawned' = spawned /\ stored' \subseteq stored \cup {gid[g]}
      BY <1>7 DEF PutReplica
    <3>2. LoopVarPerIteration => gid[g] = g
      BY <1>0, <2>1 DEF OwnAddress
    <3>3. g <= spawned
      BY <1>0, <2>1 DEF Started
    <3>4. \A h \in Goroutines : gpc'[h] # "none" => gpc[h] # "none"
      BY <1>0, <2>1 DEF TypeOK
    <3>5. QED
      BY <1>0, <3>1, <3>2, <3>3, <3>4 DEF OwnAddress, Goroutines
  <2>7. QED
    BY <2>4, <2>5, <2>6 DEF RInv
<1>8. ASSUME NEW g \in Goroutines, Send(g)
      PROVE RInv'
  <2>1. gpc[g] = "send" /\ gpc' = [gpc EXCEPT ![g] = "done"]
    BY <1>8 DEF Send
  <2>2. DoneOf(gpc') = DoneOf(gpc) \cup {g}
    BY <1>0, <2>1, DoneExcept, ZenonT(30) DEF TypeOK
  <2>3. SeqVals(errc') = SeqVals(errc) \cup {gerr[g]}
    BY <1>0, <1>8, SeqValsAppend DEF Send, TypeOK
  <2>4. Errs'
    <3>1. gerr' = gerr /\ gid' = gid /\ stored' = stored /\ errs' = errs
      BY <1>8 DEF Send
    <3>2. {gerr[h] : h \in DoneOf(gpc')} = {gerr[h] : h \in DoneOf(gpc)} \cup {gerr[g]}
      BY <2>2
    <3>3. SeqVals(errs') \cup SeqVals(errc') = {gerr'[h] : h \in DoneOf(gpc')}
      BY <1>0, <2>3, <3>1, <3>2 DEF Errs
    <3>4. \A h \in Goroutines : gpc'[h] \in {"send", "done"} => gpc[h] \in {"send", "done"}
      BY <1>0, <2>1 DEF TypeOK
    <3>5. QED
      BY <1>0, <3>1, <3>3, <3>4 DEF Errs
  <2>5. wg # 0
    BY <1>0, <2>1, AllJoined
  <2>6. Phases'
    BY <1>0, <1>8, <2>5 DEF Send, Phases
  <2>7. OwnAddress'
    BY <1>0, <1>8, <2>1, SMTT(20) DEF Send, OwnAddress, TypeOK
  <2>8. QED
    BY <2>4, <2>6, <2>7 DEF RInv
<1>9. CASE UNCHANGED vars
  BY <1>0, <1>9 DEF vars, RInv, Phases, Errs, OwnAddress
<1>10. QED
  BY <1>1, <1>2, <1>3, <1>4, <1>5, <1>6, <1>7, <1>8, <1>9 DEF Next

LEMMA AlwaysRInv == Spec => [](IInv /\ RInv)
<1>1. Init => IInv /\ RInv
  BY InitIInv, InitRInv
<1>2. IInv /\ RInv /\ [Next]_vars => (IInv /\ RInv)'
  BY NextIInv, NextRInv
<1>3. QED
  BY <1>1, <1>2, PTL DEF Spec

\* Put returns nil exactly when every replica goroutine it started stored
\* its replica and sent nil on errc, and the error it returns joins one
\* error from each of them (putter.go 43-72): no error is lost between
\* errc and errs, however the goroutines interleave.
LEMMA ResultFaithful == IInv /\ RInv => PutResultFaithful
<1> SUFFICES ASSUME IInv, RInv, mpc = "returned"
             PROVE  /\ result = "nil" <=> \A g \in 1..spawned : gid[g] \in stored /\ gerr[g] = "nil"
                    /\ Len(errs) = spawned
  BY DEF PutResultFaithful
<1>0. TypeOK /\ Started /\ Count /\ Phases /\ Errs
  BY DEF IInv, RInv
<1>1. wg = 0 /\ errc = << >> /\ (result = "nil" <=> \A i \in 1..Len(errs) : errs[i] = "nil")
  BY <1>0 DEF Phases
<1>2. DoneOf(gpc) = 1..spawned /\ 1..spawned \subseteq Goroutines
  BY <1>0, <1>1, AllJoined DEF TypeOK, Goroutines
<1>3. SeqVals(errs) = {gerr[g] : g \in 1..spawned}
  <2>1. SeqVals(errc) = {}
    BY <1>1 DEF SeqVals
  <2>2. QED
    BY <1>0, <1>2, <2>1 DEF Errs
<1>4. (\A i \in 1..Len(errs) : errs[i] = "nil") <=> \A g \in 1..spawned : gerr[g] = "nil"
  BY <1>3 DEF SeqVals
<1>5. \A g \in 1..spawned : gerr[g] = "nil" => gid[g] \in stored
  <2>1. \A g \in 1..spawned : gpc[g] = "done"
    BY <1>2 DEF DoneOf
  <2>2. QED
    BY <1>0, <1>2, <2>1 DEF Errs
<1>6. Len(errs) = spawned
  <2>1. Cardinality(DoneOf(gpc)) = spawned /\ Len(errc) = 0
    BY <1>0, <1>1 DEF Count
  <2>2. Len(errs) \in Nat /\ spawned \in Nat
    BY <1>0 DEF TypeOK
  <2>3. QED
    BY <1>0, <2>1, <2>2 DEF Count
<1>7. QED
  BY <1>1, <1>4, <1>5, <1>6

THEOREM PutResultFaithfulHolds == Spec => []PutResultFaithful
BY AlwaysRInv, ResultFaithful, PTL

\* With a loop variable per iteration (Go 1.22 and later), a Put that
\* returns nil has stored exactly ReplicaCount distinct replica addresses:
\* each goroutine signs the address of its own iteration (putter.go 49-55).
\* The run replicas_putter_shared_loopvar shows it fails with a shared one.
THEOREM DistinctReplicasStoredHolds ==
  ASSUME LoopVarPerIteration
  PROVE  Spec => []DistinctReplicasStored
<1>1. IInv /\ RInv => DistinctReplicasStored
  <2> SUFFICES ASSUME IInv, RInv, mpc = "returned", result = "nil", level # 0
               PROVE  Cardinality(stored) = ReplicaCount[level]
    BY DEF DistinctReplicasStored
  <2>0. TypeOK /\ Started /\ Phases /\ OwnAddress
    BY DEF IInv, RInv
  <2>1. spawned = ReplicaCount[level] /\ spawned \in Nat
    BY <2>0 DEF Phases, TypeOK
  <2>2. \A g \in 1..spawned : gid[g] \in stored
    BY ResultFaithful DEF PutResultFaithful
  <2>3. \A g \in 1..spawned : gid[g] = g
    BY <2>0, <2>1 DEF OwnAddress, Started, TypeOK, Goroutines
  <2>4. stored = 1..spawned
    BY <2>0, <2>2, <2>3, ZenonT(30) DEF OwnAddress
  <2>5. QED
    BY <2>1, <2>4, IntervalCard
<1>2. QED
  BY <1>1, AlwaysRInv, PTL

\* Once Put has returned, no replica goroutine takes another step: every
\* one was joined by wg.Wait before errc was closed (putter.go 66-67), so
\* none signs, stores or sends after the call.
THEOREM PutReturnsLastHolds == Spec => PutReturnsLast
<1>1. IInv /\ RInv /\ [Next]_vars => [mpc = "returned" => UNCHANGED vars]_vars
  <2> SUFFICES ASSUME IInv, RInv, [Next]_vars, mpc = "returned"
               PROVE  UNCHANGED vars
    OBVIOUS
  <2>1. \A g \in Goroutines : gpc[g] \notin {"sign", "put", "send"}
    <3>1. wg = 0
      BY DEF RInv, Phases
    <3>2. QED
      BY <3>1, AllJoined
  <2>2. ~(Start \/ Receive \/ LoopEnd \/ Wait \/ Drain)
    BY DEF Start, Receive, LoopEnd, Wait, Drain
  <2>3. ~\E g \in Goroutines : Sign(g) \/ PutReplica(g) \/ Send(g)
    BY <2>1 DEF Sign, PutReplica, Send
  <2>4. QED
    BY <2>2, <2>3 DEF Next
<1>2. QED
  BY <1>1, AlwaysRInv, PTL DEF Spec, PutReturnsLast

=============================================================================
