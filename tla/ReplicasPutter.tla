--------------------------- MODULE ReplicasPutter ---------------------------
(***************************************************************************)
(* putter.Put of pkg/replicas (src/pkg/replicas/putter.go): one Put of a   *)
(* chunk at a redundancy level.  The calling goroutine ranges over the     *)
(* replicator's channel of replica addresses and starts one goroutine per  *)
(* replica; each signs a single owner chunk for its address, puts it with  *)
(* the wrapped putter and sends its error on errc, a channel of capacity   *)
(* GetReplicaCount.  The caller drains errc only after wg.Wait, and joins  *)
(* the errors.                                                             *)
(*                                                                         *)
(* Replica addresses are the numbers 1..n in the order the replicator      *)
(* sends them.  LoopVarPerIteration says whether the build gives each      *)
(* iteration its own r (Go 1.22 and later) or one r shared by every        *)
(* iteration, which a goroutine reads when it runs.                        *)
(***************************************************************************)
EXTENDS Naturals, Sequences, FiniteSets

CONSTANTS
  Levels,               \* redundancy levels a Put may be called with
  ReplicaCount,         \* rLevel.GetReplicaCount(), a function on Levels
  MaxReplicas,          \* bound on ReplicaCount
  LoopVarPerIteration   \* the build's semantics of the loop variable r

ASSUME LevelsAssumption == Levels \subseteq Nat /\ 0 \in Levels
ASSUME CountAssumption ==
  /\ MaxReplicas \in Nat
  /\ ReplicaCount \in [Levels -> 0..MaxReplicas]
ASSUME LoopVarAssumption == LoopVarPerIteration \in BOOLEAN

Goroutines == 1..MaxReplicas
Errors == {"nil", "signErr", "putErr"}

VARIABLES
  level,     \* p.rLevel
  mpc,       \* the calling goroutine: "start", "loop", "wait", "drain", "returned"
  loopVar,   \* the loop variable r: the last replica address received, 0: none
  spawned,   \* goroutines started so far
  gpc,       \* each replica goroutine: "none", "sign", "put", "send", "done"
  gid,       \* the replica address a goroutine works on, 0: not read yet
  gerr,      \* the goroutine's err
  wg,        \* the WaitGroup counter
  errc,      \* the buffered channel errc
  closed,    \* close(errc) has happened
  errs,      \* the errors collected from errc
  stored,    \* replica addresses the wrapped putter has stored
  result     \* what Put returned: "none" before, "nil" or "err"

vars == << level, mpc, loopVar, spawned, gpc, gid, gerr, wg, errc, closed,
           errs, stored, result >>
goVars == << gpc, gid, gerr >>

\* The number of addresses the replicator sends on rr.c before closing it:
\* one per replica the level asks for.
ReplicatorSends == ReplicaCount[level]

\* Mutant of ErrcCapacity: one slot short.
ErrcCapacityOffByOne == ReplicaCount[level] - 1

\* make(chan error, p.rLevel.GetReplicaCount())
ErrcCapacity == ReplicaCount[level]

Init ==
  /\ level \in Levels
  /\ mpc = "start"
  /\ loopVar = 0
  /\ spawned = 0
  /\ gpc = [g \in Goroutines |-> "none"]
  /\ gid = [g \in Goroutines |-> 0]
  /\ gerr = [g \in Goroutines |-> "nil"]
  /\ wg = 0
  /\ errc = << >>
  /\ closed = FALSE
  /\ errs = << >>
  /\ stored = {}
  /\ result = "none"

\* if p.rLevel == 0 { return nil }; otherwise create the replicator and errc.
Start ==
  /\ mpc = "start"
  /\ IF level = 0
       THEN mpc' = "returned" /\ result' = "nil"
       ELSE mpc' = "loop" /\ UNCHANGED result
  /\ UNCHANGED << level, loopVar, spawned, goVars, wg, errc, closed, errs, stored >>

\* for r := range rr.c { wg.Add(1); go func() {...}() }: receive the next
\* replica address and start its goroutine.  With a per-iteration r the
\* goroutine holds its own address from the start.
Receive ==
  LET g == spawned + 1 IN
  /\ mpc = "loop"
  /\ spawned < ReplicatorSends
  /\ loopVar' = g
  /\ spawned' = g
  /\ wg' = wg + 1
  /\ gpc' = [gpc EXCEPT ![g] = "sign"]
  /\ gid' = [gid EXCEPT ![g] = IF LoopVarPerIteration THEN g ELSE 0]
  /\ UNCHANGED << level, mpc, gerr, errc, closed, errs, stored, result >>

\* The replicator has closed rr.c: the range loop ends.
LoopEnd ==
  /\ mpc = "loop"
  /\ spawned = ReplicatorSends
  /\ mpc' = "wait"
  /\ UNCHANGED << level, loopVar, spawned, goVars, wg, errc, closed, errs,
                  stored, result >>

\* Mutant of Sign: the goroutine reads the loop variable shared by all
\* iterations, as built before Go 1.22.
SignSharedLoopVar(g) ==
  /\ gpc[g] = "sign"
  /\ gid' = [gid EXCEPT ![g] = loopVar]
  /\ \/ /\ gpc' = [gpc EXCEPT ![g] = "put"]
        /\ UNCHANGED gerr
     \/ /\ gpc' = [gpc EXCEPT ![g] = "send"]
        /\ gerr' = [gerr EXCEPT ![g] = "signErr"]
  /\ UNCHANGED << level, mpc, loopVar, spawned, wg, errc, closed, errs,
                  stored, result >>

\* sch, err := soc.New(r.id, ch).Sign(signer): the goroutine reads r (its
\* own, or the shared one as it is now); signing may fail.
Sign(g) ==
  LET id == IF LoopVarPerIteration THEN gid[g] ELSE loopVar IN
  /\ gpc[g] = "sign"
  /\ gid' = [gid EXCEPT ![g] = id]
  /\ \/ /\ gpc' = [gpc EXCEPT ![g] = "put"]
        /\ UNCHANGED gerr
     \/ /\ gpc' = [gpc EXCEPT ![g] = "send"]
        /\ gerr' = [gerr EXCEPT ![g] = "signErr"]
  /\ UNCHANGED << level, mpc, loopVar, spawned, wg, errc, closed, errs,
                  stored, result >>

\* Mutant of PutReplica: err := p.putter.Put(...) inside the if block
\* shadows the goroutine's err, so a failed put sends nil.
PutReplicaShadowedErr(g) ==
  /\ gpc[g] = "put"
  /\ gpc' = [gpc EXCEPT ![g] = "send"]
  /\ \/ /\ stored' = stored \cup {gid[g]}
        /\ UNCHANGED gerr
     \/ /\ UNCHANGED << stored, gerr >>
  /\ UNCHANGED << level, mpc, loopVar, spawned, gid, wg, errc, closed, errs,
                  result >>

\* if err == nil { err = p.putter.Put(ctx, sch) }
PutReplica(g) ==
  /\ gpc[g] = "put"
  /\ gpc' = [gpc EXCEPT ![g] = "send"]
  /\ \/ /\ stored' = stored \cup {gid[g]}
        /\ UNCHANGED gerr
     \/ /\ gerr' = [gerr EXCEPT ![g] = "putErr"]
        /\ UNCHANGED stored
  /\ UNCHANGED << level, mpc, loopVar, spawned, gid, wg, errc, closed, errs,
                  result >>

\* Mutant of Send: wg.Done is called explicitly as well as deferred.
SendDoneTwice(g) ==
  /\ gpc[g] = "send"
  /\ Len(errc) < ErrcCapacity
  /\ errc' = Append(errc, gerr[g])
  /\ gpc' = [gpc EXCEPT ![g] = "done"]
  /\ wg' = wg - 2
  /\ UNCHANGED << level, mpc, loopVar, spawned, gid, gerr, closed, errs,
                  stored, result >>

\* errc <- err, which blocks while errc is full; then the deferred wg.Done.
Send(g) ==
  /\ gpc[g] = "send"
  /\ Len(errc) < ErrcCapacity
  /\ errc' = Append(errc, gerr[g])
  /\ gpc' = [gpc EXCEPT ![g] = "done"]
  /\ wg' = wg - 1
  /\ UNCHANGED << level, mpc, loopVar, spawned, gid, gerr, closed, errs,
                  stored, result >>

\* Mutant of Wait: the caller does not wait for the goroutines.
WaitNoJoin ==
  /\ mpc = "wait"
  /\ mpc' = "drain"
  /\ closed' = TRUE
  /\ UNCHANGED << level, loopVar, spawned, goVars, wg, errc, errs, stored, result >>

\* wg.Wait(); close(errc)
Wait ==
  /\ mpc = "wait"
  /\ wg = 0
  /\ mpc' = "drain"
  /\ closed' = TRUE
  /\ UNCHANGED << level, loopVar, spawned, goVars, wg, errc, errs, stored, result >>

\* for err := range errc { errs = append(errs, err) }; the range ends on the
\* closed, empty channel and Put returns errors.Join(errs...), which is nil
\* when every collected error is nil.
Drain ==
  /\ mpc = "drain"
  /\ \/ /\ errc # << >>
        /\ errs' = Append(errs, Head(errc))
        /\ errc' = Tail(errc)
        /\ UNCHANGED << mpc, result >>
     \/ /\ errc = << >>
        /\ closed
        /\ mpc' = "returned"
        /\ result' = IF \A i \in 1..Len(errs) : errs[i] = "nil" THEN "nil" ELSE "err"
        /\ UNCHANGED << errs, errc >>
  /\ UNCHANGED << level, loopVar, spawned, goVars, wg, closed, stored >>

Next ==
  \/ Start \/ Receive \/ LoopEnd \/ Wait \/ Drain
  \/ \E g \in Goroutines : Sign(g) \/ PutReplica(g) \/ Send(g)

\* The Go scheduler eventually runs every runnable goroutine: the caller and
\* each replica goroutine are weakly fair.
Fairness ==
  /\ WF_vars(Start \/ Receive \/ LoopEnd \/ Wait \/ Drain)
  /\ \A g \in Goroutines : WF_vars(Sign(g) \/ PutReplica(g) \/ Send(g))

Spec == Init /\ [][Next]_vars /\ Fairness

-----------------------------------------------------------------------------

TypeOK ==
  /\ level \in Levels
  /\ mpc \in {"start", "loop", "wait", "drain", "returned"}
  /\ loopVar \in 0..MaxReplicas
  /\ spawned \in 0..MaxReplicas
  /\ gpc \in [Goroutines -> {"none", "sign", "put", "send", "done"}]
  /\ gid \in [Goroutines -> 0..MaxReplicas]
  /\ gerr \in [Goroutines -> Errors]
  /\ wg \in Nat
  /\ errc \in Seq(Errors)
  /\ closed \in BOOLEAN
  /\ errs \in Seq(Errors)
  /\ stored \subseteq 1..MaxReplicas
  /\ result \in {"none", "nil", "err"}

\* No replica goroutine ever finds errc full: since the caller drains errc
\* only after wg.Wait, a goroutine blocked on errc <- err would block the
\* caller, and so the Put, forever.
SendNeverBlocks ==
  \A g \in Goroutines : gpc[g] = "send" => Len(errc) < ErrcCapacity

\* Put returns nil exactly when every replica of the level was stored, and
\* the error it returns otherwise joins one error per replica goroutine.
PutResultFaithful ==
  mpc = "returned" =>
    /\ result = "nil" <=> \A g \in 1..spawned : gid[g] \in stored /\ gerr[g] = "nil"
    /\ Len(errs) = spawned

\* A Put that returns nil has stored as many distinct replicas as the level
\* asks for (the replicas are dispersed over distinct addresses).
DistinctReplicasStored ==
  mpc = "returned" /\ result = "nil" /\ level # 0 =>
    Cardinality(stored) = ReplicaCount[level]

\* No replica goroutine outlives Put: once Put has returned, no goroutine
\* signs, puts or sends any more (wg.Wait has joined them all), and the
\* caller does nothing either.
PutReturnsLast == [][mpc = "returned" => UNCHANGED vars]_vars

\* Every Put returns: every goroutine's send completes and wg.Wait returns.
PutTerminates == <>(mpc = "returned")

=============================================================================
