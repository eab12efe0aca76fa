-------------------------- MODULE SwapCreditProofs --------------------------
(***************************************************************************)
(* A proof that ReceiveCheque never credits a peer more than its cheques   *)
(* paid (NoOverCredit), for every number of workers, peers, chequebooks,   *)
(* exchange rate and deductions.                                           *)
(*                                                                         *)
(* The cheque store adds a cheque's increment to paidIn and its deduction  *)
(* to deducted at once, but the accounting is credited only later, by      *)
(* RCNotify, after the addressbook writes, which may fail and return.      *)
(* Between the two, the call owes the peer received - ded, of which        *)
(* RCNotify credits (received - ded) \div rate units.  The invariant adds  *)
(* what the calls in flight owe, summed over the workers.  The sum is the  *)
(* number of elements of a set with received - ded elements per worker,    *)
(* so FiniteSetTheorems gives what a step does to it.                      *)
(***************************************************************************)
EXTENDS SwapProofs, FiniteSetTheorems

\* What a ReceiveCheque call past the cheque store owes its peer.
Owed(l) == l.received - l.ded

\* The units owed to peer p by the calls in flight, in states pcX, locX:
\* a worker between the store and the notification owes Owed of them.
OwedUnits(pcX, locX, p) ==
  {u \in Workers \X Payouts :
     /\ pcX[u[1]] \in Credits
     /\ locX[u[1]].peer = p
     /\ u[2] \in 1..Owed(locX[u[1]])}

\* The number of those units that worker w owes.
Share(pcX, locX, p, w) ==
  IF pcX[w] \in Credits /\ locX[w].peer = p THEN Owed(locX[w]) ELSE 0

\* The accepted increment is part of the cumulative payout of the cheque.
ReceivedBound == \A w \in Workers : loc[w].received <= loc[w].val

\* What was credited, deducted and is still owed stays within what was paid.
Covered ==
  \A p \in Peers :
    credited[p] * ExchangeRate + deducted[p] + Cardinality(OwedUnits(pc, loc, p))
      <= paidIn[p]

CInv == ReceivedBound /\ Covered


\* The units owed by workers other than w.
Others(pcX, locX, p, w) == {u \in OwedUnits(pcX, locX, p) : u[1] # w}

\* The units owed are finitely many: there are finitely many workers, and a
\* worker owes at most the largest payout.
LEMMA UnitsFinite ==
  ASSUME NEW pcX, NEW locX, NEW p
  PROVE  IsFiniteSet(OwedUnits(pcX, locX, p))
<1>1. IsFiniteSet(Payouts)
  BY PayoutAssumption, FS_Interval DEF Payouts
<1>2. IsFiniteSet(Workers \X Payouts)
  BY <1>1, WorkersAssumption, FS_Product
<1>3. OwedUnits(pcX, locX, p) \subseteq Workers \X Payouts
  BY DEF OwedUnits
<1>4. QED
  BY <1>2, <1>3, FS_Subset

\* A worker between the store and the notification owes a natural number
\* of units, at most the largest payout: the store accepted an increment of
\* at least rate + deduction, and the increment is part of the cheque.
LEMMA ShareBound ==
  ASSUME NEW pcX, NEW locX, NEW w, NEW p,
         locX[w] \in Locals,
         locX[w].received <= locX[w].val,
         pcX[w] \in Credits => locX[w].received >= ExchangeRate + locX[w].ded
  PROVE  /\ pcX[w] \in Credits => Owed(locX[w]) \in 1..MaxPayout
         /\ Share(pcX, locX, p, w) \in Nat
<1>1. locX[w].ded \in Nat /\ locX[w].received \in Nat /\ locX[w].val \in Payouts
  BY LocalsNat DEF Locals
<1>2. QED
  BY <1>1, RateAssumption, PayoutAssumption DEF Owed, Share, Payouts

\* The units owed are those of the other workers and the share of w.
LEMMA SplitCard ==
  ASSUME NEW pcX, NEW locX, NEW p, NEW w \in Workers,
         pcX[w] \in Credits /\ locX[w].peer = p => Owed(locX[w]) \in 1..MaxPayout
  PROVE  /\ IsFiniteSet(Others(pcX, locX, p, w))
         /\ Cardinality(OwedUnits(pcX, locX, p))
              = Cardinality(Others(pcX, locX, p, w)) + Share(pcX, locX, p, w)
<1> DEFINE U == OwedUnits(pcX, locX, p)
           O == Others(pcX, locX, p, w)
           W == {u \in U : u[1] = w}
<1>1. IsFiniteSet(U)
  BY UnitsFinite
<1>2. IsFiniteSet(O) /\ IsFiniteSet(W)
  BY <1>1, FS_Subset DEF Others
<1>3. U = O \cup W /\ O \cap W = {}
  BY DEF Others
<1>4. Cardinality(W) = Share(pcX, locX, p, w)
  <2>1. CASE pcX[w] \in Credits /\ locX[w].peer = p
    <3> DEFINE m == Owed(locX[w])
    <3>1. m \in 1..MaxPayout
      BY <2>1
    <3>2. W = {w} \X (1..m)
      <4>1. W \subseteq {w} \X (1..m)
        BY DEF OwedUnits
      <4>2. {w} \X (1..m) \subseteq W
        <5> SUFFICES ASSUME NEW k \in 1..m PROVE << w, k >> \in W
          OBVIOUS
        <5>1. k \in Payouts
          BY <3>1, PayoutAssumption DEF Payouts
        <5>2. QED
          BY <2>1, <5>1 DEF OwedUnits
      <4>3. QED
        BY <4>1, <4>2
    <3>3. IsFiniteSet({w}) /\ Cardinality({w}) = 1
      BY FS_Singleton
    <3>4. IsFiniteSet(1..m) /\ Cardinality(1..m) = m
      BY <3>1, FS_Interval
    <3>5. Cardinality({w} \X (1..m)) = Cardinality({w}) * Cardinality(1..m)
      BY <3>3, <3>4, FS_Product, Zenon
    <3>6. Cardinality({w} \X (1..m)) = m
      BY <3>1, <3>3, <3>4, <3>5
    <3>7. QED
      BY <2>1, <3>1, <3>2, <3>6 DEF Share
  <2>2. CASE ~(pcX[w] \in Credits /\ locX[w].peer = p)
    <3>1. W = {}
      BY <2>2 DEF OwedUnits
    <3>2. QED
      BY <2>2, <3>1, FS_EmptySet DEF Share
  <2>3. QED
    BY <2>1, <2>2
<1>5. Cardinality(O \cap W) = 0
  BY <1>3, FS_EmptySet
<1>6. Cardinality(O \cup W) = Cardinality(O) + Cardinality(W) - Cardinality(O \cap W)
  BY <1>2, FS_Union
<1>7. Cardinality(O) \in Nat /\ Cardinality(W) \in Nat
  BY <1>2, FS_CardinalityType
<1>8. QED
  BY <1>2, <1>3, <1>4, <1>5, <1>6, <1>7

\* The units owed by the other workers depend only on their own state.
LEMMA OthersSame ==
  ASSUME NEW pcX, NEW locX, NEW pcY, NEW locY, NEW p, NEW w,
         \A x \in Workers \ {w} : pcX[x] = pcY[x] /\ locX[x] = locY[x]
  PROVE  Others(pcX, locX, p, w) = Others(pcY, locY, p, w)
BY DEF Others, OwedUnits


\* A step of worker w leaves the other workers' calls alone.
OthersKeep(w) == \A x \in Workers \ {w} : pc'[x] = pc[x] /\ loc'[x] = loc[x]

\* A step of worker w pays, per peer, for what it credits, deducts and
\* adds to its own share of the units owed.
StepPaid(w) ==
  \A q \in Peers :
    credited'[q] * ExchangeRate + deducted'[q] + Share(pc', loc', q, w) + paidIn[q]
      <= credited[q] * ExchangeRate + deducted[q] + Share(pc, loc, q, w) + paidIn'[q]

\* The bounds SplitCard needs hold in every state of the invariants.
LEMMA OwedInRange ==
  ASSUME IInv, ReceivedBound, NEW w \in Workers, NEW q
  PROVE  /\ pc[w] \in Credits /\ loc[w].peer = q => Owed(loc[w]) \in 1..MaxPayout
         /\ Share(pc, loc, q, w) \in Nat
BY ShareBound DEF IInv, TypeOK, ReceivedBound, CreditInv

\* A step of one worker that pays for its own share keeps Covered.
LEMMA CoveredStep ==
  ASSUME IInv, IInv', ReceivedBound, ReceivedBound', Covered,
         NEW w \in Workers, OthersKeep(w), StepPaid(w)
  PROVE  Covered'
<1> SUFFICES ASSUME NEW q \in Peers
             PROVE  credited'[q] * ExchangeRate + deducted'[q]
                      + Cardinality(OwedUnits(pc', loc', q)) <= paidIn'[q]
  BY DEF Covered
<1>1. /\ pc[w] \in Credits /\ loc[w].peer = q => Owed(loc[w]) \in 1..MaxPayout
      /\ Share(pc, loc, q, w) \in Nat
  BY OwedInRange
<1>2. /\ pc'[w] \in Credits /\ loc'[w].peer = q => Owed(loc'[w]) \in 1..MaxPayout
      /\ Share(pc', loc', q, w) \in Nat
  BY ShareBound DEF IInv, TypeOK, ReceivedBound, CreditInv
<1>3. /\ IsFiniteSet(Others(pc, loc, q, w))
      /\ Cardinality(OwedUnits(pc, loc, q))
           = Cardinality(Others(pc, loc, q, w)) + Share(pc, loc, q, w)
  BY <1>1, SplitCard
<1>4. Cardinality(OwedUnits(pc', loc', q))
        = Cardinality(Others(pc', loc', q, w)) + Share(pc', loc', q, w)
  BY <1>2, SplitCard
<1>5. Others(pc', loc', q, w) = Others(pc, loc, q, w)
  BY OthersSame DEF OthersKeep
<1>6. Cardinality(Others(pc, loc, q, w)) \in Nat
  BY <1>3, FS_CardinalityType
<1>7. /\ credited[q] \in Nat /\ deducted[q] \in Nat /\ paidIn[q] \in Nat
      /\ credited'[q] \in Nat /\ deducted'[q] \in Nat /\ paidIn'[q] \in Nat
  BY DEF IInv, TypeOK
<1>8. credited[q] * ExchangeRate + deducted[q]
        + Cardinality(OwedUnits(pc, loc, q)) <= paidIn[q]
  BY DEF Covered
<1>9. credited'[q] * ExchangeRate + deducted'[q] + Share(pc', loc', q, w) + paidIn[q]
        <= credited[q] * ExchangeRate + deducted[q] + Share(pc, loc, q, w) + paidIn'[q]
  BY DEF StepPaid
<1>10. QED
  BY <1>1, <1>2, <1>3, <1>4, <1>5, <1>6, <1>7, <1>8, <1>9, RateAssumption


\* A step of a worker that is not between the store and the notification,
\* before or after, and that credits, deducts and pays nothing, pays for
\* its share: it owes nothing.
LEMMA QuietStep ==
  ASSUME IInv, NEW w \in Workers, pc[w] \notin Credits, pc'[w] \notin Credits,
         UNCHANGED << credited, deducted, paidIn >>
  PROVE  StepPaid(w)
<1> SUFFICES ASSUME NEW q \in Peers
             PROVE  credited'[q] * ExchangeRate + deducted'[q] + Share(pc', loc', q, w)
                      + paidIn[q]
                    <= credited[q] * ExchangeRate + deducted[q] + Share(pc, loc, q, w)
                      + paidIn'[q]
  BY DEF StepPaid
<1>1. Share(pc', loc', q, w) = 0 /\ Share(pc, loc, q, w) = 0
  BY DEF Share
<1>2. credited[q] \in Nat /\ deducted[q] \in Nat /\ paidIn[q] \in Nat
  BY DEF IInv, TypeOK
<1>3. QED
  BY <1>1, <1>2, RateAssumption

\* A step of worker w that keeps the other calls, keeps its own increment
\* within its cheque, and pays for its share keeps CInv.
LEMMA WorkerStep ==
  ASSUME IInv, IInv', CInv, NEW w \in Workers, OthersKeep(w),
         loc'[w].received <= loc'[w].val, StepPaid(w)
  PROVE  CInv'
<1>1. ReceivedBound'
  BY DEF CInv, ReceivedBound, OthersKeep
<1>2. Covered'
  BY <1>1, CoveredStep DEF CInv
<1>3. QED
  BY <1>1, <1>2 DEF CInv

\* The locals a call starts with: received is 0, as in NoCall.
LEMMA StartLocals ==
  ASSUME NEW r \in Locals, r.received = 0
  PROVE  r.received <= r.val
BY LocalsNat

\* An idle worker holds NoCall.
LEMMA NoCallBound == NoCall.received <= NoCall.val
BY DEF NoCall


(***************************************************************************)
(* The steps that owe nothing: the entries of the three handlers, and the  *)
(* steps of Pay and Handshake.  Each changes only its own worker's call,   *)
(* which is not between the store and the notification before or after.   *)
(***************************************************************************)

\* A step of worker w that owes nothing before or after and changes only
\* its own pc and locals, to the locals of a new call or of no call.
LEMMA LocalQuiet ==
  ASSUME IInv, CInv, NEW w \in Workers,
         pc[w] \notin Credits, pc'[w] \notin Credits,
         UNCHANGED << credited, deducted, paidIn >>,
         pc' = pc \/ \E to \in PCs : pc' = [pc EXCEPT ![w] = to],
         \/ loc' = loc
         \/ \E r \in Locals : r.received = 0 /\ loc' = [loc EXCEPT ![w] = r]
  PROVE  OthersKeep(w) /\ loc'[w].received <= loc'[w].val /\ StepPaid(w)
<1>1. OthersKeep(w)
  BY DEF OthersKeep, IInv, TypeOK
<1>2. loc'[w].received <= loc'[w].val
  BY StartLocals DEF IInv, TypeOK, CInv, ReceivedBound
<1>3. QED
  BY <1>1, <1>2, QuietStep

\* ReceiveCheque's entry owes nothing yet: the cheque is not stored.
LEMMA RCBeginQuiet ==
  ASSUME IInv, CInv, NEW w \in Workers, NEW p \in Peers, NEW c \in Chequebooks,
         NEW v \in Payouts \ {0}, NEW d \in Deductions, RCBegin(w, p, c, v, d)
  PROVE  OthersKeep(w) /\ loc'[w].received <= loc'[w].val /\ StepPaid(w)
<1>1. pc[w] = "idle" /\ UNCHANGED << credited, deducted, paidIn >>
  BY DEF RCBegin, Begin, history
<1>2. CASE UNCHANGED << pc, loc >>
  BY <1>1, <1>2, LocalQuiet DEF Credits
<1>3. CASE /\ pc' = [pc EXCEPT ![w] = "rcStore"]
           /\ loc' = [loc EXCEPT ![w] = [NoCall EXCEPT
                        !.peer = p, !.cb = c, !.val = v, !.ded = d,
                        !.known = (peerChequebook[p] # None)]]
  <2> DEFINE r == [NoCall EXCEPT !.peer = p, !.cb = c, !.val = v, !.ded = d,
                                 !.known = (peerChequebook[p] # None)]
  <2>1. r \in Locals /\ r.received = 0
    BY NoCallType DEF Locals, NoCall
  <2>2. pc'[w] \notin Credits
    BY <1>3 DEF IInv, TypeOK, Credits
  <2>3. QED
    BY <1>1, <1>3, <2>1, <2>2, LocalQuiet DEF Credits, PCs
<1>4. QED
  BY <1>2, <1>3 DEF RCBegin, Goto

\* Pay's entry owes nothing: Pay never credits the accounting.
LEMMA PayBeginQuiet ==
  ASSUME IInv, CInv, NEW w \in Workers, NEW p \in Peers, NEW a \in Amounts,
         PayBegin(w, p, a)
  PROVE  OthersKeep(w) /\ loc'[w].received <= loc'[w].val /\ StepPaid(w)
<1>1. pc[w] = "idle" /\ UNCHANGED << credited, deducted, paidIn >>
  BY DEF PayBegin, Begin, history
<1>2. CASE UNCHANGED << pc, loc >>
  BY <1>1, <1>2, LocalQuiet DEF Credits
<1>3. CASE /\ pc' = [pc EXCEPT ![w] = "payEmit"]
           /\ loc' = [loc EXCEPT ![w] = [NoCall EXCEPT
                        !.peer = p, !.bene = peerBeneficiary[p], !.amount = a]]
  <2> DEFINE r == [NoCall EXCEPT !.peer = p, !.bene = peerBeneficiary[p], !.amount = a]
  <2>1. r \in Locals /\ r.received = 0
    BY NoCallType, AmountsAssumption DEF Locals, NoCall, IInv, TypeOK
  <2>2. pc'[w] \notin Credits
    BY <1>3 DEF IInv, TypeOK, Credits
  <2>3. QED
    BY <1>1, <1>3, <2>1, <2>2, LocalQuiet DEF Credits, PCs
<1>4. QED
  BY <1>2, <1>3 DEF PayBegin, Goto

\* Handshake's entry owes nothing.
LEMMA HSBeginQuiet ==
  ASSUME IInv, CInv, NEW w \in Workers, NEW p \in Peers, NEW b \in Beneficiaries,
         HSBegin(w, p, b)
  PROVE  OthersKeep(w) /\ loc'[w].received <= loc'[w].val /\ StepPaid(w)
<1>1. pc[w] = "idle" /\ UNCHANGED << credited, deducted, paidIn >>
  BY DEF HSBegin, Begin, history
<1>2. CASE UNCHANGED << pc, loc >>
  BY <1>1, <1>2, LocalQuiet DEF Credits
<1>3. CASE /\ pc' = [pc EXCEPT ![w] = "hsMigrate"]
           /\ loc' = [loc EXCEPT ![w] = [NoCall EXCEPT
                        !.peer = p, !.bene = b, !.old = beneficiaryPeer[b]]]
  <2> DEFINE r == [NoCall EXCEPT !.peer = p, !.bene = b, !.old = beneficiaryPeer[b]]
  <2>1. r \in Locals /\ r.received = 0
    BY NoCallType DEF Locals, NoCall, IInv, TypeOK
  <2>2. pc'[w] \notin Credits
    BY <1>3 DEF IInv, TypeOK, Credits
  <2>3. QED
    BY <1>1, <1>3, <2>1, <2>2, LocalQuiet DEF Credits, PCs
<1>4. CASE /\ pc' = [pc EXCEPT ![w] = "hsReadPeer"]
           /\ loc' = [loc EXCEPT ![w] = [NoCall EXCEPT !.peer = p, !.bene = b]]
  <2> DEFINE r == [NoCall EXCEPT !.peer = p, !.bene = b]
  <2>1. r \in Locals /\ r.received = 0
    BY NoCallType DEF Locals, NoCall
  <2>2. pc'[w] \notin Credits
    BY <1>4 DEF IInv, TypeOK, Credits
  <2>3. QED
    BY <1>1, <1>4, <2>1, <2>2, LocalQuiet DEF Credits, PCs
<1>5. QED
  BY <1>2, <1>3, <1>4 DEF HSBegin, Goto


\* The locals of a returned call are those of no call.
LEMMA ReturnLocals ==
  ASSUME NEW w, Return(w)
  PROVE  \E r \in Locals : r.received = 0 /\ loc' = [loc EXCEPT ![w] = r]
BY NoCallType DEF Return, NoCall

\* The steps of Pay and Handshake owe nothing.
LEMMA PayHSQuiet ==
  ASSUME IInv, CInv, NEW w \in Workers,
         PayEmit(w) \/ HSMigrate(w) \/ HSReadPeer(w) \/ HSPut(w)
  PROVE  OthersKeep(w) /\ loc'[w].received <= loc'[w].val /\ StepPaid(w)
<1>1. /\ pc[w] \in {"payEmit", "hsMigrate", "hsReadPeer", "hsPut"}
      /\ UNCHANGED << credited, deducted, paidIn >>
  BY DEF PayEmit, HSMigrate, HSReadPeer, HSPut, history
<1>2. CASE Return(w)
  <2>1. pc'[w] \notin Credits
    BY <1>2 DEF Return, IInv, TypeOK, Credits
  <2>2. QED
    BY <1>1, <1>2, <2>1, ReturnLocals, LocalQuiet DEF Return, Credits, PCs
<1>3. CASE HSReadPeer(w) /\ Goto(w, "hsPut") /\ UNCHANGED loc
  <2>1. pc'[w] \notin Credits
    BY <1>3 DEF Goto, IInv, TypeOK, Credits
  <2>2. QED
    BY <1>1, <1>3, <2>1, LocalQuiet DEF Goto, Credits, PCs
<1>4. QED
  BY <1>2, <1>3 DEF PayEmit, HSMigrate, HSReadPeer, HSPut

-----------------------------------------------------------------------------
(***************************************************************************)
(* The steps of ReceiveCheque.                                             *)
(***************************************************************************)

\* The cheque store accepts a cheque: paidIn grows by the increment and
\* deducted by the deduction, and the call now owes the rest; or it rejects
\* the cheque and the call returns, owing nothing.
LEMMA RCStorePaid ==
  ASSUME IInv, CInv, NEW w \in Workers, RCStore(w)
  PROVE  OthersKeep(w) /\ loc'[w].received <= loc'[w].val /\ StepPaid(w)
<1> DEFINE l == loc[w]
           inc == l.val - lastReceived[l.cb]
           to == IF l.ded > 0 THEN "rcDeduct"
                 ELSE IF ~l.known THEN "rcPutChequebook" ELSE "rcNotify"
<1>1. /\ pc[w] = "rcStore" /\ l \in Locals /\ l.cb \in Chequebooks /\ l.peer \in Peers
      /\ UNCHANGED credited
  BY DEF RCStore, LocalsOK, RCStates, IInv, TypeOK
<1>2. CASE /\ l.val >= lastReceived[l.cb] + ExchangeRate + l.ded
           /\ lastReceived' = [lastReceived EXCEPT ![l.cb] = l.val]
           /\ loc' = [loc EXCEPT ![w].received = inc]
           /\ pc' = [pc EXCEPT ![w] = to]
           /\ paidIn' = [paidIn EXCEPT ![l.peer] = @ + inc]
           /\ deducted' = [deducted EXCEPT ![l.peer] = @ + l.ded]
  <2>1. /\ l.ded \in Nat /\ l.val \in Nat /\ lastReceived[l.cb] \in Nat
        /\ inc \in Nat /\ inc <= l.val /\ inc >= l.ded
    BY <1>1, <1>2, LocalsNat, RateAssumption, PayoutAssumption
       DEF IInv, TypeOK, Payouts
  <2>2. OthersKeep(w)
    BY <1>2 DEF OthersKeep, IInv, TypeOK
  <2>3. loc'[w] = [l EXCEPT !.received = inc]
    BY <1>2 DEF IInv, TypeOK
  <2>4. loc'[w].received <= loc'[w].val
    BY <1>1, <2>1, <2>3 DEF Locals
  <2>5. /\ pc'[w] \in Credits /\ loc'[w].peer = l.peer
        /\ Owed(loc'[w]) = inc - l.ded
    BY <1>1, <1>2, <2>3 DEF IInv, TypeOK, Credits, Owed, Locals
  <2>6. StepPaid(w)
    <3> SUFFICES ASSUME NEW q \in Peers
                 PROVE  credited'[q] * ExchangeRate + deducted'[q]
                          + Share(pc', loc', q, w) + paidIn[q]
                        <= credited[q] * ExchangeRate + deducted[q]
                          + Share(pc, loc, q, w) + paidIn'[q]
      BY DEF StepPaid
    <3>1. Share(pc, loc, q, w) = 0
      BY <1>1 DEF Share, Credits
    <3>2. credited[q] \in Nat /\ deducted[q] \in Nat /\ paidIn[q] \in Nat
      BY DEF IInv, TypeOK
    <3>3. CASE q = l.peer
      <4>1. /\ Share(pc', loc', q, w) = inc - l.ded
            /\ paidIn'[q] = paidIn[q] + inc /\ deducted'[q] = deducted[q] + l.ded
        BY <1>1, <1>2, <2>5, <3>3 DEF Share, IInv, TypeOK
      <4>2. QED
        BY <1>1, <2>1, <3>1, <3>2, <4>1, RateAssumption
    <3>4. CASE q # l.peer
      <4>1. /\ Share(pc', loc', q, w) = 0
            /\ paidIn'[q] = paidIn[q] /\ deducted'[q] = deducted[q]
        BY <1>2, <2>5, <3>4 DEF Share, IInv, TypeOK
      <4>2. QED
        BY <1>1, <3>1, <3>2, <4>1, RateAssumption
    <3>5. QED
      BY <3>3, <3>4
  <2>7. QED
    BY <2>2, <2>4, <2>6
<1>3. CASE Return(w) /\ UNCHANGED << lastReceived, paidIn, deducted, accepted >>
  <2>1. pc'[w] \notin Credits
    BY <1>3 DEF Return, IInv, TypeOK, Credits
  <2>2. QED
    BY <1>1, <1>3, <2>1, ReturnLocals, LocalQuiet DEF Return, Credits, PCs
<1>4. QED
  BY <1>2, <1>3 DEF RCStore, Goto


\* A step that keeps the call crediting and its locals keeps its share, and
\* one that returns drops it; deduct and chequebook steps change no money.
LEMMA KeepOrDrop ==
  ASSUME IInv, CInv, NEW w \in Workers, pc[w] \in Credits,
         UNCHANGED << credited, deducted, paidIn >>,
         \/ /\ \E to \in Credits : pc' = [pc EXCEPT ![w] = to]
            /\ UNCHANGED loc
         \/ Return(w)
  PROVE  OthersKeep(w) /\ loc'[w].received <= loc'[w].val /\ StepPaid(w)
<1>1. /\ loc[w] \in Locals /\ loc[w].received <= loc[w].val
      /\ Share(pc, loc, loc[w].peer, w) \in Nat
  BY ShareBound DEF IInv, TypeOK, CInv, ReceivedBound, CreditInv
<1>2. \A q \in Peers : Share(pc, loc, q, w) \in Nat
  BY ShareBound DEF IInv, TypeOK, CInv, ReceivedBound, CreditInv
<1>3. \A q \in Peers : credited[q] \in Nat /\ deducted[q] \in Nat /\ paidIn[q] \in Nat
  BY DEF IInv, TypeOK
<1>4. OthersKeep(w)
  BY DEF OthersKeep, Return, IInv, TypeOK
<1>5. loc'[w].received <= loc'[w].val
  BY <1>1 DEF Return, NoCall, IInv, TypeOK
<1>6. \A q \in Peers : Share(pc', loc', q, w) <= Share(pc, loc, q, w)
  <2> SUFFICES ASSUME NEW q \in Peers
               PROVE  Share(pc', loc', q, w) <= Share(pc, loc, q, w)
    OBVIOUS
  <2>1. CASE \E to \in Credits : pc' = [pc EXCEPT ![w] = to] /\ UNCHANGED loc
    <3>1. Share(pc', loc', q, w) = Share(pc, loc, q, w)
      BY <2>1 DEF Share, IInv, TypeOK
    <3>2. QED
      BY <1>2, <3>1
  <2>2. CASE Return(w)
    <3>1. Share(pc', loc', q, w) = 0
      BY <2>2 DEF Return, Share, IInv, TypeOK, Credits
    <3>2. QED
      BY <1>2, <3>1
  <2>3. QED
    BY <2>1, <2>2
<1>7. StepPaid(w)
  <2> SUFFICES ASSUME NEW q \in Peers
               PROVE  credited'[q] * ExchangeRate + deducted'[q]
                        + Share(pc', loc', q, w) + paidIn[q]
                      <= credited[q] * ExchangeRate + deducted[q]
                        + Share(pc, loc, q, w) + paidIn'[q]
    BY DEF StepPaid
  <2>1. Share(pc', loc', q, w) \in Nat
    <3>1. CASE \E to \in Credits : pc' = [pc EXCEPT ![w] = to] /\ UNCHANGED loc
      BY <1>2, <3>1 DEF Share, IInv, TypeOK
    <3>2. CASE Return(w)
      BY <3>2 DEF Return, Share, IInv, TypeOK, Credits
    <3>3. QED
      BY <3>1, <3>2
  <2>2. QED
    BY <1>2, <1>3, <1>6, <2>1, RateAssumption
<1>8. QED
  BY <1>4, <1>5, <1>7

\* The deduction and the chequebook steps of ReceiveCheque.
LEMMA RCDeductPaid ==
  ASSUME IInv, CInv, NEW w \in Workers, RCDeduct(w) \/ RCPutChequebook(w)
  PROVE  OthersKeep(w) /\ loc'[w].received <= loc'[w].val /\ StepPaid(w)
<1>1. pc[w] \in Credits /\ UNCHANGED << credited, deducted, paidIn >>
  BY DEF RCDeduct, RCPutChequebook, history, Credits
<1>2. \/ /\ \E to \in Credits : pc' = [pc EXCEPT ![w] = to]
         /\ UNCHANGED loc
      \/ Return(w)
  BY DEF RCDeduct, RCPutChequebook, Goto, Credits
<1>3. QED
  BY <1>1, <1>2, KeepOrDrop

\* Integer division by the rate never credits more than was received.
LEMMA DivMul ==
  ASSUME NEW x \in Nat, NEW r \in Nat \ {0}
  PROVE  (x \div r) * r <= x /\ x \div r \in Nat
BY SMTT(20)

\* The notification credits (received - ded) \div ExchangeRate units, whose
\* value in the rate is at most what the call owed, and the call returns.
LEMMA RCNotifyPaid ==
  ASSUME IInv, CInv, NEW w \in Workers, RCNotify(w)
  PROVE  OthersKeep(w) /\ loc'[w].received <= loc'[w].val /\ StepPaid(w)
<1> DEFINE l == loc[w]
           a == CreditAmount(l.received, l.ded)
<1>1. /\ pc[w] = "rcNotify" /\ l \in Locals /\ l.peer \in Peers
      /\ l.received >= ExchangeRate + l.ded
      /\ UNCHANGED << deducted, paidIn >>
  BY DEF RCNotify, LocalsOK, RCStates, CreditInv, Credits, IInv, TypeOK, history
<1>2. /\ Owed(l) \in Nat /\ a \in Nat /\ a * ExchangeRate <= Owed(l)
  <2>1. l.received \in Nat /\ l.ded \in Nat
    BY <1>1, LocalsNat
  <2>2. Owed(l) \in Nat
    BY <1>1, <2>1, RateAssumption DEF Owed
  <2>3. QED
    BY <2>2, DivMul, RateAssumption DEF CreditAmount, Owed
<1>3. /\ OthersKeep(w)
      /\ loc'[w].received <= loc'[w].val
      /\ \A q \in Peers : Share(pc', loc', q, w) = 0
  BY DEF RCNotify, Return, OthersKeep, NoCall, Share, IInv, TypeOK, Credits
<1>4. StepPaid(w)
  <2> SUFFICES ASSUME NEW q \in Peers
               PROVE  credited'[q] * ExchangeRate + deducted'[q]
                        + Share(pc', loc', q, w) + paidIn[q]
                      <= credited[q] * ExchangeRate + deducted[q]
                        + Share(pc, loc, q, w) + paidIn'[q]
    BY DEF StepPaid
  <2>1. credited[q] \in Nat /\ deducted[q] \in Nat /\ paidIn[q] \in Nat
    BY DEF IInv, TypeOK
  <2>2. CASE q = l.peer
    <3>1. credited'[q] = credited[q] + a /\ Share(pc, loc, q, w) = Owed(l)
      BY <1>1, <2>2 DEF RCNotify, Share, Credits, IInv, TypeOK
    <3>2. credited'[q] * ExchangeRate = credited[q] * ExchangeRate + a * ExchangeRate
      BY <1>2, <2>1, <3>1, RateAssumption
    <3>3. QED
      BY <1>1, <1>2, <1>3, <2>1, <3>1, <3>2, RateAssumption
  <2>3. CASE q # l.peer
    <3>1. credited'[q] = credited[q] /\ Share(pc, loc, q, w) = 0
      BY <1>1, <2>3 DEF RCNotify, Share, IInv, TypeOK
    <3>2. QED
      BY <1>1, <1>3, <2>1, <3>1, RateAssumption
  <2>4. QED
    BY <2>2, <2>3
<1>5. QED
  BY <1>3, <1>4


-----------------------------------------------------------------------------
(***************************************************************************)
(* The invariant holds initially and is kept by every step.                *)
(***************************************************************************)

\* Initially no call is running and nothing was paid in or credited.
LEMMA InitCInv == Init => CInv
<1> SUFFICES ASSUME Init PROVE CInv
  OBVIOUS
<1>1. ReceivedBound
  BY DEF Init, ReceivedBound, NoCall
<1>2. \A p \in Peers : OwedUnits(pc, loc, p) = {}
  BY DEF Init, OwedUnits, Credits
<1>3. Covered
  <2> SUFFICES ASSUME NEW p \in Peers
               PROVE  credited[p] * ExchangeRate + deducted[p]
                        + Cardinality(OwedUnits(pc, loc, p)) <= paidIn[p]
    BY DEF Covered
  <2>1. Cardinality(OwedUnits(pc, loc, p)) = 0
    BY <1>2, FS_EmptySet
  <2>2. QED
    BY <2>1, RateAssumption DEF Init
<1>4. QED
  BY <1>1, <1>3 DEF CInv

\* Every step of the service keeps the owed-units invariant.
LEMMA NextCInv == IInv /\ CInv /\ [Next]_vars => CInv'
<1> SUFFICES ASSUME IInv, CInv, [Next]_vars PROVE CInv'
  OBVIOUS
<1>0. IInv'
  BY NextIInv
<1>1. ASSUME NEW w \in Workers, NEW p \in Peers, NEW c \in Chequebooks,
             NEW v \in Payouts \ {0}, NEW d \in Deductions, RCBegin(w, p, c, v, d)
      PROVE  CInv'
  BY <1>0, <1>1, RCBeginQuiet, WorkerStep
<1>2. ASSUME NEW w \in Workers, NEW p \in Peers, NEW a \in Amounts, PayBegin(w, p, a)
      PROVE  CInv'
  BY <1>0, <1>2, PayBeginQuiet, WorkerStep
<1>3. ASSUME NEW w \in Workers, NEW p \in Peers, NEW b \in Beneficiaries,
             HSBegin(w, p, b)
      PROVE  CInv'
  BY <1>0, <1>3, HSBeginQuiet, WorkerStep
<1>4. ASSUME NEW w \in Workers,
             \/ RCStore(w) \/ RCDeduct(w) \/ RCPutChequebook(w) \/ RCNotify(w)
             \/ PayEmit(w) \/ HSMigrate(w) \/ HSReadPeer(w) \/ HSPut(w)
      PROVE  CInv'
  <2>1. OthersKeep(w) /\ loc'[w].received <= loc'[w].val /\ StepPaid(w)
    BY <1>4, RCStorePaid, RCDeductPaid, RCNotifyPaid, PayHSQuiet
  <2>2. QED
    BY <1>0, <2>1, WorkerStep
<1>5. CASE Terminating \/ UNCHANGED vars
  <2>1. UNCHANGED << pc, loc, credited, deducted, paidIn >>
    BY <1>5 DEF Terminating, vars
  <2>2. QED
    BY <2>1 DEF CInv, ReceivedBound, Covered
<1>6. QED
  BY <1>1, <1>2, <1>3, <1>4, <1>5 DEF Next

\* The strengthened invariant holds in every state of every behaviour.
LEMMA AlwaysCInv == Spec => [](IInv /\ CInv)
<1>1. Init => IInv /\ CInv
  BY InitIInv, InitCInv
<1>2. IInv /\ CInv /\ [Next]_vars => (IInv /\ CInv)'
  BY NextIInv, NextCInv
<1>3. QED
  BY <1>1, <1>2, PTL DEF Spec

\* ReceiveCheque never credits a peer more than it paid: for every peer,
\* the credited units at the exchange rate plus the deductions kept stay
\* within the cheque value received, however the concurrent ReceiveCheque
\* calls interleave, for every value of the constants.
THEOREM NoOverCreditHolds == Spec => []NoOverCredit
<1>1. IInv /\ CInv => NoOverCredit
  <2> SUFFICES ASSUME IInv, CInv, NEW p \in Peers
               PROVE  credited[p] * ExchangeRate + deducted[p] <= paidIn[p]
    BY DEF NoOverCredit
  <2>1. Cardinality(OwedUnits(pc, loc, p)) \in Nat
    BY UnitsFinite, FS_CardinalityType
  <2>2. credited[p] \in Nat /\ deducted[p] \in Nat /\ paidIn[p] \in Nat
    BY DEF IInv, TypeOK
  <2>3. credited[p] * ExchangeRate + deducted[p] + Cardinality(OwedUnits(pc, loc, p))
          <= paidIn[p]
    BY DEF CInv, Covered
  <2>4. QED
    BY <2>1, <2>2, <2>3, RateAssumption
<1>2. QED
  BY <1>1, AlwaysCInv, PTL

=============================================================================
