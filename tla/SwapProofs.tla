----------------------------- MODULE SwapProofs -----------------------------
(***************************************************************************)
(* Proofs about the swap settlement model, for every value of the          *)
(* constants that satisfies the assumptions of module Swap.                *)
(*                                                                         *)
(* TypeOK alone is not inductive: a call in flight indexes the cheque      *)
(* store and the addressbook with the peer, chequebook and beneficiary it  *)
(* holds in its locals, and RCNotify credits (received - ded) \div rate,   *)
(* which is a natural number only because the cheque store accepted the    *)
(* cheque with an increment of at least rate + ded.  The inductive         *)
(* invariant IInv adds those facts about the calls in flight.              *)
(***************************************************************************)
EXTENDS Swap, TLAPS

RCStates == {"rcStore", "rcDeduct", "rcPutChequebook", "rcNotify"}
Credits == {"rcDeduct", "rcPutChequebook", "rcNotify"}

\* A call in flight holds the peer, chequebook, beneficiary and old peer
\* its next step indexes the state with.
LocalsOK ==
  \A w \in Workers :
    /\ pc[w] # "idle" => loc[w].peer \in Peers
    /\ pc[w] \in RCStates => loc[w].cb \in Chequebooks
    /\ pc[w] \in {"payEmit", "hsMigrate", "hsReadPeer", "hsPut"}
         => loc[w].bene \in Beneficiaries
    /\ pc[w] = "hsMigrate" => loc[w].old \in Peers

\* A ReceiveCheque call past the cheque store holds an increment that covers
\* the exchange rate plus its deduction (the ErrChequeValueTooLow check).
CreditInv ==
  \A w \in Workers :
    pc[w] \in Credits => loc[w].received >= ExchangeRate + loc[w].ded

\* A Pay call waiting to emit its cheque has not notified the accounting
\* yet, and a worker in another handler's call is not in a Pay call.
PayInv ==
  \A w \in Workers :
    /\ pc[w] \notin {"idle", "payEmit"} => op[w] # "pay"
    /\ pc[w] = "payEmit" => op[w] = "pay" /\ notices[w] = 0
    /\ pc[w] = "idle" /\ op[w] = "pay" => notices[w] = 1

IInv == TypeOK /\ LocalsOK /\ CreditInv /\ PayInv

\* Integer division by the exchange rate of an amount of at least the rate
\* gives at least one unit.
LEMMA DivAtLeastOne ==
  ASSUME NEW x \in Nat, NEW r \in Nat \ {0}, x >= r
  PROVE  x \div r \in Nat /\ x \div r >= 1
  BY SMTT(30)

\* The locals of an idle worker form a record of Locals.
LEMMA NoCallType == NoCall \in Locals
  BY PayoutAssumption DEF NoCall, Locals, Payouts

\* The initial state satisfies the inductive invariant.
LEMMA InitIInv == Init => IInv
  <1> SUFFICES ASSUME Init PROVE IInv
    OBVIOUS
  <1>1. TypeOK
    BY NoCallType, PayoutAssumption, CallsAssumption
    DEF Init, TypeOK, Payouts, PCs
  <1>2. LocalsOK /\ CreditInv /\ PayInv
    BY DEF Init, LocalsOK, CreditInv, PayInv, RCStates, Credits
  <1>3. QED
    BY <1>1, <1>2 DEF IInv

\* ReceiveCheque's entry, on each of its paths, preserves the invariant.
LEMMA RCBeginIInv ==
  ASSUME IInv, NEW w \in Workers, NEW p \in Peers, NEW c \in Chequebooks,
         NEW v \in Payouts \ {0}, NEW d \in Deductions, RCBegin(w, p, c, v, d)
  PROVE  IInv'
  <1> USE DEF IInv, TypeOK, Begin, Goto, book, history
  <1>1. calls' \in 0..MaxCalls /\ op' \in [Workers -> {"none", "rc", "pay", "hs"}]
    BY CallsAssumption DEF RCBegin
  <1>2. CASE UNCHANGED << pc, loc >>
    BY <1>1, <1>2 DEF RCBegin, LocalsOK, CreditInv, PayInv
  <1>3. CASE /\ pc' = [pc EXCEPT ![w] = "rcStore"]
             /\ loc' = [loc EXCEPT ![w] = [NoCall EXCEPT
                          !.peer = p, !.cb = c, !.val = v, !.ded = d,
                          !.known = (peerChequebook[p] # None)]]
    <2> DEFINE r == [NoCall EXCEPT !.peer = p, !.cb = c, !.val = v, !.ded = d,
                                   !.known = (peerChequebook[p] # None)]
    <2>1. r \in Locals /\ r.peer = p /\ r.cb = c
      BY NoCallType DEF Locals, NoCall
    <2>2. TypeOK'
      BY <1>1, <1>3, <2>1 DEF RCBegin, PCs
    <2>3. LocalsOK'
      BY <1>3, <2>1 DEF RCBegin, LocalsOK, RCStates
    <2>4. CreditInv' /\ PayInv'
      BY <1>3, <1>1 DEF RCBegin, CreditInv, PayInv, Credits
    <2>5. QED
      BY <2>2, <2>3, <2>4
  <1>4. QED
    BY <1>2, <1>3 DEF RCBegin

\* The cheque store's step preserves the invariant: an accepted cheque's
\* increment is a natural number of at least rate + deduction.
LEMMA RCStoreIInv ==
  ASSUME IInv, NEW w \in Workers, RCStore(w)
  PROVE  IInv'
  <1> USE DEF IInv, TypeOK, Goto, Return
  <1> DEFINE l == loc[w]
             inc == l.val - lastReceived[l.cb]
             to == IF l.ded > 0 THEN "rcDeduct"
                   ELSE IF ~l.known THEN "rcPutChequebook" ELSE "rcNotify"
  <1>1. pc[w] = "rcStore" /\ l \in Locals /\ l.cb \in Chequebooks /\ l.peer \in Peers
    BY DEF RCStore, LocalsOK, RCStates
  <1>2. CASE /\ l.val >= lastReceived[l.cb] + ExchangeRate + l.ded
             /\ lastReceived' = [lastReceived EXCEPT ![l.cb] = l.val]
             /\ loc' = [loc EXCEPT ![w].received = inc]
             /\ pc' = [pc EXCEPT ![w] = to]
             /\ paidIn' = [paidIn EXCEPT ![l.peer] = @ + inc]
             /\ deducted' = [deducted EXCEPT ![l.peer] = @ + l.ded]
             /\ accepted' = [accepted EXCEPT ![l.peer] = @ + 1]
    <2>1. inc \in Nat /\ inc >= ExchangeRate + l.ded /\ l.ded \in Nat
      BY <1>1, <1>2, RateAssumption, DeductionsAssumption DEF Locals, Payouts
    <2>2. to \in Credits
      BY DEF Credits
    <2>3. loc'[w] \in Locals /\ loc'[w].received = inc
          /\ loc'[w].ded = l.ded /\ loc'[w].peer = l.peer /\ loc'[w].cb = l.cb
      BY <1>1, <1>2, <2>1 DEF Locals
    <2>4. lastReceived' \in [Chequebooks -> Payouts]
      BY <1>1, <1>2 DEF Locals
    <2>5. /\ paidIn' \in [Peers -> Nat] /\ deducted' \in [Peers -> Nat]
          /\ accepted' \in [Peers -> Nat]
      BY <1>1, <1>2, <2>1
    <2>6. pc' \in [Workers -> PCs] /\ loc' \in [Workers -> Locals]
      BY <1>2, <2>2, <2>3 DEF PCs, Credits
    <2>7. TypeOK'
      BY <2>4, <2>5, <2>6 DEF RCStore, book
    <2>8. LocalsOK'
      BY <1>1, <1>2, <2>2, <2>3 DEF RCStore, LocalsOK, RCStates, Credits
    <2>9. CreditInv'
      BY <1>2, <2>1, <2>2, <2>3 DEF RCStore, CreditInv
    <2>10. PayInv'
      BY <1>1, <1>2, <2>2 DEF RCStore, PayInv, Credits
    <2>11. QED
      BY <2>7, <2>8, <2>9, <2>10
  <1>3. CASE /\ pc' = [pc EXCEPT ![w] = "idle"]
             /\ loc' = [loc EXCEPT ![w] = NoCall]
             /\ UNCHANGED << lastReceived, paidIn, deducted, accepted >>
    <2>1. NoCall.received = 0 /\ NoCall.ded = 0
      BY DEF NoCall
    <2>2. TypeOK'
      BY <1>3, NoCallType DEF RCStore, book, PCs
    <2>3. LocalsOK'
      BY <1>3 DEF LocalsOK, RCStates
    <2>4. CreditInv'
      BY <1>3 DEF CreditInv, Credits
    <2>5. PayInv'
      BY <1>3, <1>1 DEF RCStore, PayInv
    <2>6. QED
      BY <2>2, <2>3, <2>4, <2>5
  <1>4. QED
    BY <1>2, <1>3 DEF RCStore

\* A call that returns leaves every other worker's call as it was.
LEMMA ReturnIInv ==
  ASSUME IInv, NEW w \in Workers, pc[w] # "idle", pc[w] # "payEmit",
         pc' = [pc EXCEPT ![w] = "idle"], loc' = [loc EXCEPT ![w] = NoCall],
         UNCHANGED << op, notices >>
  PROVE  /\ pc' \in [Workers -> PCs] /\ loc' \in [Workers -> Locals]
         /\ LocalsOK' /\ CreditInv' /\ PayInv'
  BY NoCallType DEF IInv, TypeOK, PCs, LocalsOK, CreditInv, PayInv, RCStates, Credits

\* AddDeductionFor, and its failure, preserve the invariant.
LEMMA RCDeductIInv ==
  ASSUME IInv, NEW w \in Workers, RCDeduct(w)
  PROVE  IInv'
  <1> USE DEF IInv, TypeOK, Goto, Return
  <1>1. pc[w] = "rcDeduct" /\ loc[w].peer \in Peers
    BY DEF RCDeduct, LocalsOK
  <1>2. CASE /\ deductionFor' = [deductionFor EXCEPT ![loc[w].peer] = TRUE]
             /\ pc' = [pc EXCEPT ![w] = IF ~loc[w].known THEN "rcPutChequebook"
                                                        ELSE "rcNotify"]
             /\ UNCHANGED loc
    BY <1>1, <1>2 DEF RCDeduct, history, PCs, LocalsOK, CreditInv, PayInv,
                      RCStates, Credits
  <1>3. CASE pc' = [pc EXCEPT ![w] = "idle"] /\ loc' = [loc EXCEPT ![w] = NoCall]
             /\ UNCHANGED deductionFor
    BY <1>1, <1>3, ReturnIInv DEF RCDeduct, history
  <1>4. QED
    BY <1>2, <1>3 DEF RCDeduct

\* PutChequebook, and its failure, preserve the invariant.
LEMMA RCPutChequebookIInv ==
  ASSUME IInv, NEW w \in Workers, RCPutChequebook(w)
  PROVE  IInv'
  <1> USE DEF IInv, TypeOK, Goto, Return
  <1>1. pc[w] = "rcPutChequebook" /\ loc[w].peer \in Peers /\ loc[w].cb \in Chequebooks
    BY DEF RCPutChequebook, LocalsOK, RCStates
  <1>2. CASE /\ peerChequebook' = [peerChequebook EXCEPT ![loc[w].peer] = loc[w].cb]
             /\ chequebookPeer' = [chequebookPeer EXCEPT ![loc[w].cb] = loc[w].peer]
             /\ pc' = [pc EXCEPT ![w] = "rcNotify"]
             /\ UNCHANGED loc
    BY <1>1, <1>2 DEF RCPutChequebook, history, PCs, LocalsOK, CreditInv, PayInv,
                      RCStates, Credits
  <1>3. CASE pc' = [pc EXCEPT ![w] = "idle"] /\ loc' = [loc EXCEPT ![w] = NoCall]
             /\ UNCHANGED << peerChequebook, chequebookPeer >>
    BY <1>1, <1>3, ReturnIInv DEF RCPutChequebook, history
  <1>4. QED
    BY <1>2, <1>3 DEF RCPutChequebook

\* The counters a call holds in its locals are natural numbers.
LEMMA LocalsNat ==
  ASSUME NEW r \in Locals
  PROVE  r.received \in Nat /\ r.ded \in Nat /\ r.val \in Nat /\ r.amount \in Nat
  <1>1. r.received \in Nat
    BY DEF Locals
  <1>2. r.ded \in Nat
    <2>1. r.ded \in Deductions \cup {0}
      BY DEF Locals
    <2>2. \A x \in Deductions \cup {0} : x \in Nat
      BY DeductionsAssumption
    <2>3. QED
      BY <2>1, <2>2
  <1>3. r.val \in Nat
    BY PayoutAssumption DEF Locals, Payouts
  <1>4. r.amount \in Nat
    BY DEF Locals
  <1>5. QED
    BY <1>1, <1>2, <1>3, <1>4

\* The credit RCNotify passes to the accounting is a positive natural number.
LEMMA CreditPositive ==
  ASSUME IInv, NEW w \in Workers, pc[w] = "rcNotify"
  PROVE  CreditAmount(loc[w].received, loc[w].ded) \in Nat
         /\ CreditAmount(loc[w].received, loc[w].ded) >= 1
  <1>1. loc[w] \in Locals /\ loc[w].received >= ExchangeRate + loc[w].ded
    BY DEF IInv, TypeOK, CreditInv, Credits
  <1>2. loc[w].received \in Nat /\ loc[w].ded \in Nat
    BY <1>1, LocalsNat
  <1>3. loc[w].received - loc[w].ded \in Nat
        /\ loc[w].received - loc[w].ded >= ExchangeRate
    BY <1>1, <1>2, RateAssumption
  <1>4. QED
    BY <1>3, RateAssumption, DivAtLeastOne DEF CreditAmount

\* NotifyPaymentReceived and the return preserve the invariant.
LEMMA RCNotifyIInv ==
  ASSUME IInv, NEW w \in Workers, RCNotify(w)
  PROVE  IInv'
  <1> USE DEF IInv, TypeOK, Return
  <1>1. pc[w] = "rcNotify" /\ loc[w].peer \in Peers
    BY DEF RCNotify, LocalsOK
  <1>2. credited' \in [Peers -> Nat] /\ creditNotices' \in [Peers -> Nat]
    BY <1>1, CreditPositive DEF RCNotify
  <1>3. QED
    BY <1>1, <1>2, ReturnIInv DEF RCNotify, book

\* Pay's entry, on each of its paths, preserves the invariant: the paths that
\* return at once have notified the accounting once.
LEMMA PayBeginIInv ==
  ASSUME IInv, NEW w \in Workers, NEW p \in Peers, NEW a \in Amounts,
         PayBegin(w, p, a)
  PROVE  IInv'
  <1> USE DEF IInv, TypeOK, Begin, Goto, book, history
  <1>1. /\ pc[w] = "idle" /\ op' = [op EXCEPT ![w] = "pay"]
        /\ calls' \in 0..MaxCalls
    BY CallsAssumption DEF PayBegin
  <1>2. CASE notices' = [notices EXCEPT ![w] = 1] /\ UNCHANGED << pc, loc >>
    BY <1>1, <1>2 DEF PayBegin, LocalsOK, CreditInv, PayInv
  <1>3. CASE /\ peerBeneficiary[p] # None
             /\ notices' = [notices EXCEPT ![w] = 0]
             /\ pc' = [pc EXCEPT ![w] = "payEmit"]
             /\ loc' = [loc EXCEPT ![w] = [NoCall EXCEPT
                          !.peer = p, !.bene = peerBeneficiary[p], !.amount = a]]
    <2> DEFINE r == [NoCall EXCEPT !.peer = p, !.bene = peerBeneficiary[p],
                                   !.amount = a]
    <2>1. a \in Nat
      BY AmountsAssumption
    <2>2. r \in Locals /\ r.peer = p /\ r.bene \in Beneficiaries
      BY <2>1, <1>3, NoCallType DEF Locals, NoCall
    <2>3. TypeOK'
      BY <1>1, <1>3, <2>2 DEF PayBegin, PCs
    <2>4. LocalsOK' /\ CreditInv' /\ PayInv'
      BY <1>1, <1>3, <2>2 DEF PayBegin, LocalsOK, CreditInv, PayInv,
                              RCStates, Credits
    <2>5. QED
      BY <2>3, <2>4
  <1>4. QED
    BY <1>2, <1>3 DEF PayBegin

\* Emitting the cheque, or failing to, preserves the invariant: the one
\* notification of the call is made as it returns.
LEMMA PayEmitIInv ==
  ASSUME IInv, NEW w \in Workers, PayEmit(w)
  PROVE  IInv'
  <1> USE DEF IInv, TypeOK, Return
  <1>1. pc[w] = "payEmit" /\ notices[w] = 0 /\ loc[w] \in Locals
        /\ loc[w].bene \in Beneficiaries
    BY DEF PayEmit, PayInv, LocalsOK
  <1>2. loc[w].amount \in Nat
    BY <1>1, LocalsNat
  <1>3. lastIssued' \in [Beneficiaries -> Nat]
    BY <1>1, <1>2 DEF PayEmit
  <1>4. notices' \in [Workers -> Nat] /\ notices'[w] = 1
    BY <1>1 DEF PayEmit
  <1>5. pc' \in [Workers -> PCs] /\ loc' \in [Workers -> Locals]
    BY NoCallType DEF PayEmit, PCs
  <1>6. TypeOK'
    BY <1>3, <1>4, <1>5 DEF PayEmit, book, history
  <1>7. LocalsOK' /\ CreditInv'
    BY DEF PayEmit, LocalsOK, CreditInv, Credits, RCStates
  <1>8. PayInv'
    BY <1>4 DEF PayEmit, PayInv
  <1>9. QED
    BY <1>6, <1>7, <1>8

\* Handshake's entry, on each of its paths, preserves the invariant.
LEMMA HSBeginIInv ==
  ASSUME IInv, NEW w \in Workers, NEW p \in Peers, NEW b \in Beneficiaries,
         HSBegin(w, p, b)
  PROVE  IInv'
  <1> USE DEF IInv, TypeOK, Begin, Goto, book, history
  <1>1. /\ pc[w] = "idle" /\ op' = [op EXCEPT ![w] = "hs"]
        /\ calls' \in 0..MaxCalls
    BY CallsAssumption DEF HSBegin
  <1>2. CASE UNCHANGED << pc, loc >>
    BY <1>1, <1>2 DEF HSBegin, LocalsOK, CreditInv, PayInv
  <1>3. CASE /\ beneficiaryPeer[b] # None
             /\ pc' = [pc EXCEPT ![w] = "hsMigrate"]
             /\ loc' = [loc EXCEPT ![w] = [NoCall EXCEPT
                          !.peer = p, !.bene = b, !.old = beneficiaryPeer[b]]]
    <2> DEFINE r == [NoCall EXCEPT !.peer = p, !.bene = b,
                                   !.old = beneficiaryPeer[b]]
    <2>1. r \in Locals /\ r.peer = p /\ r.bene = b /\ r.old \in Peers
      BY <1>3, NoCallType DEF Locals, NoCall
    <2>2. QED
      BY <1>1, <1>3, <2>1 DEF HSBegin, PCs, LocalsOK, CreditInv, PayInv,
                              RCStates, Credits
  <1>4. CASE /\ pc' = [pc EXCEPT ![w] = "hsReadPeer"]
             /\ loc' = [loc EXCEPT ![w] = [NoCall EXCEPT !.peer = p, !.bene = b]]
    <2> DEFINE r == [NoCall EXCEPT !.peer = p, !.bene = b]
    <2>1. r \in Locals /\ r.peer = p /\ r.bene = b
      BY NoCallType DEF Locals, NoCall
    <2>2. QED
      BY <1>1, <1>4, <2>1 DEF HSBegin, PCs, LocalsOK, CreditInv, PayInv,
                              RCStates, Credits
  <1>5. QED
    BY <1>2, <1>3, <1>4 DEF HSBegin

\* MigratePeer, successful or not, and the return preserve the invariant.
LEMMA HSMigrateIInv ==
  ASSUME IInv, NEW w \in Workers, HSMigrate(w)
  PROVE  IInv'
  <1> USE DEF IInv, TypeOK
  <1> DEFINE l == loc[w]
             ba == peerBeneficiary[l.old]
             cb == peerChequebook[l.old]
  <1>1. pc[w] = "hsMigrate" /\ l.peer \in Peers /\ l.old \in Peers
    BY DEF HSMigrate, LocalsOK
  <1>2. ba \in Beneficiaries \cup {None} /\ cb \in Chequebooks \cup {None}
    BY <1>1
  <1>3. /\ peerBeneficiary' \in [Peers -> Beneficiaries \cup {None}]
        /\ beneficiaryPeer' \in [Beneficiaries -> Peers \cup {None}]
    BY <1>1, <1>2 DEF HSMigrate
  <1>4. /\ peerChequebook' \in [Peers -> Chequebooks \cup {None}]
        /\ chequebookPeer' \in [Chequebooks -> Peers \cup {None}]
    BY <1>1, <1>2 DEF HSMigrate
  <1>5. /\ pc' \in [Workers -> PCs] /\ loc' \in [Workers -> Locals]
        /\ LocalsOK' /\ CreditInv' /\ PayInv'
    BY <1>1, ReturnIInv DEF HSMigrate, Return
  <1>6. QED
    BY <1>3, <1>4, <1>5 DEF HSMigrate, history

\* Reading the peer's beneficiary preserves the invariant.
LEMMA HSReadPeerIInv ==
  ASSUME IInv, NEW w \in Workers, HSReadPeer(w)
  PROVE  IInv'
  <1> USE DEF IInv, TypeOK
  <1>1. pc[w] = "hsReadPeer"
    BY DEF HSReadPeer
  <1>2. CASE pc' = [pc EXCEPT ![w] = "hsPut"] /\ UNCHANGED loc
    BY <1>1, <1>2 DEF HSReadPeer, book, history, PCs, LocalsOK, CreditInv,
                      PayInv, RCStates, Credits
  <1>3. CASE Return(w)
    BY <1>1, <1>3, ReturnIInv DEF HSReadPeer, Return, book, history
  <1>4. QED
    BY <1>2, <1>3 DEF HSReadPeer, Goto

\* PutBeneficiary, successful or not, and the return preserve the invariant.
LEMMA HSPutIInv ==
  ASSUME IInv, NEW w \in Workers, HSPut(w)
  PROVE  IInv'
  <1> USE DEF IInv, TypeOK
  <1>1. pc[w] = "hsPut" /\ loc[w].peer \in Peers /\ loc[w].bene \in Beneficiaries
    BY DEF HSPut, LocalsOK
  <1>2. /\ peerBeneficiary' \in [Peers -> Beneficiaries \cup {None}]
        /\ beneficiaryPeer' \in [Beneficiaries -> Peers \cup {None}]
    BY <1>1 DEF HSPut
  <1>3. /\ pc' \in [Workers -> PCs] /\ loc' \in [Workers -> Locals]
        /\ LocalsOK' /\ CreditInv' /\ PayInv'
    BY <1>1, ReturnIInv DEF HSPut, Return
  <1>4. QED
    BY <1>2, <1>3 DEF HSPut, history

\* Every step of the specification, and every stutter, preserves IInv.
LEMMA NextIInv == IInv /\ [Next]_vars => IInv'
  <1> SUFFICES ASSUME IInv, [Next]_vars PROVE IInv'
    OBVIOUS
  <1>1. ASSUME NEW w \in Workers, NEW p \in Peers, NEW c \in Chequebooks,
               NEW v \in Payouts \ {0}, NEW d \in Deductions, RCBegin(w, p, c, v, d)
        PROVE  IInv'
    BY <1>1, RCBeginIInv
  <1>2. ASSUME NEW w \in Workers, NEW p \in Peers, NEW a \in Amounts, PayBegin(w, p, a)
        PROVE  IInv'
    BY <1>2, PayBeginIInv
  <1>3. ASSUME NEW w \in Workers, NEW p \in Peers, NEW b \in Beneficiaries,
               HSBegin(w, p, b)
        PROVE  IInv'
    BY <1>3, HSBeginIInv
  <1>4. ASSUME NEW w \in Workers,
               \/ RCStore(w) \/ RCDeduct(w) \/ RCPutChequebook(w) \/ RCNotify(w)
               \/ PayEmit(w) \/ HSMigrate(w) \/ HSReadPeer(w) \/ HSPut(w)
        PROVE  IInv'
    BY <1>4, RCStoreIInv, RCDeductIInv, RCPutChequebookIInv, RCNotifyIInv,
       PayEmitIInv, HSMigrateIInv, HSReadPeerIInv, HSPutIInv
  <1>5. CASE Terminating \/ UNCHANGED vars
    BY <1>5 DEF Terminating, vars, IInv, TypeOK, LocalsOK, CreditInv, PayInv,
                Payouts, PCs, Locals, RCStates, Credits
  <1>6. QED
    BY <1>1, <1>2, <1>3, <1>4, <1>5 DEF Next

\* The inductive invariant holds in every state of every behaviour.
LEMMA AlwaysIInv == Spec => []IInv
  BY InitIInv, NextIInv, PTL DEF Spec

\* Type correctness: every variable of the swap service, including the
\* locals of the concurrent ReceiveCheque, Pay and Handshake calls, keeps
\* its type, for every value of the constants.
THEOREM TypeCorrect == Spec => []TypeOK
  <1>1. IInv => TypeOK
    BY DEF IInv
  <1>2. QED
    BY <1>1, AlwaysIInv, PTL

\* Every Pay call that has returned notified the accounting exactly once
\* (the deferred NotifyPaymentSent of Pay), for every value of the constants.
THEOREM PayNotifiedOnceHolds == Spec => []PayNotifiedOnce
  <1>1. IInv => PayNotifiedOnce
    BY DEF IInv, PayInv, PayNotifiedOnce
  <1>2. QED
    BY <1>1, AlwaysIInv, PTL

\* The step property behind CreditCoversCheque: only RCNotify changes the
\* notification count, and it credits at least one unit.
LEMMA StepCreditCovers ==
  ASSUME IInv, [Next]_vars
  PROVE  \A p \in Peers :
           creditNotices'[p] # creditNotices[p] => credited'[p] >= credited[p] + 1
  <1> SUFFICES ASSUME NEW p \in Peers, creditNotices'[p] # creditNotices[p]
               PROVE  credited'[p] >= credited[p] + 1
    OBVIOUS
  <1>1. PICK w \in Workers : RCNotify(w)
    BY DEF Next, vars, Terminating, history, RCBegin, PayBegin, HSBegin, RCStore,
           RCDeduct, RCPutChequebook, PayEmit, HSMigrate, HSReadPeer, HSPut
  <1>2. loc[w].peer = p
    BY <1>1 DEF RCNotify, IInv, TypeOK
  <1>3. CreditAmount(loc[w].received, loc[w].ded) \in Nat
        /\ CreditAmount(loc[w].received, loc[w].ded) >= 1
    BY <1>1, CreditPositive DEF RCNotify
  <1>4. QED
    BY <1>1, <1>2, <1>3 DEF RCNotify, IInv, TypeOK

\* Every NotifyPaymentReceived that ReceiveCheque makes credits at least one
\* accounting unit, for every exchange rate, deduction and number of calls.
THEOREM CreditCoversChequeHolds == Spec => CreditCoversCheque
  <1>1. IInv /\ [Next]_vars => [\A p \in Peers :
           creditNotices'[p] # creditNotices[p] => credited'[p] >= credited[p] + 1]_vars
    BY StepCreditCovers
  <1>2. QED
    BY <1>1, AlwaysIInv, PTL DEF Spec, CreditCoversCheque

=============================================================================
