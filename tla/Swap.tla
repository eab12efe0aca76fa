-------------------------------- MODULE Swap --------------------------------
(***************************************************************************)
(* The swap settlement service of pkg/settlement/swap (src/unnamed/        *)
(* part_005): the handlers ReceiveCheque, Pay and Handshake, as the swap   *)
(* protocol and the accounting call them from goroutines of their own, with *)
(* no lock held across a call.  Each handler is split at the calls it makes *)
(* into the swap addressbook, the cheque store and the chequebook: those    *)
(* are the points where another handler can run in between.                *)
(*                                                                         *)
(* The collaborators are kept as the state the handlers read and write:    *)
(*   - the addressbook: peer <-> beneficiary and peer <-> chequebook       *)
(*     indexes and the deduction flags, each write of which may fail;      *)
(*   - the cheque store: the cumulative payout of the last cheque received *)
(*     per chequebook (it serialises its own ReceiveCheque);               *)
(*   - the own chequebook: the cumulative payout issued per beneficiary;   *)
(*   - the accounting: what it has been credited per peer.                 *)
(***************************************************************************)
EXTENDS Naturals, FiniteSets

CONSTANTS
  Peers,          \* overlay addresses of peers
  Beneficiaries,  \* ethereum addresses peers announce in the handshake
  Chequebooks,    \* chequebook contracts cheques are drawn on
  Workers,        \* goroutines that call into the service concurrently
  None,           \* "not known" in the addressbook
  ExchangeRate,   \* the exchange rate passed to ReceiveCheque
  Deductions,     \* the deductions the swap protocol may pass
  MaxPayout,      \* largest cumulative payout a received cheque carries
  Amounts,        \* amounts the accounting asks Pay to send
  HasChequebook,  \* whether the node runs with a chequebook (s.chequebook != nil)
  MaxCalls        \* bound on the number of handler calls in a behaviour

ASSUME NoneAssumption ==
  None \notin Peers \cup Beneficiaries \cup Chequebooks
ASSUME RateAssumption == ExchangeRate \in Nat \ {0}
ASSUME DeductionsAssumption == Deductions \subseteq Nat
ASSUME PayoutAssumption == MaxPayout \in Nat
ASSUME AmountsAssumption == Amounts \subseteq Nat \ {0}
ASSUME ChequebookAssumption == HasChequebook \in BOOLEAN
ASSUME CallsAssumption == MaxCalls \in Nat
\* The service runs a finite number of goroutines at a time.
ASSUME WorkersAssumption == IsFiniteSet(Workers)

VARIABLES
  peerBeneficiary,  \* addressbook.Beneficiary(peer)
  beneficiaryPeer,  \* addressbook.BeneficiaryPeer(beneficiary)
  peerChequebook,   \* addressbook.Chequebook(peer)
  chequebookPeer,   \* addressbook.ChequebookPeer(chequebook)
  deductionFor,     \* addressbook.GetDeductionFor(peer)
  lastReceived,     \* chequeStore.LastCheque(chequebook).CumulativePayout, 0: none
  lastIssued,       \* chequebook.LastCheque(beneficiary).CumulativePayout, 0: none
  credited,         \* sum of amounts passed to accounting.NotifyPaymentReceived
  paidIn,           \* history: value of the cheques the store accepted, per peer
  deducted,         \* history: deductions of the cheques the store accepted
  accepted,         \* history: number of cheques the store accepted, per peer
  creditNotices,    \* history: number of NotifyPaymentReceived calls, per peer
  pc,               \* where each worker is in its call
  loc,              \* the local variables of each worker's call
  op,               \* the handler of the worker's current or last call
  notices,          \* NotifyPaymentSent calls made by the worker's current or last Pay
  calls             \* number of calls started

vars == << peerBeneficiary, beneficiaryPeer, peerChequebook, chequebookPeer,
           deductionFor, lastReceived, lastIssued, credited, paidIn, deducted,
           accepted, creditNotices, pc, loc, op, notices, calls >>
book == << peerBeneficiary, beneficiaryPeer, peerChequebook, chequebookPeer,
           deductionFor >>
history == << paidIn, deducted, accepted, creditNotices >>

Payouts == 0..MaxPayout

PCs == { "idle", "rcStore", "rcDeduct", "rcPutChequebook", "rcNotify",
         "payEmit", "hsMigrate", "hsReadPeer", "hsPut" }

\* The local variables of a call; an idle worker holds NoCall.
Locals ==
  [ peer: Peers \cup {None}, cb: Chequebooks \cup {None}, val: Payouts,
    ded: Deductions \cup {0}, known: BOOLEAN, received: Nat,
    bene: Beneficiaries \cup {None}, old: Peers \cup {None}, amount: Nat ]

NoCall ==
  [ peer |-> None, cb |-> None, val |-> 0, ded |-> 0, known |-> FALSE,
    received |-> 0, bene |-> None, old |-> None, amount |-> 0 ]

Init ==
  /\ peerBeneficiary = [p \in Peers |-> None]
  /\ beneficiaryPeer = [b \in Beneficiaries |-> None]
  /\ peerChequebook = [p \in Peers |-> None]
  /\ chequebookPeer = [c \in Chequebooks |-> None]
  /\ deductionFor = [p \in Peers |-> FALSE]
  /\ lastReceived = [c \in Chequebooks |-> 0]
  /\ lastIssued = [b \in Beneficiaries |-> 0]
  /\ credited = [p \in Peers |-> 0]
  /\ paidIn = [p \in Peers |-> 0]
  /\ deducted = [p \in Peers |-> 0]
  /\ accepted = [p \in Peers |-> 0]
  /\ creditNotices = [p \in Peers |-> 0]
  /\ pc = [w \in Workers |-> "idle"]
  /\ loc = [w \in Workers |-> NoCall]
  /\ op = [w \in Workers |-> "none"]
  /\ notices = [w \in Workers |-> 0]
  /\ calls = 0

\* The worker's call returns: it becomes idle again.
Return(w) ==
  /\ pc' = [pc EXCEPT ![w] = "idle"]
  /\ loc' = [loc EXCEPT ![w] = NoCall]

Goto(w, to) == pc' = [pc EXCEPT ![w] = to]

\* A call of handler o starts on an idle worker.
Begin(w, o) ==
  /\ pc[w] = "idle"
  /\ calls < MaxCalls
  /\ calls' = calls + 1
  /\ op' = [op EXCEPT ![w] = o]

-----------------------------------------------------------------------------
(***************************************************************************)
(* ReceiveCheque(peer, cheque, exchangeRate, deduction)                    *)
(***************************************************************************)

\* Mutant of CreditAmount: the deduction is not subtracted.
CreditAmountNoDeduction(received, ded) == received \div ExchangeRate

\* The amount credited for a cheque: (receivedAmount - deduction) / rate.
CreditAmount(received, ded) == (received - ded) \div ExchangeRate

\* Entry: read the peer's chequebook from the addressbook; a read error or
\* a chequebook other than the known one ends the call.
RCBegin(w, p, c, v, d) ==
  /\ Begin(w, "rc")
  /\ \/ /\ UNCHANGED << pc, loc >>
     \/ /\ peerChequebook[p] = None \/ peerChequebook[p] = c
        /\ Goto(w, "rcStore")
        /\ loc' = [loc EXCEPT ![w] = [NoCall EXCEPT
                     !.peer = p, !.cb = c, !.val = v, !.ded = d,
                     !.known = (peerChequebook[p] # None)]]
     \/ /\ peerChequebook[p] # None
        /\ peerChequebook[p] # c
        /\ UNCHANGED << pc, loc >>
  /\ UNCHANGED << book, lastReceived, lastIssued, credited, history, notices >>

\* Mutant of RCStore: no ErrChequeNotIncreasing check, a cheque is only
\* required to carry the rate plus the deduction in cumulative payout.
RCStoreNotIncreasing(w) ==
  LET l == loc[w]
      inc == l.val - lastReceived[l.cb]
  IN
  /\ pc[w] = "rcStore"
  /\ \/ /\ l.val >= ExchangeRate + l.ded
        /\ lastReceived' = [lastReceived EXCEPT ![l.cb] = l.val]
        /\ loc' = [loc EXCEPT ![w].received = inc]
        /\ Goto(w, IF l.ded > 0 THEN "rcDeduct"
                   ELSE IF ~l.known THEN "rcPutChequebook" ELSE "rcNotify")
        /\ paidIn' = [paidIn EXCEPT ![l.peer] = @ + inc]
        /\ deducted' = [deducted EXCEPT ![l.peer] = @ + l.ded]
        /\ accepted' = [accepted EXCEPT ![l.peer] = @ + 1]
     \/ /\ Return(w)
        /\ UNCHANGED << lastReceived, paidIn, deducted, accepted >>
  /\ UNCHANGED << book, lastIssued, credited, creditNotices, op, notices, calls >>

\* Mutant of RCStore: ErrChequeValueTooLow forgets the deduction.
RCStoreValueIgnoresDeduction(w) ==
  LET l == loc[w]
      inc == l.val - lastReceived[l.cb]
  IN
  /\ pc[w] = "rcStore"
  /\ \/ /\ l.val >= lastReceived[l.cb] + ExchangeRate
        /\ lastReceived' = [lastReceived EXCEPT ![l.cb] = l.val]
        /\ loc' = [loc EXCEPT ![w].received = inc]
        /\ Goto(w, IF l.ded > 0 THEN "rcDeduct"
                   ELSE IF ~l.known THEN "rcPutChequebook" ELSE "rcNotify")
        /\ paidIn' = [paidIn EXCEPT ![l.peer] = @ + inc]
        /\ deducted' = [deducted EXCEPT ![l.peer] = @ + l.ded]
        /\ accepted' = [accepted EXCEPT ![l.peer] = @ + 1]
     \/ /\ Return(w)
        /\ UNCHANGED << lastReceived, paidIn, deducted, accepted >>
  /\ UNCHANGED << book, lastIssued, credited, creditNotices, op, notices, calls >>

\* chequeStore.ReceiveCheque: accepts a cheque whose increment over the last
\* received one covers the exchange rate plus the deduction, stores it and
\* returns the increment; the on-chain checks (issuer, signature, balance)
\* may reject any cheque.
RCStore(w) ==
  LET l == loc[w]
      inc == l.val - lastReceived[l.cb]
  IN
  /\ pc[w] = "rcStore"
  /\ \/ /\ l.val >= lastReceived[l.cb] + ExchangeRate + l.ded
        /\ lastReceived' = [lastReceived EXCEPT ![l.cb] = l.val]
        /\ loc' = [loc EXCEPT ![w].received = inc]
        /\ Goto(w, IF l.ded > 0 THEN "rcDeduct"
                   ELSE IF ~l.known THEN "rcPutChequebook" ELSE "rcNotify")
        /\ paidIn' = [paidIn EXCEPT ![l.peer] = @ + inc]
        /\ deducted' = [deducted EXCEPT ![l.peer] = @ + l.ded]
        /\ accepted' = [accepted EXCEPT ![l.peer] = @ + 1]
     \/ /\ Return(w)
        /\ UNCHANGED << lastReceived, paidIn, deducted, accepted >>
  /\ UNCHANGED << book, lastIssued, credited, creditNotices, op, notices, calls >>

\* addressbook.AddDeductionFor(peer), when the deduction is positive.
RCDeduct(w) ==
  LET l == loc[w] IN
  /\ pc[w] = "rcDeduct"
  /\ \/ /\ deductionFor' = [deductionFor EXCEPT ![l.peer] = TRUE]
        /\ Goto(w, IF ~l.known THEN "rcPutChequebook" ELSE "rcNotify")
        /\ UNCHANGED loc
     \/ /\ Return(w)
        /\ UNCHANGED deductionFor
  /\ UNCHANGED << peerBeneficiary, beneficiaryPeer, peerChequebook,
                  chequebookPeer, lastReceived, lastIssued, credited, history,
                  op, notices, calls >>

\* addressbook.PutChequebook(peer, cheque.Chequebook), when the peer had none.
RCPutChequebook(w) ==
  LET l == loc[w] IN
  /\ pc[w] = "rcPutChequebook"
  /\ \/ /\ peerChequebook' = [peerChequebook EXCEPT ![l.peer] = l.cb]
        /\ chequebookPeer' = [chequebookPeer EXCEPT ![l.cb] = l.peer]
        /\ Goto(w, "rcNotify")
        /\ UNCHANGED loc
     \/ /\ Return(w)
        /\ UNCHANGED << peerChequebook, chequebookPeer >>
  /\ UNCHANGED << peerBeneficiary, beneficiaryPeer, deductionFor, lastReceived,
                  lastIssued, credited, history, op, notices, calls >>

\* accounting.NotifyPaymentReceived(peer, amount); the call returns.
RCNotify(w) ==
  LET l == loc[w] IN
  /\ pc[w] = "rcNotify"
  /\ credited' = [credited EXCEPT ![l.peer] = @ + CreditAmount(l.received, l.ded)]
  /\ creditNotices' = [creditNotices EXCEPT ![l.peer] = @ + 1]
  /\ Return(w)
  /\ UNCHANGED << book, lastReceived, lastIssued, paidIn, deducted, accepted,
                  op, notices, calls >>

-----------------------------------------------------------------------------
(***************************************************************************)
(* Pay(peer, amount): every way out notifies the accounting once, through  *)
(* the deferred NotifyPaymentSent(err) on the error paths and the explicit *)
(* NotifyPaymentSent(nil) after a cheque was emitted.                      *)
(***************************************************************************)

\* Mutant of PayBegin: the addressbook read declares a new err (shadowing the
\* one the deferred notification reads), so a read error is never reported;
\* likewise a missing chequebook returns before err is set.
PayBeginShadowedErr(w, p, a) ==
  /\ Begin(w, "pay")
  /\ \/ /\ notices' = [notices EXCEPT ![w] = 0]
        /\ UNCHANGED << pc, loc >>
     \/ /\ HasChequebook
        /\ peerBeneficiary[p] = None
        /\ notices' = [notices EXCEPT ![w] = 1]
        /\ UNCHANGED << pc, loc >>
     \/ /\ HasChequebook
        /\ peerBeneficiary[p] # None
        /\ notices' = [notices EXCEPT ![w] = 0]
        /\ Goto(w, "payEmit")
        /\ loc' = [loc EXCEPT ![w] = [NoCall EXCEPT
                     !.peer = p, !.bene = peerBeneficiary[p], !.amount = a]]
  /\ UNCHANGED << book, lastReceived, lastIssued, credited, history >>

\* Entry: no chequebook, an addressbook read error or an unknown beneficiary
\* end the call with the deferred error notification.  The first two leave
\* the same state, so they are one disjunct; without a chequebook it is the
\* only way in, and the behaviours are a subset of those with a chequebook.
PayBegin(w, p, a) ==
  /\ Begin(w, "pay")
  /\ \/ \* ErrNoChequebook when ~HasChequebook, else a Beneficiary read error
        /\ notices' = [notices EXCEPT ![w] = 1]
        /\ UNCHANGED << pc, loc >>
     \/ /\ HasChequebook
        /\ peerBeneficiary[p] = None
        /\ notices' = [notices EXCEPT ![w] = 1]
        /\ UNCHANGED << pc, loc >>
     \/ /\ HasChequebook
        /\ peerBeneficiary[p] # None
        /\ notices' = [notices EXCEPT ![w] = 0]
        /\ Goto(w, "payEmit")
        /\ loc' = [loc EXCEPT ![w] = [NoCall EXCEPT
                     !.peer = p, !.bene = peerBeneficiary[p], !.amount = a]]
  /\ UNCHANGED << book, lastReceived, lastIssued, credited, history >>

\* proto.EmitCheque with chequebook.Issue: on success the cumulative payout
\* to the beneficiary grows by the amount and the accounting is told the
\* payment was sent; on failure the deferred notification reports the error.
PayEmit(w) ==
  LET l == loc[w] IN
  /\ pc[w] = "payEmit"
  /\ \/ lastIssued' = [lastIssued EXCEPT ![l.bene] = @ + l.amount]
     \/ UNCHANGED lastIssued
  /\ notices' = [notices EXCEPT ![w] = @ + 1]
  /\ Return(w)
  /\ UNCHANGED << book, lastReceived, credited, history, op, calls >>

-----------------------------------------------------------------------------
(***************************************************************************)
(* Handshake(peer, beneficiary)                                            *)
(***************************************************************************)

\* Entry: read the peer the beneficiary is known for.  Known for another
\* peer: migrate; otherwise go on to read the peer's own beneficiary.
HSBegin(w, p, b) ==
  /\ Begin(w, "hs")
  /\ \/ UNCHANGED << pc, loc >>
     \/ /\ beneficiaryPeer[b] # None
        /\ beneficiaryPeer[b] # p
        /\ Goto(w, "hsMigrate")
        /\ loc' = [loc EXCEPT ![w] = [NoCall EXCEPT
                     !.peer = p, !.bene = b, !.old = beneficiaryPeer[b]]]
     \/ /\ beneficiaryPeer[b] \in {None, p}
        /\ Goto(w, "hsReadPeer")
        /\ loc' = [loc EXCEPT ![w] = [NoCall EXCEPT !.peer = p, !.bene = b]]
  /\ UNCHANGED << book, lastReceived, lastIssued, credited, history, notices >>

\* addressbook.MigratePeer(oldPeer, peer): the old peer's beneficiary and,
\* if it has one, its chequebook move to the new peer; it fails when the old
\* peer's beneficiary is no longer known or the store fails.
HSMigrate(w) ==
  LET l == loc[w]
      ba == peerBeneficiary[l.old]
      cb == peerChequebook[l.old]
  IN
  /\ pc[w] = "hsMigrate"
  /\ \/ /\ ba # None
        /\ peerBeneficiary' = [peerBeneficiary EXCEPT ![l.peer] = ba, ![l.old] = None]
        /\ beneficiaryPeer' = [beneficiaryPeer EXCEPT ![ba] = l.peer]
        /\ IF cb # None
             THEN /\ peerChequebook' = [peerChequebook EXCEPT ![l.peer] = cb, ![l.old] = None]
                  /\ chequebookPeer' = [chequebookPeer EXCEPT ![cb] = l.peer]
             ELSE UNCHANGED << peerChequebook, chequebookPeer >>
     \/ UNCHANGED << peerBeneficiary, beneficiaryPeer, peerChequebook, chequebookPeer >>
  /\ Return(w)
  /\ UNCHANGED << deductionFor, lastReceived, lastIssued, credited, history,
                  op, notices, calls >>

\* addressbook.Beneficiary(peer): a peer with a beneficiary keeps it.
HSReadPeer(w) ==
  /\ pc[w] = "hsReadPeer"
  /\ \/ /\ peerBeneficiary[loc[w].peer] = None
        /\ Goto(w, "hsPut")
        /\ UNCHANGED loc
     \/ Return(w)
  /\ UNCHANGED << book, lastReceived, lastIssued, credited, history, op, notices, calls >>

\* addressbook.PutBeneficiary(peer, beneficiary), writing both indexes.
HSPut(w) ==
  LET l == loc[w] IN
  /\ pc[w] = "hsPut"
  /\ \/ /\ peerBeneficiary' = [peerBeneficiary EXCEPT ![l.peer] = l.bene]
        /\ beneficiaryPeer' = [beneficiaryPeer EXCEPT ![l.bene] = l.peer]
     \/ UNCHANGED << peerBeneficiary, beneficiaryPeer >>
  /\ Return(w)
  /\ UNCHANGED << peerChequebook, chequebookPeer, deductionFor, lastReceived,
                  lastIssued, credited, history, op, notices, calls >>

-----------------------------------------------------------------------------

\* All MaxCalls calls have returned: the bounded behaviour stutters.
Terminating ==
  /\ calls = MaxCalls
  /\ \A w \in Workers : pc[w] = "idle"
  /\ UNCHANGED vars

Next ==
  \/ \E w \in Workers, p \in Peers, c \in Chequebooks, v \in Payouts \ {0},
        d \in Deductions : RCBegin(w, p, c, v, d)
  \/ \E w \in Workers, p \in Peers, a \in Amounts : PayBegin(w, p, a)
  \/ \E w \in Workers, p \in Peers, b \in Beneficiaries : HSBegin(w, p, b)
  \/ \E w \in Workers :
       \/ RCStore(w) \/ RCDeduct(w) \/ RCPutChequebook(w) \/ RCNotify(w)
       \/ PayEmit(w)
       \/ HSMigrate(w) \/ HSReadPeer(w) \/ HSPut(w)
  \/ Terminating


Spec == Init /\ [][Next]_vars


-----------------------------------------------------------------------------
(***************************************************************************)
(* Properties                                                              *)
(***************************************************************************)

TypeOK ==
  /\ peerBeneficiary \in [Peers -> Beneficiaries \cup {None}]
  /\ beneficiaryPeer \in [Beneficiaries -> Peers \cup {None}]
  /\ peerChequebook \in [Peers -> Chequebooks \cup {None}]
  /\ chequebookPeer \in [Chequebooks -> Peers \cup {None}]
  /\ deductionFor \in [Peers -> BOOLEAN]
  /\ lastReceived \in [Chequebooks -> Payouts]
  /\ lastIssued \in [Beneficiaries -> Nat]
  /\ credited \in [Peers -> Nat]
  /\ paidIn \in [Peers -> Nat]
  /\ deducted \in [Peers -> Nat]
  /\ accepted \in [Peers -> Nat]
  /\ creditNotices \in [Peers -> Nat]
  /\ pc \in [Workers -> PCs]
  /\ loc \in [Workers -> Locals]
  /\ op \in [Workers -> {"none", "rc", "pay", "hs"}]
  /\ notices \in [Workers -> Nat]
  /\ calls \in 0..MaxCalls

\* ReceiveCheque never credits a peer more than its cheques paid: over all
\* concurrent calls, the accounting units credited to a peer, at the
\* exchange rate, plus the deductions taken, stay within the increments the
\* cheque store accepted from that peer's cheques.
NoOverCredit ==
  \A p \in Peers : credited[p] * ExchangeRate + deducted[p] <= paidIn[p]

\* Every NotifyPaymentReceived that ReceiveCheque makes credits at least one
\* accounting unit (ErrChequeValueTooLow: a cheque must cover one credit
\* after the deduction).
CreditCoversCheque ==
  [][\A p \in Peers :
       creditNotices'[p] # creditNotices[p] => credited'[p] >= credited[p] + 1]_vars

\* Every Pay call that has returned notified the accounting exactly once,
\* whichever of its paths it took (deferred error notification or the
\* explicit success notification).
PayNotifiedOnce ==
  \A w \in Workers : pc[w] = "idle" /\ op[w] = "pay" => notices[w] = 1

\* The chequebook -> peer index agrees with the peer -> chequebook index:
\* a chequebook the addressbook attributes to a peer is that peer's
\* chequebook ("check this is the same chequebook for this peer as
\* previously"), so SettlementsReceived and TotalReceived report the same.
ChequebookIndexConsistent ==
  \A c \in Chequebooks :
    chequebookPeer[c] # None => peerChequebook[chequebookPeer[c]] = c

\* The peer -> beneficiary index agrees with the beneficiary -> peer index:
\* the peer Pay sends cheques for is the peer SettlementsSent reports them
\* for.
BeneficiaryIndexConsistent ==
  \A p \in Peers :
    peerBeneficiary[p] # None => beneficiaryPeer[peerBeneficiary[p]] = p

\* A ReceiveCheque call is past the cheque store and not yet returned.
Crediting(w, p) ==
  pc[w] \in {"rcDeduct", "rcPutChequebook", "rcNotify"} /\ loc[w].peer = p

\* Every cheque the cheque store accepted is credited to the peer once no
\* call for the peer is under way: an accepted cheque covers one credit
\* (ErrChequeValueTooLow), and the store has already recorded it as paid.
AcceptedChequesCredited ==
  \A p \in Peers :
    (\A w \in Workers : ~Crediting(w, p)) => accepted[p] = creditNotices[p]

=============================================================================
