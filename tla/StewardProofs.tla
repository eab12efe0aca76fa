---------------------------- MODULE StewardProofs ----------------------------
(***************************************************************************)
(* Proofs about the steward model, for every number N of chunks: the      *)
(* result of IsRetrievable is faithful, and Reupload implements the upload *)
(* session contract of UploadSession.                                      *)
(***************************************************************************)
EXTENDS Steward, TLAPS

(***************************************************************************)
(* The inductive invariant.  RetrievableFaithful speaks only of a returned *)
(* call; what makes it hold is how far the traversal got when it ended: a  *)
(* traversal error leaves a chunk unvisited, and a traversal without error *)
(* has visited every chunk.  For Reupload, the session is open exactly     *)
(* while the traversal runs, and while no error occurred the chunks put    *)
(* are exactly those visited, which is what lets Done commit every chunk.  *)
(***************************************************************************)
IRInv ==
  op = "isRetrievable" =>
    /\ put = {} /\ session = "none"
    /\ spc \notin {"stamp", "put"}
    /\ spc \in {"start", "traverse"} => travErr = "none"
    /\ travErr # "none" => next <= N
    /\ spc \in {"end", "returned"} /\ travErr = "none" => next = N + 1
    /\ spc \in {"start", "traverse", "end"} => result = "none"
    /\ spc = "returned" =>
         /\ retrievable = (travErr = "none")
         /\ travErr = "other" => result = "err"

RUInv ==
  op = "reupload" =>
    /\ session = "none" <=> spc = "start"
    /\ session = "open" <=> spc \in {"traverse", "stamp", "put", "end"}
    /\ travErr = "none" => put = 1..(next - 1)
    /\ spc \in {"start", "traverse", "stamp", "put"} => travErr = "none"
    /\ spc \in {"stamp", "put"} => next <= N
    /\ spc = "end" /\ travErr = "none" => next = N + 1
    /\ spc # "returned" => result = "none"

IInv == TypeOK /\ IRInv /\ RUInv

USE ChunksAssumption

LEMMA InitIInv == Init => IInv
<1> SUFFICES ASSUME Init PROVE IInv
  OBVIOUS
<1>1. TypeOK
  <2>1. next \in 1..N + 1 /\ put \subseteq Chunks
    BY DEF Init, Chunks
  <2>2. retrievable \in BOOLEAN
    BY ZenonT(30) DEF Init
  <2>3. QED
    BY <2>1, <2>2 DEF Init, TypeOK, TravErrors
<1>2. IRInv
  BY DEF Init, IRInv
<1>3. 1..(next - 1) = {}
  BY DEF Init
<1>4. RUInv
  BY <1>3 DEF Init, RUInv
<1>5. QED
  BY <1>1, <1>2, <1>4 DEF IInv

LEMMA NextIInv == IInv /\ [Next]_vars => IInv'
<1> SUFFICES ASSUME IInv, [Next]_vars PROVE IInv'
  OBVIOUS
<1>1. CASE RUStart
  BY <1>1 DEF RUStart, IInv, TypeOK, IRInv, RUInv
<1>2. CASE RUGet
  BY <1>2 DEF RUGet, TraversalFails, IInv, TypeOK, IRInv, RUInv, TravErrors
<1>3. CASE RUStamp
  BY <1>3 DEF RUStamp, TraversalFails, IInv, TypeOK, IRInv, RUInv, TravErrors
<1>4. CASE RUPut
  <2>1. op = "reupload" /\ next <= N /\ travErr = "none"
    BY <1>4 DEF RUPut, IInv, TypeOK, IRInv, RUInv
  <2>2. CASE put' = put \cup {next} /\ next' = next + 1 /\ spc' = "traverse"
               /\ UNCHANGED travErr
    <3>1. put' = 1..(next' - 1)
      BY <2>1, <2>2 DEF IInv, TypeOK, RUInv
    <3>2. QED
      BY <1>4, <2>1, <2>2, <3>1 DEF RUPut, IInv, TypeOK, IRInv, RUInv, Chunks
  <2>3. CASE TraversalFails
    BY <1>4, <2>1, <2>3 DEF RUPut, TraversalFails, IInv, TypeOK, IRInv, RUInv, TravErrors
  <2>4. QED
    BY <1>4, <2>2, <2>3 DEF RUPut
<1>5. CASE RUEnd
  BY <1>5 DEF RUEnd, IInv, TypeOK, IRInv, RUInv
<1>6. CASE IRStart
  BY <1>6 DEF IRStart, IInv, TypeOK, IRInv, RUInv
<1>7. CASE IRVisit
  BY <1>7 DEF IRVisit, IInv, TypeOK, IRInv, RUInv, TravErrors
<1>8. CASE IREnd
  BY <1>8 DEF IREnd, IInv, TypeOK, IRInv, RUInv
<1>9. CASE TraverseDone
  BY <1>9 DEF TraverseDone, IInv, TypeOK, IRInv, RUInv
<1>10. CASE UNCHANGED vars
  BY <1>10 DEF vars, IInv, TypeOK, IRInv, RUInv
<1>11. QED
  BY <1>1, <1>2, <1>3, <1>4, <1>5, <1>6, <1>7, <1>8, <1>9, <1>10 DEF Next

LEMMA AlwaysIInv == Spec => []IInv
BY InitIInv, NextIInv, PTL DEF Spec

\* Every variable of the steward model keeps its type, for every number of
\* chunks: the traversal never goes past chunk N + 1 and only chunks of the
\* root are put into the upload session.
THEOREM TypeCorrect == Spec => []TypeOK
BY AlwaysIInv, PTL DEF IInv

\* Every returned IsRetrievable call reports content retrievable exactly
\* when every chunk was retrieved, and returns an error for every failure
\* that is not "not found" (the switch of IsRetrievable, steward.go 89-98).
THEOREM RetrievableFaithfulHolds == Spec => []RetrievableFaithful
<1>1. IInv => RetrievableFaithful
  <2> SUFFICES ASSUME IInv, op = "isRetrievable", spc = "returned"
               PROVE  /\ retrievable <=> next = N + 1
                      /\ travErr = "other" => result = "err"
    BY DEF RetrievableFaithful
  <2>1. retrievable <=> travErr = "none"
    BY ZenonT(30) DEF IInv, IRInv, TypeOK
  <2>2. travErr = "none" <=> next = N + 1
    BY DEF IInv, IRInv, TypeOK
  <2>3. QED
    BY <2>1, <2>2 DEF IInv, IRInv
<1>2. QED
  BY <1>1, AlwaysIInv, PTL

\* Reupload implements the upload session contract: its session is opened
\* once, filled only while open, and closed once, with Done only when every
\* chunk of the root was put and with Cleanup reported as an error
\* (Reupload, steward.go 55-81).
THEOREM ReuploadRefinesSession == Spec => ReuploadImplementsSession
<1>1. Init => Abs!Init
  BY DEF Init, Abs!Init
<1>2. IInv /\ [Next]_vars => [Abs!Next]_Abs!absVars
  <2> SUFFICES ASSUME IInv, [Next]_vars PROVE [Abs!Next]_Abs!absVars
    OBVIOUS
  <2>1. CASE RUStart
    BY <2>1 DEF RUStart, IInv, RUInv, Abs!Next, Abs!Open
  <2>2. CASE RUGet \/ RUStamp \/ TraverseDone
    BY <2>2 DEF RUGet, RUStamp, TraverseDone, TraversalFails, Abs!absVars
  <2>3. CASE RUPut
    <3>1. op = "reupload" /\ session = "open" /\ next \in 1..N
      BY <2>3 DEF RUPut, IInv, TypeOK, IRInv, RUInv
    <3>2. QED
      BY <2>3, <3>1 DEF RUPut, TraversalFails, Abs!Next, Abs!Upload, Abs!absVars
  <2>4. CASE RUEnd
    <3>1. session = "open"
      BY <2>4 DEF RUEnd, IInv, RUInv
    <3>2. CASE travErr # "none"
      BY <2>4, <3>1, <3>2 DEF RUEnd, Abs!Next, Abs!Abort
    <3>3. CASE travErr = "none"
      <4>1. put = 1..N
        BY <2>4, <3>3 DEF RUEnd, IInv, RUInv
      <4>2. QED
        BY <2>4, <3>1, <3>3, <4>1 DEF RUEnd, Abs!Next, Abs!Commit
    <3>4. QED
      BY <3>2, <3>3
  <2>5. CASE IRStart \/ IRVisit \/ IREnd
    BY <2>5 DEF IRStart, IRVisit, IREnd, Abs!absVars
  <2>6. CASE UNCHANGED vars
    BY <2>6 DEF vars, Abs!absVars
  <2>7. QED
    BY <2>1, <2>2, <2>3, <2>4, <2>5, <2>6 DEF Next
<1>3. QED
  BY <1>1, <1>2, AlwaysIInv, PTL DEF Spec, ReuploadImplementsSession, Abs!Spec

=============================================================================
