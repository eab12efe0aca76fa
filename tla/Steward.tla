------------------------------- MODULE Steward -------------------------------
(***************************************************************************)
(* The steward of pkg/steward (src/pkg/steward/steward.go): one call of    *)
(* Reupload or of IsRetrievable on a root whose content is the chunks 1..N *)
(* (chunk 1 is the root).                                                  *)
(*                                                                         *)
(* Both walk the content with a traverser (pkg/traversal, not under src/): *)
(* it calls fn on every chunk address, stops at the first error fn returns *)
(* and may itself fail reading an intermediate chunk.  Reupload's fn gets  *)
(* the chunk from the local store, stamps it and puts it into a direct     *)
(* upload session; IsRetrievable's fn retrieves the chunk from the network.*)
(***************************************************************************)
EXTENDS Naturals

CONSTANT N   \* number of chunks under the root

ASSUME ChunksAssumption == N \in Nat \ {0}

\* Errors a traversal can end with, as errors.Is tells them apart.
TravErrors == {"none", "storageNotFound", "topologyNotFound", "other"}

VARIABLES
  op,        \* the call: "reupload" or "isRetrievable"
  spc,       \* "start", "traverse", "stamp", "put", "end", "returned"
  next,      \* the next chunk the traversal visits
  travErr,   \* the error Traverse returned
  put,       \* chunks put to the upload session
  session,   \* the upload session: "none", "open", "done", "cleaned"
  result,    \* the error returned: "none", then "nil" or "err"
  retrievable \* IsRetrievable's boolean result, FALSE until it returns

vars == << op, spc, next, travErr, put, session, result, retrievable >>

Chunks == 1..N

Init ==
  /\ op \in {"reupload", "isRetrievable"}
  /\ spc = "start"
  /\ next = 1
  /\ travErr = "none"
  /\ put = {}
  /\ session = "none"
  /\ result = "none"
  /\ retrievable = FALSE

-----------------------------------------------------------------------------
(* Reupload                                                                *)

\* uploaderSession := s.netStore.DirectUpload(); getter := Download(false)
RUStart ==
  /\ op = "reupload" /\ spc = "start"
  /\ session' = "open"
  /\ spc' = "traverse"
  /\ UNCHANGED << op, next, travErr, put, result, retrievable >>

\* Failing fn, or the traversal's own read of a chunk, ends the traversal.
TraversalFails ==
  /\ travErr' = "other"
  /\ spc' = "end"
  /\ UNCHANGED << put, next >>

\* fn(addr) on the next chunk: c, err := getter.Get(ctx, addr) from the
\* local store.
RUGet ==
  /\ op = "reupload" /\ spc = "traverse"
  /\ next <= N
  /\ \/ spc' = "stamp" /\ UNCHANGED << put, next, travErr >>
     \/ TraversalFails
  /\ UNCHANGED << op, session, result, retrievable >>

\* stamp, err := stamper.Stamp(c.Address(), c.Address())
RUStamp ==
  /\ spc = "stamp"
  /\ \/ spc' = "put" /\ UNCHANGED << put, next, travErr >>
     \/ TraversalFails
  /\ UNCHANGED << op, session, result, retrievable >>

\* uploaderSession.Put(ctx, c.WithStamp(stamp)); the traversal goes on to
\* the next chunk.
RUPut ==
  /\ spc = "put"
  /\ \/ /\ put' = put \cup {next}
        /\ next' = next + 1
        /\ spc' = "traverse"
        /\ UNCHANGED travErr
     \/ TraversalFails
  /\ UNCHANGED << op, session, result, retrievable >>

\* The traversal has visited every chunk and returns nil.
TraverseDone ==
  /\ spc = "traverse"
  /\ next = N + 1
  /\ spc' = "end"
  /\ UNCHANGED << op, next, travErr, put, session, result, retrievable >>

\* Mutant of RUEnd: the session is closed with Done whatever the traversal
\* returned.
RUEndAlwaysDone ==
  /\ op = "reupload" /\ spc = "end"
  /\ session' = "done"
  /\ \/ result' = "nil" /\ travErr = "none"
     \/ result' = "err"
  /\ spc' = "returned"
  /\ UNCHANGED << op, next, travErr, put, retrievable >>

\* A traversal error returns errors.Join(wrapped error, Cleanup()), never
\* nil; otherwise uploaderSession.Done(root), which may fail.
RUEnd ==
  /\ op = "reupload" /\ spc = "end"
  /\ IF travErr # "none"
       THEN session' = "cleaned" /\ result' = "err"
       ELSE session' = "done" /\ result' \in {"nil", "err"}
  /\ spc' = "returned"
  /\ UNCHANGED << op, next, travErr, put, retrievable >>

-----------------------------------------------------------------------------
(* IsRetrievable                                                           *)

IRStart ==
  /\ op = "isRetrievable" /\ spc = "start"
  /\ spc' = "traverse"
  /\ UNCHANGED << op, next, travErr, put, session, result, retrievable >>

\* Mutant of IRVisit: the traversal visits one chunk past the last.
IRVisitPastEnd ==
  /\ op = "isRetrievable" /\ spc = "traverse"
  /\ next <= N + 1
  /\ \/ /\ next' = next + 1
        /\ UNCHANGED << spc, travErr >>
     \/ /\ travErr' \in TravErrors \ {"none"}
        /\ spc' = "end"
        /\ UNCHANGED next
  /\ UNCHANGED << op, put, session, result, retrievable >>

\* fn(a): s.netGetter.RetrieveChunk(ctx, a, swarm.ZeroAddress) through the
\* network traverser, whose getter retrieves the same way; the chunk is
\* found, or retrieval fails with one of the errors.
IRVisit ==
  /\ op = "isRetrievable" /\ spc = "traverse"
  /\ next <= N
  /\ \/ /\ next' = next + 1
        /\ UNCHANGED << spc, travErr >>
     \/ /\ travErr' \in TravErrors \ {"none"}
        /\ spc' = "end"
        /\ UNCHANGED next
  /\ UNCHANGED << op, put, session, result, retrievable >>

\* Mutant of IREnd: every traversal error reads as "not retrievable".
IREndAllNotFound ==
  /\ op = "isRetrievable" /\ spc = "end"
  /\ retrievable' = (travErr = "none")
  /\ result' = "nil"
  /\ spc' = "returned"
  /\ UNCHANGED << op, next, travErr, put, session >>

\* The switch on the traversal's error: not found in the store or in the
\* topology is (false, nil), any other error (false, err), none (true, nil).
IREnd ==
  /\ op = "isRetrievable" /\ spc = "end"
  /\ retrievable' = (travErr = "none")
  /\ result' = IF travErr = "other" THEN "err" ELSE "nil"
  /\ spc' = "returned"
  /\ UNCHANGED << op, next, travErr, put, session >>

Next ==
  \/ RUStart \/ RUGet \/ RUStamp \/ RUPut \/ RUEnd
  \/ IRStart \/ IRVisit \/ IREnd
  \/ TraverseDone

\* The call runs on one goroutine, which the scheduler keeps running.
Spec == Init /\ [][Next]_vars /\ WF_vars(Next)

-----------------------------------------------------------------------------

TypeOK ==
  /\ op \in {"reupload", "isRetrievable"}
  /\ spc \in {"start", "traverse", "stamp", "put", "end", "returned"}
  /\ next \in 1..N + 1
  /\ travErr \in TravErrors
  /\ put \subseteq Chunks
  /\ session \in {"none", "open", "done", "cleaned"}
  /\ result \in {"none", "nil", "err"}
  /\ retrievable \in BOOLEAN

\* Reupload implements the upload session contract: the session is opened
\* once, chunks are put only while it is open, and it is closed once, with
\* success only when every chunk of the root was put.
\* IsRetrievable's result is no result of an upload session.
Abs == INSTANCE UploadSession
         WITH result <- IF op = "reupload" THEN result ELSE "none"
ReuploadImplementsSession == Abs!Spec

\* IsRetrievable never hides a failure: a retrieval error other than "not
\* found" is returned as an error, and content is reported retrievable
\* exactly when every chunk was retrieved.
RetrievableFaithful ==
  op = "isRetrievable" /\ spc = "returned" =>
    /\ retrievable <=> next = N + 1
    /\ travErr = "other" => result = "err"

=============================================================================
