---------------------------- MODULE UploadSession ----------------------------
(***************************************************************************)
(* What steward.Reupload promises (src/pkg/steward/steward.go, the comment *)
(* on Reupload): the content under a root is pushed chunk by chunk through *)
(* one upload session, and the session is closed once, either with         *)
(* Done(root), only once every chunk of the root was put, or with Cleanup *)
(* after a failure, which is reported as an error.  Nothing is said of the *)
(* order of the chunks.                                                    *)
(***************************************************************************)
EXTENDS Naturals

CONSTANT N   \* the chunks of the root are 1..N

VARIABLES
  put,       \* chunks put to the session
  session,   \* "none", "open", "done" or "cleaned"
  result     \* "none", then "nil" or "err"

absVars == << put, session, result >>

Init ==
  /\ put = {}
  /\ session = "none"
  /\ result = "none"

Open ==
  /\ session = "none"
  /\ session' = "open"
  /\ UNCHANGED << put, result >>

Upload(c) ==
  /\ session = "open"
  /\ put' = put \cup {c}
  /\ UNCHANGED << session, result >>

\* Done(root): a session is committed only with every chunk of the root in
\* it; committing may still fail.
Commit ==
  /\ session = "open"
  /\ put = 1..N
  /\ session' = "done"
  /\ result' \in {"nil", "err"}
  /\ UNCHANGED put

\* Cleanup after a failure: the call reports an error.
Abort ==
  /\ session = "open"
  /\ session' = "cleaned"
  /\ result' = "err"
  /\ UNCHANGED put

Next == Open \/ (\E c \in 1..N : Upload(c)) \/ Commit \/ Abort

Spec == Init /\ [][Next]_absVars

=============================================================================
