-------------------------- MODULE JsonHttpTestProofs --------------------------
(***************************************************************************)
(* Proofs about jsonhttptest.Request, for every set of statuses, headers,  *)
(* bodies and options: a call that reports no error has validated what its *)
(* options asked for, and WithPutResponseBody hands over the whole body.   *)
(***************************************************************************)
EXTENDS JsonHttpTest, TLAPS

\* The states of the call once each check has run.
AfterStatus    == {"nonEmpty", "expHeader", "body", "noBody", "returned"}
AfterNonEmpty  == {"expHeader", "body", "noBody", "returned"}
AfterExpHeader == {"body", "noBody", "returned"}

(***************************************************************************)
(* The inductive invariant.  A check that is not in failed has passed on   *)
(* the response, which no later step changes; the body is unread until    *)
(* the body checks, so each of them sees resp.body; and a call returns     *)
(* through the one body check its options select.                         *)
(***************************************************************************)
Checked ==
  /\ pc \in AfterStatus /\ "status" \notin failed => resp.status = ResponseCode
  /\ pc \in AfterNonEmpty /\ "nonEmpty" \notin failed =>
       \A j \in 1..Len(o.nonEmpty) : Get(resp.hdr, o.nonEmpty[j]) # ""
  /\ pc \in AfterExpHeader /\ "expHeader" \notin failed =>
       \A k \in HKeys : o.expHdr[k] # << >> => resp.hdr[k] = o.expHdr[k]

BodyChecked ==
  /\ pc \in {"status", "nonEmpty", "expHeader", "body"} => unread = resp.body
  /\ pc = "returned" /\ o.expResp # NilBytes /\ "expResponse" \notin failed =>
       resp.body = o.expResp
  /\ pc = "returned" /\ o.expResp = NilBytes /\ o.expJSON # "nil"
     /\ "contentType" \notin failed /\ "json" \notin failed =>
       /\ Get(resp.hdr, "Content-Type") = JSONContentType
       /\ TrimSpace(resp.body) = Marshal(o.expJSON)
  /\ pc = "noBody" =>
       o.expResp = NilBytes /\ o.expJSON = "nil" /\ ~o.unmarshal
  /\ pc \in {"noBody", "returned"} /\ o.putBody /\ o.expResp = NilBytes
     /\ o.expJSON = "nil" /\ ~o.unmarshal => out = resp.body

VInv == Checked /\ BodyChecked

\* The invariant holds at the start: the call is still applying options.
LEMMA InitVInv == Init => VInv
<1>1. Init => pc = "apply"
  BY ZenonT(30) DEF Init
<1>2. QED
  BY <1>1 DEF VInv, Checked, BodyChecked, AfterStatus, AfterNonEmpty,
              AfterExpHeader

\* Every step of Request keeps the invariant.
LEMMA NextVInv == VInv /\ [Next]_vars => VInv'
<1> SUFFICES ASSUME VInv, [Next]_vars PROVE VInv'
  OBVIOUS
<1> USE DEF VInv, Checked, BodyChecked, AfterStatus, AfterNonEmpty,
            AfterExpHeader
<1>1. CASE ApplyOption
  BY <1>1 DEF ApplyOption
<1>2. CASE Send
  BY <1>2 DEF Send
<1>3. CASE CheckStatus
  BY <1>3 DEF CheckStatus, Report
<1>4. CASE CheckNonEmptyHeaders
  BY <1>4 DEF CheckNonEmptyHeaders, Report
<1>5. CASE CheckExpectedHeaders
  BY <1>5 DEF CheckExpectedHeaders, Report
<1>6. CASE CheckExpectedResponse
  BY <1>6 DEF CheckExpectedResponse, Report, ReadFails
<1>7. CASE CheckExpectedJSON
  BY <1>7 DEF CheckExpectedJSON, ReadFails
<1>8. CASE Unmarshal
  BY <1>8 DEF Unmarshal
<1>9. CASE PutBody
  BY <1>9 DEF PutBody, ReadFails
<1>10. CASE CheckNoBody
  <2>1. /\ pc = "noBody"
        /\ o' = o /\ resp' = resp /\ out' = out /\ failed \subseteq failed'
        /\ pc' \in {"returned", "fatal"}
    BY <1>10 DEF CheckNoBody, Report, ReadFails
  <2>2. QED
    BY <2>1
<1>11. CASE UNCHANGED vars
  BY <1>11, ZenonT(30) DEF vars
<1>12. QED
  BY <1>1, <1>2, <1>3, <1>4, <1>5, <1>6, <1>7, <1>8, <1>9, <1>10, <1>11
     DEF Next

\* The invariant holds in every state of every call.
LEMMA AlwaysVInv == Spec => []VInv
BY InitVInv, NextVInv, PTL DEF Spec

\* A call of Request that returns with no error reported has a response
\* that meets what its options asked for (tb.Errorf is never skipped), for
\* every set of statuses, headers, bodies and options.
THEOREM ValidationSoundHolds == Spec => []ValidationSound
<1>1. VInv => ValidationSound
  BY DEF VInv, Checked, BodyChecked, AfterStatus, AfterNonEmpty,
         AfterExpHeader, ValidationSound
<1>2. QED
  BY <1>1, AlwaysVInv, PTL

\* WithPutResponseBody hands the caller the whole response body whenever
\* the call returns through the plain body path.
THEOREM PutBodyDeliveredHolds == Spec => []PutBodyDelivered
<1>1. VInv => PutBodyDelivered
  BY DEF VInv, BodyChecked, PutBodyDelivered
<1>2. QED
  BY <1>1, AlwaysVInv, PTL

-----------------------------------------------------------------------------
(***************************************************************************)
(* The multipart Content-Type.  The options value keeps, from option to   *)
(* option, a multipart body together with a request Content-Type whose     *)
(* first value is the multipart type of that body's writer: a later        *)
(* WithRequestHeader only appends after it, a later WithMultipartRequest   *)
(* replaces both.  Send copies both into the request.                      *)
(***************************************************************************)
OptFields ==
  {"ctx", "reqBody", "reqHdr", "expHdr", "nonEmpty", "expResp", "expJSON",
   "unmarshal", "putBody", "noBody"}

ReqVals == {ReqVal(v) : v \in HVals} \cup {MultipartType(k) : k \in Nat}

MultipartFirst(body, hdr) ==
  body.kind = "multipart" =>
    /\ hdr["Content-Type"] # << >>
    /\ Head(hdr["Content-Type"]) = MultipartType(body.boundary)

MInv ==
  /\ opts \in Seq(OptionChoices)
  /\ i \in Nat \ {0}
  /\ DOMAIN o = OptFields
  /\ o.reqHdr \in [HKeys -> Seq(ReqVals)]
  /\ MultipartFirst(o.reqBody, o.reqHdr)
  /\ pc \notin {"apply", "fatal"} => req = [body |-> o.reqBody, hdr |-> o.reqHdr]


\* Applying one option keeps the options value a record whose request
\* headers are sequences of request values, and keeps a multipart body's
\* Content-Type first.
LEMMA ApplyMInv ==
  ASSUME NEW x, NEW opt \in OptionChoices, NEW k \in Nat,
         DOMAIN x = OptFields,
         x.reqHdr \in [HKeys -> Seq(ReqVals)],
         MultipartFirst(x.reqBody, x.reqHdr)
  PROVE  /\ DOMAIN Apply(x, opt, k) = OptFields
         /\ Apply(x, opt, k).reqHdr \in [HKeys -> Seq(ReqVals)]
         /\ MultipartFirst(Apply(x, opt, k).reqBody, Apply(x, opt, k).reqHdr)
<1> DEFINE y == Apply(x, opt, k)
<1>1. /\ opt.kind \in OptionKinds
      /\ opt.kind \in {"reqHeader", "expHeader"} =>
           opt.arg[1] \in HKeys /\ opt.arg[2] \in HVals
  BY OptionsAssumption
<1>2. CASE opt.kind \in {"ctx", "expResponse", "expHeader", "nonEmptyHeader",
                         "expJSON", "unmarshal", "putBody", "noBody"}
  \* The request body and headers are left alone.
  <2>1. DOMAIN y = OptFields /\ y.reqHdr = x.reqHdr /\ y.reqBody = x.reqBody
    BY <1>2 DEF Apply, OptFields, WithContext, WithExpectedResponse,
                WithExpectedResponseHeader, WithNonEmptyResponseHeader,
                WithExpectedJSONResponse, WithUnmarshalJSONResponse,
                WithPutResponseBody, WithNoResponseBody
  <2>2. QED
    BY <2>1
<1>3. CASE opt.kind \in {"reqBody", "jsonReqBody"}
  \* A raw or JSON body replaces the multipart one.
  <2>1. DOMAIN y = OptFields /\ y.reqHdr = x.reqHdr /\ y.reqBody.kind # "multipart"
    BY <1>3 DEF Apply, OptFields, WithRequestBody, WithJSONRequestBody
  <2>2. QED
    BY <2>1 DEF MultipartFirst
<1>4. CASE opt.kind = "multipart"
  \* The body and the Content-Type are replaced together.
  <2>1. /\ DOMAIN y = OptFields
        /\ y.reqBody = [kind |-> "multipart", boundary |-> k]
        /\ y.reqHdr = [x.reqHdr EXCEPT !["Content-Type"] = << MultipartType(k) >>]
    BY <1>4, ZenonT(30) DEF Apply, OptFields, WithMultipartRequest, HeaderSet
  <2>2. MultipartType(k) \in ReqVals
    BY DEF ReqVals
  <2>3. y.reqHdr \in [HKeys -> Seq(ReqVals)]
    <3>1. << MultipartType(k) >> \in Seq(ReqVals)
      BY <2>2
    <3>2. QED
      BY <2>1, <3>1, ZenonT(30)
  <2>4. y.reqHdr["Content-Type"] = << MultipartType(k) >>
    BY <2>1, ConstantsAssumption
  <2>5. QED
    BY <2>1, <2>3, <2>4 DEF MultipartFirst
<1>5. CASE opt.kind = "reqHeader"
  \* A caller's header value is appended after the values already there.
  <2>1. PICK hk \in HKeys, hv \in HVals : opt.arg[1] = hk /\ opt.arg[2] = hv
    BY <1>1, <1>5
  <2>2. /\ DOMAIN y = OptFields
        /\ y.reqBody = x.reqBody
        /\ y.reqHdr = [x.reqHdr EXCEPT ![hk] = Append(@, ReqVal(hv))]
    <3>1. y = WithRequestHeader(x, hk, hv)
      BY <1>5, <2>1 DEF Apply
    <3>2. QED
      BY <3>1 DEF OptFields, WithRequestHeader, HeaderAdd
  <2>3. ReqVal(hv) \in ReqVals
    BY DEF ReqVals
  <2>4. y.reqHdr \in [HKeys -> Seq(ReqVals)]
    BY <2>2, <2>3
  <2>5. MultipartFirst(y.reqBody, y.reqHdr)
    <3>1. CASE hk = "Content-Type"
      BY <2>2, <2>3, <3>1 DEF MultipartFirst
    <3>2. CASE hk # "Content-Type"
      BY <2>2, <3>2, ConstantsAssumption DEF MultipartFirst
    <3>3. QED
      BY <3>1, <3>2
  <2>6. QED
    BY <2>2, <2>4, <2>5
<1>6. QED
  BY <1>1, <1>2, <1>3, <1>4, <1>5 DEF OptionKinds


\* The options of a call form a sequence of option choices.
LEMMA OptsSeq ==
  ASSUME NEW n \in 0..MaxOpts, NEW s \in [1..n -> OptionChoices]
  PROVE  s \in Seq(OptionChoices)
<1>1. n \in Nat
  BY ConstantsAssumption
<1>2. QED
  BY <1>1

\* At the start there is no multipart body and no request header.
LEMMA InitMInv == Init => MInv
<1> SUFFICES ASSUME Init PROVE MInv
  OBVIOUS
<1>1. opts \in Seq(OptionChoices)
  <2>1. PICK n \in 0..MaxOpts : opts \in [1..n -> OptionChoices]
    BY DEF Init
  <2>2. QED
    BY <2>1, OptsSeq
<1>2. /\ i \in Nat \ {0}
      /\ o = NewOptions
      /\ pc = "apply"
  BY DEF Init
<1>3. /\ DOMAIN o = OptFields
      /\ o.reqHdr \in [HKeys -> Seq(ReqVals)]
      /\ MultipartFirst(o.reqBody, o.reqHdr)
  BY <1>2 DEF NewOptions, OptFields, NoHeader, MultipartFirst
<1>4. QED
  BY <1>1, <1>2, <1>3 DEF MInv

\* Every step keeps the multipart invariant: options go through ApplyMInv,
\* Send copies the body and headers of o into the request, and the checks
\* touch neither.
LEMMA NextMInv == MInv /\ [Next]_vars => MInv'
<1> SUFFICES ASSUME MInv, [Next]_vars PROVE MInv'
  OBVIOUS
<1>1. CASE ApplyOption
  <2>1. CASE ~ApplyFails(opts[i]) /\ o' = Apply(o, opts[i], i)
             /\ i' = i + 1 /\ pc' = pc
    <3>1. opts[i] \in OptionChoices
      BY <1>1 DEF MInv, ApplyOption
    <3>2. /\ DOMAIN o' = OptFields
          /\ o'.reqHdr \in [HKeys -> Seq(ReqVals)]
          /\ MultipartFirst(o'.reqBody, o'.reqHdr)
      BY <2>1, <3>1, ApplyMInv, ZenonT(30) DEF MInv
    <3>3. QED
      BY <1>1, <2>1, <3>2 DEF MInv, ApplyOption
  <2>2. CASE pc' = "fatal" /\ UNCHANGED << o, i >>
    BY <1>1, <2>2 DEF MInv, ApplyOption
  <2>3. QED
    BY <1>1, <2>1, <2>2 DEF ApplyOption
<1>2. CASE Send
  BY <1>2 DEF MInv, Send
<1>3. CASE \/ CheckStatus \/ CheckNonEmptyHeaders \/ CheckExpectedHeaders
           \/ CheckExpectedResponse \/ CheckExpectedJSON \/ Unmarshal
           \/ PutBody \/ CheckNoBody
  \* A check runs after Send and leaves the options and the request alone.
  <2>1. pc \notin {"apply", "fatal"} /\ UNCHANGED << opts, i, o, req >>
    BY <1>3 DEF CheckStatus, CheckNonEmptyHeaders, CheckExpectedHeaders,
                CheckExpectedResponse, CheckExpectedJSON, Unmarshal, PutBody,
                CheckNoBody
  <2>2. QED
    BY <2>1 DEF MInv
<1>4. CASE UNCHANGED vars
  BY <1>4 DEF MInv, vars
<1>5. QED
  BY <1>1, <1>2, <1>3, <1>4 DEF Next

\* A request sent with a multipart body carries, as its first Content-Type,
\* the multipart type of that body's writer, for every sequence of options:
\* WithMultipartRequest sets the header, WithRequestHeader only adds to it.
THEOREM MultipartHeaderKeptHolds == Spec => []MultipartHeaderKept
<1>1. MInv => MultipartHeaderKept
  <2> SUFFICES ASSUME MInv, pc \notin {"apply", "fatal"},
                      req.body.kind = "multipart"
               PROVE  Get(req.hdr, "Content-Type") = MultipartType(req.body.boundary)
    BY DEF MultipartHeaderKept
  <2>1. req.body = o.reqBody /\ req.hdr = o.reqHdr
    BY DEF MInv
  <2>2. /\ o.reqHdr["Content-Type"] # << >>
        /\ Head(o.reqHdr["Content-Type"]) = MultipartType(o.reqBody.boundary)
    BY <2>1 DEF MInv, MultipartFirst
  <2>3. QED
    BY <2>1, <2>2 DEF Get
<1>2. QED
  BY <1>1, InitMInv, NextMInv, PTL DEF Spec


-----------------------------------------------------------------------------
(***************************************************************************)
(* Type correctness.  TypeOK bounds the option index by MaxOpts, which    *)
(* holds because the call is given at most MaxOpts options and applies     *)
(* only those.  SMT cannot encode the empty string, so the facts about     *)
(* EmptyBody are proved once, by Zenon, and cited.                         *)
(***************************************************************************)
TInv ==
  /\ TypeOK
  /\ opts \in Seq(OptionChoices)
  /\ Len(opts) <= MaxOpts
  /\ i <= Len(opts) + 1

\* The body left after a read is a body.
LEMMA EmptyBodyType == EmptyBody \in Body
BY EmptyTextAssumption, Zenon DEF EmptyBody, Body

\* At the start no option is applied, no response is held and no check failed.
LEMMA InitTInv == Init => TInv
<1> SUFFICES ASSUME Init PROVE TInv
  OBVIOUS
<1>1. PICK n \in 0..MaxOpts : opts \in [1..n -> OptionChoices]
  BY DEF Init
<1>2. opts \in Seq(OptionChoices) /\ Len(opts) = n
  BY <1>1, OptsSeq
<1>3. /\ i = 1 /\ pc = "apply" /\ failed = {}
      /\ unread = NilBytes /\ out = NilBytes
  BY ZenonT(30) DEF Init
<1>4. QED
  BY <1>1, <1>2, <1>3, ConstantsAssumption DEF TInv, TypeOK

\* Every step keeps the types: Send takes a response of Responses, a read
\* leaves EmptyBody, and Report adds a check to failed.
LEMMA NextTInv == TInv /\ [Next]_vars => TInv'
<1> SUFFICES ASSUME TInv, [Next]_vars PROVE TInv'
  OBVIOUS
<1> USE DEF TInv, TypeOK
<1>1. CASE ApplyOption
  <2>1. /\ pc = "apply" /\ i <= Len(opts)
        /\ (i' = i + 1 /\ pc' = pc) \/ (i' = i /\ pc' = "fatal")
        /\ UNCHANGED << opts, resp, unread, out, failed >>
    BY <1>1 DEF ApplyOption
  <2>2. i \in Nat /\ Len(opts) <= MaxOpts /\ MaxOpts \in Nat
    BY ConstantsAssumption
  <2>3. QED
    BY <2>1, <2>2
<1>2. CASE Send
  BY <1>2 DEF Send, Responses
<1>3. CASE CheckStatus
  BY <1>3 DEF CheckStatus, Report, Checks
<1>4. CASE CheckNonEmptyHeaders
  <2>1. failed' \subseteq Checks /\ pc' = "expHeader" /\ pc = "nonEmpty"
        /\ UNCHANGED << opts, i, resp, unread, out >>
    BY <1>4, Zenon DEF CheckNonEmptyHeaders, Report, Checks
  <2>2. QED
    BY <2>1
<1>5. CASE CheckExpectedHeaders
  BY <1>5 DEF CheckExpectedHeaders, Report, Checks
<1>6. CASE CheckExpectedResponse
  BY <1>6, EmptyBodyType, ZenonT(30) DEF CheckExpectedResponse, Report, ReadFails, Checks
<1>7. CASE CheckExpectedJSON
  BY <1>7, EmptyBodyType, ZenonT(30) DEF CheckExpectedJSON, ReadFails, Checks
<1>8. CASE Unmarshal
  <2>1. /\ pc' \in {"fatal", "returned"} /\ pc = "body"
        /\ unread' = EmptyBody
        /\ UNCHANGED << opts, i, resp, out, failed >>
    BY <1>8, Zenon DEF Unmarshal
  <2>2. QED
    BY <2>1, EmptyBodyType
<1>9. CASE PutBody
  BY <1>9, EmptyBodyType DEF PutBody, ReadFails
<1>10. CASE CheckNoBody
  BY <1>10, EmptyBodyType, ZenonT(30) DEF CheckNoBody, Report, ReadFails, Checks
<1>11. CASE UNCHANGED vars
  BY <1>11 DEF vars
<1>12. QED
  BY <1>1, <1>2, <1>3, <1>4, <1>5, <1>6, <1>7, <1>8, <1>9, <1>10, <1>11
     DEF Next

\* Every variable of the helper's model keeps its type for every bound on
\* the options and the header values: the option index stays within the
\* options given, and past client.Do the call holds a response.
THEOREM TypeCorrect == Spec => []TypeOK
<1>1. TInv => TypeOK
  BY DEF TInv
<1>2. QED
  BY <1>1, InitTInv, NextTInv, PTL DEF Spec

=============================================================================
