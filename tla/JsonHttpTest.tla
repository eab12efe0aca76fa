---------------------------- MODULE JsonHttpTest ----------------------------
(***************************************************************************)
(* jsonhttptest.Request (src/pkg/jsonhttp/jsonhttptest/jsonhttptest.go):  *)
(* the test helper applies its options in order to an options value, sends *)
(* one request, and validates the response: status, non-empty headers,     *)
(* expected header values, then the body, where an expected body, an       *)
(* expected JSON body or an unmarshal target each end the call early.      *)
(* tb.Errorf records a failed check and goes on; tb.Fatal ends the call.   *)
(*                                                                         *)
(* Data is abstracted: a body is a text of a small set, with or without    *)
(* surrounding white space; a header value is a member of a small set; a   *)
(* multipart body is known by the boundary of the writer that made it,     *)
(* which is the position of its option.                                    *)
(***************************************************************************)
EXTENDS Naturals, Sequences

CONSTANTS
  ResponseCode,    \* the status the caller expects
  Statuses,        \* statuses the server may answer with
  HKeys,           \* canonical header keys
  HVals,           \* header values
  JSONContentType, \* jsonhttp.DefaultContentTypeHeader, a member of HVals
  Texts,           \* body texts; "" is the empty body
  JSONVals,        \* values given to the JSON options
  Unencodable,     \* a member of JSONVals that json.Marshal rejects
  OptionChoices,   \* the options a caller may pass
  MaxOpts,         \* bound on the number of options
  MaxHdrVals       \* bound on the values of a response header

ASSUME ConstantsAssumption ==
  /\ "Content-Type" \in HKeys
  /\ JSONContentType \in HVals
  /\ Unencodable \in JSONVals
  /\ MaxOpts \in Nat /\ MaxHdrVals \in Nat

\* The empty body is one of the texts.
ASSUME EmptyTextAssumption == "" \in Texts

Body == [text : Texts, pad : BOOLEAN]
EmptyBody == [text |-> "", pad |-> FALSE]
\* A nil []byte.
NilBytes == [text |-> "nil", pad |-> FALSE]

\* bytes.TrimSpace
TrimSpace(b) == [b EXCEPT !.pad = FALSE]

\* json.Marshal of a JSON value, defined on the values it accepts.
Marshal(v) == [text |-> v, pad |-> FALSE]

\* A request header value: a value of the caller, or the multipart type
\* with the boundary of the writer that made the body.
ReqVal(v) == [v |-> v, boundary |-> 0]
MultipartType(k) == [v |-> "multipart", boundary |-> k]

\* http.Header.Get: the first value, "" when there is none.
Get(h, k) == IF h[k] = << >> THEN "" ELSE Head(h[k])

\* The Add and Set methods of http.Header.
HeaderAdd(h, k, v) == [h EXCEPT ![k] = Append(@, v)]
HeaderSet(h, k, v) == [h EXCEPT ![k] = << v >>]

NoHeader == [k \in HKeys |-> << >>]

HdrSeqs == UNION {[1..n -> HVals] : n \in 0..MaxHdrVals}

\* The responses a server may send.
Responses ==
  [status : Statuses, hdr : [HKeys -> HdrSeqs], body : Body]

Checks == {"status", "nonEmpty", "expHeader", "expResponse",
           "contentType", "json", "noBody"}

VARIABLES
  opts,    \* the options passed to Request
  i,       \* the next option to apply
  o,       \* the options value
  pc,      \* "apply", "status", "nonEmpty", "expHeader", "body", "noBody",
           \* "returned", "fatal"
  req,     \* the request sent
  resp,    \* the response received
  unread,  \* what is left to read of resp.Body
  out,     \* *o.responseBody
  failed   \* the checks tb.Errorf reported

vars == << opts, i, o, pc, req, resp, unread, out, failed >>

\* new(options): every field at its zero value.
NewOptions ==
  [ctx |-> "nil", reqBody |-> [kind |-> "nil", boundary |-> 0],
   reqHdr |-> NoHeader, expHdr |-> NoHeader, nonEmpty |-> << >>,
   expResp |-> NilBytes, expJSON |-> "nil", unmarshal |-> FALSE,
   putBody |-> FALSE, noBody |-> FALSE]

-----------------------------------------------------------------------------
(* The options.  Each is applied to the options value o; the k-th option   *)
(* of the call is at position k.  A nil header map is the empty one: every *)
(* option that adds to a map makes it first.                               *)

WithContext(x, ctx) == [x EXCEPT !.ctx = ctx]

WithRequestBody(x) == [x EXCEPT !.reqBody = [kind |-> "raw", boundary |-> 0]]

WithJSONRequestBody(x) == [x EXCEPT !.reqBody = [kind |-> "json", boundary |-> 0]]

\* Mutant of WithMultipartRequest: the Content-Type is added, not set.
WithMultipartRequestAdd(x, k) ==
  [x EXCEPT !.reqBody = [kind |-> "multipart", boundary |-> k],
            !.reqHdr = HeaderAdd(@, "Content-Type", MultipartType(k))]

\* The body is a fresh multipart buffer, and the Content-Type is set to the
\* multipart type with that writer's boundary.
WithMultipartRequest(x, k) ==
  [x EXCEPT !.reqBody = [kind |-> "multipart", boundary |-> k],
            !.reqHdr = HeaderSet(@, "Content-Type", MultipartType(k))]

WithRequestHeader(x, k, v) == [x EXCEPT !.reqHdr = HeaderAdd(@, k, ReqVal(v))]

WithExpectedResponse(x, b) == [x EXCEPT !.expResp = b]

WithExpectedResponseHeader(x, k, v) == [x EXCEPT !.expHdr = HeaderAdd(@, k, v)]

WithNonEmptyResponseHeader(x, k) == [x EXCEPT !.nonEmpty = Append(@, k)]

WithExpectedJSONResponse(x, v) == [x EXCEPT !.expJSON = v]

WithUnmarshalJSONResponse(x) == [x EXCEPT !.unmarshal = TRUE]

WithPutResponseBody(x) == [x EXCEPT !.putBody = TRUE]

WithNoResponseBody(x) == [x EXCEPT !.noBody = TRUE]

\* An option's apply returns an error: json.Marshal rejects the value, or
\* io.Copy fails reading the file of a multipart request.
ApplyFails(opt) ==
  \/ opt.kind = "jsonReqBody" /\ opt.arg = Unencodable
  \/ opt.kind = "multipart" /\ opt.arg = "failing"

\* opt.apply(o) of the k-th option, when it succeeds.
Apply(x, opt, k) ==
  CASE opt.kind = "ctx"            -> WithContext(x, opt.arg)
    [] opt.kind = "reqBody"        -> WithRequestBody(x)
    [] opt.kind = "jsonReqBody"    -> WithJSONRequestBody(x)
    [] opt.kind = "multipart"      -> WithMultipartRequest(x, k)
    [] opt.kind = "reqHeader"      -> WithRequestHeader(x, opt.arg[1], opt.arg[2])
    [] opt.kind = "expResponse"    -> WithExpectedResponse(x, opt.arg)
    [] opt.kind = "expHeader"      -> WithExpectedResponseHeader(x, opt.arg[1], opt.arg[2])
    [] opt.kind = "nonEmptyHeader" -> WithNonEmptyResponseHeader(x, opt.arg)
    [] opt.kind = "expJSON"        -> WithExpectedJSONResponse(x, opt.arg)
    [] opt.kind = "unmarshal"      -> WithUnmarshalJSONResponse(x)
    [] opt.kind = "putBody"        -> WithPutResponseBody(x)
    [] opt.kind = "noBody"         -> WithNoResponseBody(x)

\* The option constructors; WithExpectedContentLength is an expected
\* response header.  A header option takes a key and a value.
OptionKinds ==
  {"ctx", "reqBody", "jsonReqBody", "multipart", "reqHeader", "expResponse",
   "expHeader", "nonEmptyHeader", "expJSON", "unmarshal", "putBody", "noBody"}

ASSUME OptionsAssumption ==
  \A opt \in OptionChoices :
    /\ opt.kind \in OptionKinds
    /\ opt.kind \in {"reqHeader", "expHeader"} =>
         opt.arg[1] \in HKeys /\ opt.arg[2] \in HVals

-----------------------------------------------------------------------------
(* Request                                                                 *)

Init ==
  /\ opts \in UNION {[1..n -> OptionChoices] : n \in 0..MaxOpts}
  /\ i = 1
  /\ o = NewOptions
  /\ pc = "apply"
  /\ req = [body |-> o.reqBody, hdr |-> NoHeader]
  /\ resp = [status |-> 0, hdr |-> NoHeader, body |-> NilBytes]
  /\ unread = NilBytes
  /\ out = NilBytes
  /\ failed = {}

\* for _, opt := range opts { if err := opt.apply(o); err != nil { tb.Fatal(err) } }
ApplyOption ==
  /\ pc = "apply"
  /\ i <= Len(opts)
  /\ \/ /\ ~ApplyFails(opts[i])
        /\ o' = Apply(o, opts[i], i)
        /\ i' = i + 1
        /\ UNCHANGED pc
     \/ /\ ApplyFails(opts[i])
        /\ pc' = "fatal"
        /\ UNCHANGED << o, i >>
  /\ UNCHANGED << opts, req, resp, unread, out, failed >>

\* Mutant of Send: a failed client.Do is reported with tb.Errorf, and the
\* checks go on without a response.
SendErrorf ==
  /\ pc = "apply"
  /\ i > Len(opts)
  /\ req' = [body |-> o.reqBody, hdr |-> o.reqHdr]
  /\ pc' = "status"
  /\ \/ /\ resp' \in Responses
        /\ unread' = resp'.body
     \/ UNCHANGED << resp, unread >>
  /\ UNCHANGED << opts, i, o, out, failed >>

\* http.NewRequest with o.requestBody, the headers and the context of o, and
\* client.Do(req): the transport fails, always so on a canceled context, or
\* the server answers.
Send ==
  /\ pc = "apply"
  /\ i > Len(opts)
  /\ req' = [body |-> o.reqBody, hdr |-> o.reqHdr]
  /\ \/ /\ o.ctx # "canceled"
        /\ resp' \in Responses
        /\ unread' = resp'.body
        /\ pc' = "status"
     \/ /\ pc' = "fatal"
        /\ UNCHANGED << resp, unread >>
  /\ UNCHANGED << opts, i, o, out, failed >>

\* Report check c when cond holds.
Report(c, cond) == failed' = IF cond THEN failed \cup {c} ELSE failed

\* if resp.StatusCode != responseCode { tb.Errorf(...) }
CheckStatus ==
  /\ pc = "status"
  /\ Report("status", resp.status # ResponseCode)
  /\ pc' = "nonEmpty"
  /\ UNCHANGED << opts, i, o, req, resp, unread, out >>

\* Every key of o.nonEmptyResponseHeaders has a first value that is not "".
CheckNonEmptyHeaders ==
  /\ pc = "nonEmpty"
  /\ Report("nonEmpty", \E j \in 1..Len(o.nonEmpty) : Get(resp.hdr, o.nonEmpty[j]) = "")
  /\ pc' = "expHeader"
  /\ UNCHANGED << opts, i, o, req, resp, unread, out >>

\* Mutant of CheckExpectedHeaders: only the first value of a key is compared.
CheckExpectedHeadersFirstOnly ==
  /\ pc = "expHeader"
  /\ Report("expHeader", \E k \in HKeys :
              o.expHdr[k] # << >> /\ Get(resp.hdr, k) # Head(o.expHdr[k]))
  /\ pc' = "body"
  /\ UNCHANGED << opts, i, o, req, resp, unread, out >>

\* For every key of o.expectedResponseHeaders, the values of the response
\* equal the expected values: sort.StringSlice only converts the slices,
\* which are never sorted, so reflect.DeepEqual compares them in order.
CheckExpectedHeaders ==
  /\ pc = "expHeader"
  /\ Report("expHeader", \E k \in HKeys :
              o.expHdr[k] # << >> /\ resp.hdr[k] # o.expHdr[k])
  /\ pc' = "body"
  /\ UNCHANGED << opts, i, o, req, resp, unread, out >>

\* io.ReadAll(resp.Body) fails: tb.Fatal.
ReadFails ==
  /\ pc' = "fatal"
  /\ UNCHANGED << unread, out, failed >>

\* o.expectedResponse != nil: read the body, compare it, return.
CheckExpectedResponse ==
  /\ pc = "body"
  /\ o.expResp # NilBytes
  /\ \/ /\ unread' = EmptyBody
        /\ Report("expResponse", unread # o.expResp)
        /\ pc' = "returned"
        /\ UNCHANGED out
     \/ ReadFails
  /\ UNCHANGED << opts, i, o, req, resp >>

\* o.expectedJSONResponse != nil: check the Content-Type, read the body,
\* trim it and compare it with the marshalled value, return.
CheckExpectedJSON ==
  /\ pc = "body"
  /\ o.expResp = NilBytes
  /\ o.expJSON # "nil"
  /\ LET ctFailed == IF Get(resp.hdr, "Content-Type") # JSONContentType
                       THEN failed \cup {"contentType"} ELSE failed
     IN \/ /\ o.expJSON # Unencodable
           /\ unread' = EmptyBody
           /\ failed' = IF TrimSpace(unread) # Marshal(o.expJSON)
                          THEN ctFailed \cup {"json"} ELSE ctFailed
           /\ pc' = "returned"
        \/ /\ unread' = EmptyBody
           /\ o.expJSON = Unencodable
           /\ failed' = ctFailed
           /\ pc' = "fatal"
        \/ /\ failed' = ctFailed
           /\ pc' = "fatal"
           /\ UNCHANGED unread
  /\ UNCHANGED << opts, i, o, req, resp, out >>

\* o.unmarshalResponse != nil: decode the body, tb.Fatal when it is no
\* JSON value (an empty body is io.EOF), return.
Unmarshal ==
  /\ pc = "body"
  /\ o.expResp = NilBytes /\ o.expJSON = "nil"
  /\ o.unmarshal
  /\ unread' = EmptyBody
  /\ pc' = IF unread.text = "" THEN "fatal" ELSE "returned"
  /\ UNCHANGED << opts, i, o, req, resp, out, failed >>

\* Mutant of PutBody: the body is stored trimmed.
PutBodyTrimmed ==
  /\ pc = "body"
  /\ o.expResp = NilBytes /\ o.expJSON = "nil" /\ ~o.unmarshal
  /\ \/ /\ o.putBody
        /\ \/ /\ out' = TrimSpace(unread)
              /\ unread' = EmptyBody
              /\ pc' = "noBody"
           \/ ReadFails
     \/ /\ ~o.putBody
        /\ pc' = "noBody"
        /\ UNCHANGED << unread, out >>
  /\ UNCHANGED << opts, i, o, req, resp, failed >>

\* if o.responseBody != nil { *o.responseBody = io.ReadAll(resp.Body) }
PutBody ==
  /\ pc = "body"
  /\ o.expResp = NilBytes /\ o.expJSON = "nil" /\ ~o.unmarshal
  /\ \/ /\ o.putBody
        /\ \/ /\ out' = unread
              /\ unread' = EmptyBody
              /\ pc' = "noBody"
           \/ ReadFails
     \/ /\ ~o.putBody
        /\ pc' = "noBody"
        /\ UNCHANGED << unread, out >>
  /\ UNCHANGED << opts, i, o, req, resp, failed >>

\* if o.noResponseBody { read what is left of the body; it must be empty }
CheckNoBody ==
  /\ pc = "noBody"
  /\ \/ /\ o.noBody
        /\ \/ /\ unread' = EmptyBody
              /\ Report("noBody", unread # EmptyBody)
              /\ pc' = "returned"
              /\ UNCHANGED out
           \/ ReadFails
     \/ /\ ~o.noBody
        /\ pc' = "returned"
        /\ UNCHANGED << unread, out, failed >>
  /\ UNCHANGED << opts, i, o, req, resp >>

Next ==
  \/ ApplyOption \/ Send \/ CheckStatus \/ CheckNonEmptyHeaders
  \/ CheckExpectedHeaders \/ CheckExpectedResponse \/ CheckExpectedJSON
  \/ Unmarshal \/ PutBody \/ CheckNoBody

\* One call on the test's goroutine.
Spec == Init /\ [][Next]_vars /\ WF_vars(Next)

-----------------------------------------------------------------------------

\* Type correctness; past client.Do the call holds a response.
TypeOK ==
  /\ i \in 1..MaxOpts + 1
  /\ pc \in {"apply", "status", "nonEmpty", "expHeader", "body", "noBody",
             "returned", "fatal"}
  /\ pc \notin {"apply", "fatal"} => resp \in Responses
  /\ unread \in Body \cup {NilBytes}
  /\ out \in Body \cup {NilBytes}
  /\ failed \subseteq Checks

\* A call of Request that returns with no check reported has a response
\* that meets every expectation the options set before the early return:
\* the status, the non-empty headers, all the values of every expected
\* header in the expected order, and the expected or JSON body, read whole.
ValidationSound ==
  pc = "returned" /\ failed = {} =>
    /\ resp.status = ResponseCode
    /\ \A j \in 1..Len(o.nonEmpty) : Get(resp.hdr, o.nonEmpty[j]) # ""
    /\ \A k \in HKeys :
         o.expHdr[k] # << >> => resp.hdr[k] = o.expHdr[k]
    /\ o.expResp # NilBytes => resp.body = o.expResp
    /\ o.expResp = NilBytes /\ o.expJSON # "nil" =>
         /\ Get(resp.hdr, "Content-Type") = JSONContentType
         /\ TrimSpace(resp.body) = Marshal(o.expJSON)

\* A request sent with a multipart body carries, as its first Content-Type,
\* the multipart type with the boundary of the writer that made that body,
\* whatever headers and multipart options came before or after it.
MultipartHeaderKept ==
  pc \notin {"apply", "fatal"} /\ req.body.kind = "multipart" =>
    Get(req.hdr, "Content-Type") = MultipartType(req.body.boundary)

\* WithPutResponseBody hands the caller the whole response body when no
\* option before it in the chain of checks returns early.
PutBodyDelivered ==
  pc = "returned" /\ o.putBody /\ o.expResp = NilBytes /\ o.expJSON = "nil"
    /\ ~o.unmarshal => out = resp.body

\* WithNoResponseBody (its comment: "ensures that there is no data sent by
\* the response"): a call that returns with no check reported had an empty
\* response body.
NoResponseBodyEnforced ==
  pc = "returned" /\ failed = {} /\ o.noBody => resp.body = EmptyBody

=============================================================================
