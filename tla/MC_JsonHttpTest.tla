--------------------------- MODULE MC_JsonHttpTest ---------------------------
EXTENDS JsonHttpTest, TLC

\* One option of each kind, with the arguments that make its cases happen:
\* a canceled context, request bodies that fail to encode or to copy, a
\* caller's Content-Type against the multipart one, expected header values
\* the server may send in either order, a JSON value that does not encode.
MCOptionChoices ==
  { [kind |-> "ctx", arg |-> "canceled"],
    [kind |-> "reqBody", arg |-> "-"],
    [kind |-> "jsonReqBody", arg |-> "bad"],
    [kind |-> "multipart", arg |-> "ok"],
    [kind |-> "multipart", arg |-> "failing"],
    [kind |-> "reqHeader", arg |-> << "Content-Type", "a" >>],
    [kind |-> "expResponse", arg |-> [text |-> "x", pad |-> FALSE]],
    [kind |-> "expHeader", arg |-> << "Content-Type", "json" >>],
    [kind |-> "expHeader", arg |-> << "Content-Type", "a" >>],
    [kind |-> "nonEmptyHeader", arg |-> "Content-Type"],
    [kind |-> "expJSON", arg |-> "x"],
    [kind |-> "expJSON", arg |-> "bad"],
    [kind |-> "unmarshal", arg |-> "-"],
    [kind |-> "putBody", arg |-> "-"],
    [kind |-> "noBody", arg |-> "-"] }

\* Only the options that leave the body to the last two checks: no early
\* return hides the body from WithNoResponseBody.
MCBodyOptionChoices ==
  { [kind |-> "reqBody", arg |-> "-"],
    [kind |-> "putBody", arg |-> "-"],
    [kind |-> "noBody", arg |-> "-"] }

=============================================================================
