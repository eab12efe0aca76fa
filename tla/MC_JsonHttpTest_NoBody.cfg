CONSTANTS
  ResponseCode = 200
  Statuses = {200, 404}
  HKeys = {"Content-Type"}
  HVals = {"", "json", "a"}
  JSONContentType = "json"
  Texts = {"", "x"}
  JSONVals = {"x", "bad"}
  Unencodable = "bad"
  OptionChoices <- MCBodyOptionChoices
  MaxOpts = 3
  MaxHdrVals = 2
SPECIFICATION Spec
INVARIANT NoResponseBodyEnforced
CHECK_DEADLOCK FALSE
