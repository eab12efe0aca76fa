CONSTANTS
  ResponseCode = 200
  Statuses = {200, 404}
  HKeys = {"Content-Type"}
  HVals = {"", "json", "a"}
  JSONContentType = "json"
  Texts = {"", "x"}
  JSONVals = {"x", "bad"}
  Unencodable = "bad"
  OptionChoices <- MCOptionChoices
  MaxOpts = 3
  MaxHdrVals = 2
SPECIFICATION Spec
INVARIANTS TypeOK ValidationSound MultipartHeaderKept PutBodyDelivered
CHECK_DEADLOCK FALSE
