SPECIFICATION EditorialSpec
CONSTANTS
  Edits = {e1}
  Statuses = {"draft", "published"}
  Visibilities = {}
  Authors = {own, foreign}
  Employed = {own}
  Oneself = own
  EditLimits = {1}
  WorkPoliciesBind = TRUE
CHECK_DEADLOCK FALSE
INVARIANT SamePublisher
