SPECIFICATION CampaignSpec
CONSTANTS
  Workers = {w1, w2, w3}
  N = 4
  Specs <- MCSpecs
  Truths <- MCTruths
CONSTANTS w1 = w1 w2 = w2 w3 = w3
INVARIANTS NilMeansAll FirstErrorIsCause RecordedIsTrue
PROPERTY Returns
\* The call returns and the system stops.
CHECK_DEADLOCK FALSE
