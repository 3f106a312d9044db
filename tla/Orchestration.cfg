SPECIFICATION Spec
CONSTANTS
  Texts <- MCTexts
  Responses <- MCResponses
  Contexts <- MCContexts
  Products <- MCProducts
  MinConfidence = 65
  ReviewRequired = TRUE
  Keys = {k1}
  NoKey = NoKey
  Sessions = {t1, t2}
  Cap = 1
  MaxOffers = 3
  MaxIncidents = 3
INVARIANTS TypeOK NudgesAreCounted NoSurplusOffer ContainmentSticks
PROPERTIES AnswerStands OffersAreSuitable
SYMMETRY Symmetry
CHECK_DEADLOCK FALSE
