SPECIFICATION Spec
CONSTANTS
  Texts <- MCTexts
  Responses <- MCResponses
  Contexts <- MCContexts
  Products <- MCProducts
  MinConfidence = 65
  ReviewRequired = TRUE
  Keys = {k1}
  NoKey = NoKey
  Sessions = {t1}
  Cap = 2
  MaxOffers = 2
  MaxIncidents = 1
INVARIANTS SupportConsumesNothing
