SPECIFICATION Spec
CONSTANTS
  None = None
  Products = {"brick", "lime", "sand"}
  Slots = {1}
  Asked <- Asks
  HandPrices = {}
  Typed <- TypedRules
  Named = {{1, 2}}
  Price <- Prices
  Alternatives <- Swaps
  Offers <- Rules
CONSTRAINT OneDecisionEach
INVARIANTS IInv PromotionsDoNotStack FloorBindsTheEngine FirstRankedClaims
PROPERTIES SweepIsSettled SellerDecisionsStand
