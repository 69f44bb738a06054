SPECIFICATION FairSpec
CONSTANTS
    Request = {r1, r2}
    Nobody = Nobody
    Subtotal = 2
    Amounts = {1}
    Discounts = {1}
    EditTo = {"KEEP", "CANCELLED"}
    FirstStatus = {"DRAFT", "SENT"}
    PastDue = FALSE
    MaxOther = 1
PROPERTIES EveryRequestAnswered
