SPECIFICATION PaymentsSpec
CONSTANTS
    Request = {r1, r2, r3}
    Nobody = Nobody
    Subtotal = 2
    Amounts = {1}
    Discounts = {1}
    EditTo = {"KEEP", "CANCELLED"}
    FirstStatus = {"DRAFT", "SENT"}
    PastDue = FALSE
    MaxOther = 2
INVARIANTS TypeOK StatusTellsPayments
PROPERTIES PaymentsAreAtomic
