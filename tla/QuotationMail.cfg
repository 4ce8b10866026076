SPECIFICATION Spec
CONSTANTS
    Quotes = {1, 2}
    Customers <- CustomersOf
    Partners = {"hp"}
    Order <- OrderOf
    Mails <- Arriving
    Addressees = {"c", "x"}
    Batch = 1
    Slack = 2
    NoOne = NoOne
    MaxTime = 4
    MaxSent = 1
    MaxDecisions = 1
    MaxFailures = 1
INVARIANTS TypeOK AutoBacked SentBacked
PROPERTY DecisionStands
