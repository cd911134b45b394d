SPECIFICATION Spec
CONSTANTS
    MaxGuests = 2
    Contacts = {2}
    MaxLines = 2
    Prices = {1, 5}
    Charges = {2}
    Receipts = {}
    Rates = {3}
INVARIANT ByItemIsTaken
CHECK_DEADLOCK FALSE
