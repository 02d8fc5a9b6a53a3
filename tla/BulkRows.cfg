SPECIFICATION Spec
CONSTANTS
    Calls = {b1}
    ann = ann
    bob = bob
    odd = odd
    missing = missing
    annMail = annMail
    bobMail = bobMail
    oddMail = oddMail
    Values = {ann, bob, odd, missing}
    Emails = {annMail, bobMail, oddMail}
    Addresses = {annMail}
    Sent <- MCSent
    Clean <- MCClean
    MaxRows = 2
    None = None
PROPERTIES
    RowsTrue
