SPECIFICATION FairSpec
CONSTANTS
    Creds = {a}
    Names = {x, y}
    Tabs = {t1, t2}
    MaxInvoices = 1
    MaxDeks = 1
    MaxRestarts = 1
    None = None
    a = a
    x = x
    y = y
    t1 = t1
    t2 = t2
INVARIANTS
    PaymentFindsInvoice
    MailboxesArePaid
PROPERTIES
    StatusIsFinal
    PaymentIsNoticed
