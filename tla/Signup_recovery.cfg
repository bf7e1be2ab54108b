SPECIFICATION Spec
CONSTANTS
    Creds = {a}
    Names = {x}
    Tabs = {t1, t2}
    MaxInvoices = 1
    MaxDeks = 2
    MaxRestarts = 0
    None = None
    a = a
    x = x
    t1 = t1
    t2 = t2
INVARIANTS
    RecoveryWrapsTheDek
