SPECIFICATION MailboxFairSpec
CONSTANTS
    Tabs = {t1, t2}
    MaxMails = 1
    MaxActs = 2
    MaxReloads = 2
    t1 = t1
    t2 = t2
PROPERTIES
    KeptMailStays
    TabsCatchUp
CHECK_DEADLOCK FALSE
