SPECIFICATION FairSpec
CONSTANTS
  Emails = {"a@x", "b@x"}
  Users = {"ann", "bob"}
  Cohorts = {"one", "two"}
  Inbox <- Mailboxes
  BatchSize = 1
  GroupSize = 2
  MaxRepeats = 1
  MaxMishaps = 1
INVARIANTS StoreHolds OneRowEach SentIsMailed SyncedIsExported
PROPERTIES SignupsExported
