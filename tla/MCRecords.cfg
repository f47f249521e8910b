SPECIFICATION RecordsSpec
CONSTANTS
  k1 = k1
  c1 = c1
  c2 = c2
  u1 = u1
  r1 = r1
  r2 = r2
  e1 = e1
  t1 = t1
  t2 = t2
  d1 = d1
  d2 = d2
  s1 = s1
  n1 = n1
  n2 = n2
  n3 = n3
  w1 = w1
  w2 = w2
  Cases = {c1, c2}
  Subjects = {u1, r1, r2}
  Reviewers = {r1, r2}
  EvidenceRefs = {e1}
  Threads = {t1, t2}
  MaxSnapshots = 2
  MaxDecisions = 1
  Dossiers = {d1, d2}
  Experts = {u1, r1, r2}
  Catalogs = {k1}
  Submissions = {s1}
  AgentRuns = {n1, n2, n3}
  Creators = {n1}
  AgentReports <- Reports
  Jobs = {w1, w2}
  b1 = b1
  b2 = b2
  BackupRuns = {b1, b2}
  NoRun = NoRun
  RetentionAge = 0
  ReceiptAge = 0
  MinLocalCopies = 1
  MaxBackupClock = 1
  MaxDamage = 2
  m1 = m1
  o1 = o1
  o2 = o2
  MemoryItems = {m1}
  MemoryTypes = {"preference"}
  MemoryScopes = {"case"}
  MemoryHandlers = {o1, o2}
  MemoryBatch = 1
  MemoryMaxAttempts = 2
  MemoryReapBatch = 2
  MemoryFetch = 1
  MemoryMaxRows = 4
  MemoryMaxCrashes = 1
INVARIANTS
  RevisionsAreGapless
  StatusIsTheReviews
  FourEyes
  AnswersAreCurrent
  ChallengedOnce
  CrossReviewIsClean
  DisagreementQuarantines
  NoSnapshotLost
  EnoughCopies
  RetrievalSafe
  IndexSettles
  PurgedWasDeleted
PROPERTIES
  WithdrawalIsFinal
  DecisionsAreSerial
  ReviewsAreAtomic
SYMMETRY AlikeAgents
CHECK_DEADLOCK FALSE
