SPECIFICATION AccessSpec
CONSTANTS
  None = None
  Never = Never
  Logins = {l1, l2, l3}
  Delay <- MCDelay
  MaxNum = 4
  Users = {u1}
  Tokens = {t1}
  Requests = {q1}
  Paths = {f1}
  picture = picture
  table = table
  video = video
  Files = {picture, table, video}
  Cost <- MCCost
  Credits = 2
  Period = 2
  Downloads = {l1, l2, l3}
  MaxClock = 3
  Fetches = {a1, a2}
  day = day
  night = night
  old = old
  music = music
  flyer = flyer
  Shelf <- MCShelf
  Image <- MCImage
  Extras = {flyer}
  KindOf <- MCKindOf
  Entries <- MCEntries
  Rars <- MCRars
  Bodies <- MCBodies
  MayFail <- MCMayFail
  Costs <- MCCosts
  NoPrice = NoPrice
  Workers = 2
  NoSecret = NoSecret
  Secrets = {s1, s2, s3}
  Resets = {h1, h2}
SYMMETRY AccessSymmetry
INVARIANTS ArchiveAsAsked DownloadsAgree EveryVariationMade AuthorizedByCredentials BackoffHolds ResetOnce OverspentOnlyByRaces PeriodEnds
CHECK_DEADLOCK FALSE
