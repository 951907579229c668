SPECIFICATION PlatformSpec
CONSTANTS
  d1 = d1
  d2 = d2
  d3 = d3
  d4 = d4
  d5 = d5
  t1 = t1
  nobody = nobody
  host = host
  j1 = j1
  j2 = j2
  o = o
  u1 = u1
  u2 = u2
  u3 = u3
  s1 = s1
  i1 = i1
  Users <- MCUsers
  Newcomers = {d3}
  Candidates = {d3}
  Host = host
  TeamIds = {t1}
  Nobody = nobody
  MaxTeamMembers = 2
  MaxTeams = 1
  Crowds <- MCCrowds
  Judges = {j1, j2}
  Organizer = o
  Entries = {t1}
  Criteria = {"impact", "quality"}
  DefaultRubric = {"impact"}
  Rubrics = {{"impact", "quality"}}
  Values = {5, 10}
  Kinds = {"STRENGTH"}
  People = {u1, u2, u3}
  Staff = {s1}
  Unclaimed = nobody
  Addresses = {1}
  MaxAttempts = 1
  Invites = {i1}
  Names = {"A", "B"}
  Paces = {1, 2}
  Builders = {u3}
  Verifiable = {1}
  Devices = {u1, u2}
  Links = {1, 2}
  IdleLimit = 1
  AgeLimit = 1
  AdminIdleLimit = 0
  AdminAgeLimit = 1
  PasswordBound = 1
  ClockBound = 1
  Processes = {1}
  Database = 0
  Limit = 2
  Window = 2
  HourBound = 3
  Audience = {1, 2, 3}
  Placeholders = {1}
  PageSize = 2
  SendBatch = 1
  RunCap = 2
  Runners = {1}
  RunBound = 2
  LinkLife = 1
  DayBound = 1
  Editors = {u1, u2}
  Plans <- MCPlans
  Slugs = {1, 2}
  MinPool = 2
  MinPrize = 1
  MaxPrizes = 2
  MediaHours = 2
  Uploads = {1}
  Editings = {2}
  Hackathons <- MCHackathons
  Searches = {{}, {"nairobi"}}
  HackBound = 2
  SeedRuns = 2
  Places = {1, 2}
  RowBound = 2
  RowPlaces = {1}
CHECK_DEADLOCK FALSE
INVARIANT PublishedIsLocked
