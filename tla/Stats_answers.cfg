SPECIFICATION StatsSpec
CONSTANTS
  a = a
  b = b
  cloud = cloud
  listed = listed
  none = none
  gpt = gpt
  review = review
  blank = blank
  acme = acme
  team = team
  DAY_MS = 4
  Events <- MCEvents
  Users = {a, b}
  Models = {cloud, listed, none}
  Keys <- MCKeys
  NoTime <- MCNoTime
  Null = Null
  WindowEdges <- MCWindowEdges
  MaxBatch = 3
  MaxCount = 5
  Names = {gpt, blank}
  NameOf <- MCNameOf
  Stored = {cloud}
  PriceNames = {gpt, review}
  Spellings <- MCSpellings
  Alias <- MCAlias
  Fallback = {gpt}
  Bucket = {"day", "week"}
  DaysPer <- MCDaysPer
  Reports <- MCReports
  Categories = {team}
  Labels = {"A"}
  Assignable <- MCAssignable
  MaxTs = 20
  Requests <- MCRequests
  STATS_CACHE_MAX_ENTRIES = 1
INVARIANTS
  SumsExact
  LatestExact
  CountCovers
  StatsExact
PROPERTY FrozenKept
