\* One repository, two calls that provision it while its project is renamed, two
\* concurrent deliveries of a webhook, and the reconciler.
SPECIFICATION FairSpec
CONSTANTS
  r1 = r1  s1 = s1  s2 = s2  c1 = c1  c2 = c2  h1 = h1  h2 = h2
  p1 = p1  i1 = i1  i2 = i2  main = main  m1 = m1
  Repository = {r1}
  Slug = {s1, s2}
  Caller = {c1, c2}
  Handler = {h1, h2}
  Reconciler = {p1}
  Branch = {main}
  Main = main
  MergeRequest = {m1}
  Event = {1}
  Reused = {}
  Remote = {i1, i2}
  MaxCommits = 2
  None = None
INVARIANTS HeadsOfOwnProject
PROPERTIES HandledPushIsIncluded HeadsConverge
