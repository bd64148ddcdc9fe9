\* Two languages, two test cases, two runs of the play page between reloads and
\* any number of the tests page, two overlapping requests for the list.
CONSTANTS
  t1 = t1
  t2 = t2
  Langs = {"bash", "py3"}
  TestCases = {t1, t2}
  Filters <- MCFilters
  Confs <- MCConfs
  MaxRuns = 2
  MaxLists = 2
SPECIFICATION FairSpec
INVARIANT PostsWhatIsShown
INVARIANT ShowsLastRun
INVARIANT StaleOnlyIfMovedInFlight
INVARIANT OptionFindsItsPreset
PROPERTY EveryRunSettles
PROPERTY TestsPageLoads
