\* Two requests, two edits and one failure of a command; an entry is stale
\* after one tick, and a probe that hangs takes one, one that lingers any time.
CONSTANTS
  Requests = {r1, r2}
  Files <- MCFiles
  LANGS = {"a", "b", "z"}
  EXCLUDE_LANGS = {"z"}
  ttl = 1
  Timeout = 1
  Changes <- HangingOrLingering
  MaxChanges = 1
SPECIFICATION FairSpec
INVARIANT NoReloadLost
PROPERTY ReadyzTruthful
PROPERTY AnswerFromOneRegistry
PROPERTY SettledAnswers
PROPERTY EveryProbeRequestEnds
