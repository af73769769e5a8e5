SPECIFICATION FairSpec
CONSTANTS
  Switchers = {s1}
  Intervals = {1, 3}
  Latencies = {1, 3}
  Thresholds = {80, 100}
  MinPoints = {0, 2}
  ObserverPoints = 2
  MaxPoints = 2
INVARIANT TypeOK
PROPERTIES FreshDataOnly SwitchesTaken
