SPECIFICATION Spec
CONSTANTS
  Session = {s1, s2, s3}
  Hub = {h1, h2, h3}
  NoHub = NoHub
INVARIANTS TypeOK SplitOnlyByRace CheckToCome
SYMMETRY Symm
