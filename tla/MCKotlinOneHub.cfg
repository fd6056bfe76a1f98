SPECIFICATION Spec
CONSTANTS
  Session = {s1, s2}
  Hub = {h1, h2}
  NoHub = NoHub
INVARIANTS OneHub
