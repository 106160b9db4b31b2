\* Every line of up to five characters with a newline; eight lines to run
\* first and a pipeline next, with at most one failed call.
CONSTANTS
  MAXARGS = 3
  NBUF = 6
  Chars = {"a", " ", "|", "&", ";", "<", ">", "(", ")", "\n"}
  NP = 9
  NFD = 5
  MaxFaults = 1
  MAXSCRIPT = 5
  Lines <- MCLines
  Script <- MCScript
SPECIFICATION MCSpec
INVARIANTS TypedParses Wired ForegroundDone
PROPERTY AlwaysPrompts
