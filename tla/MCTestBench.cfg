\* Two connections to each server, two servers and two processes in the
\* cluster, a distributed test of three connections, files of up to
\* three lines, three scenarios on two links.
CONSTANTS
  c1 = c1
  c2 = c2
  Conns = {c1, c2}
  Traces <- MCTraces
  MaxMessages = 2
  Names = {c1, c2}
  MaxProcesses = 2
  Target = 3
  Clients = {c1, c2}
  TraceFiles <- MCFiles
  Links = {c1, c2}
  MaxStarts = 3
  MaxHeld = 2
  StressKinds = {"memory", "cpu", "bandwidth", "files"}
SPECIFICATION Spec
INVARIANTS
  TracesArePlayed
  RecordsAreWhole
  OneScenarioPerLink
PROPERTIES
  BenchEnds
CHECK_DEADLOCK FALSE
