\* The goroutine at start, two get_runtime_info and two payload calls.
SPECIFICATION GateSpec
CHECK_DEADLOCK FALSE
CONSTANTS
  Banner = Banner
  i1 = i1
  i2 = i2
  p1 = p1
  p2 = p2
  Infos = {i1, i2}
  Payloads = {p1, p2}
  Tool <- MCTool
  Runtimes <- MCRuntimes
  Junk = Junk
  Nobody = Nobody
  MaxReplaced = 1
PROPERTIES SilentMeansSupported AnswersAgree
