SPECIFICATION FromWorkspace
CONSTANTS
  d1 = d1
  d2 = d2
  d3 = d3
  e1 = e1
  e2 = e2
  e3 = e3
  e4 = e4
  s1 = s1
  s2 = s2
  s3 = s3
  p1 = p1
  p2 = p2
  p3 = p3
  b1 = b1
  b2 = b2
  b3 = b3
  h1 = h1
  h2 = h2
  Dramas = {d1, d2, d3}
  Episodes = {e1, e2, e3, e4}
  Scenes = {s1, s2, s3}
  Characters = {p1, p2, p3}
  Shots = {b1, b2, b3}
  Histories = {h1, h2}
  Clients = {c1, c2}
  Slots = {first, last}
  First = first
  Last = last
  None = None
  Blank = Blank
  ByHand = ByHand
  Pictures <- MCPictures
  MaxCells = 2
  CrossDrama = {FALSE}
  MaxRequests = 3
SYMMETRY Symmetry
INVARIANT CellsAreShownOnce
CHECK_DEADLOCK FALSE
