SPECIFICATION PinsSpec
CONSTANTS
  Link = "link"
  Shell = "shell"
  NoOwner = "none"
  HsPins = {9, 12}
  LsPins = {9, 15}
  NoPin = 0
  LLine = 15
  CalPin = 12
INVARIANTS NothingLeftLive NoShortThrough LinesAreKept
