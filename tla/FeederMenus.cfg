SPECIFICATION MCSpec
CONSTANTS
  a = a
  b = b
  Entry = {a, b}
  None = none
  Rank <- MCRank
  Mods = mods
  Maps = maps
  Name = {a, b}
  NoName = none
  Stock = stock
  Shown = {1}
  Words = {"map", "longname", "folder", ""}
  MaxPairs = 2
  MaxEntries = 2
  MaxTokens = 6
  Images = {here}
  here = here
  Handles = {h1, h2}
  h1 = h1
  h2 = h2
  Customs = {a, b}
  Stocks = {stock}
  NoMap = none
SYMMETRY Symmetry
INVARIANTS
  MenuShowsChoice
  NamesAsWritten
PROPERTIES
  ChoiceHolds
  BrowserTakesShown
  FilesOfTheMap
