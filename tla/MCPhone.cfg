SPECIFICATION PhoneSpec
CONSTANTS
  Seats = {1, 2, 3}
  Me = 2
  s1 = s1
  s2 = s2
  x = x
  Onstage = {s1, s2}
  NoOne = NoOne
  Exhibits = {x}
  NoExhibit = NoExhibit
  Presentable <- MCPresentable
  Texts <- MCTexts
  MaxPresses = 2
  MaxVersion = 3
  MaxWords = 2
INVARIANTS
  AskedOnce
  IdNamesOneQuestion
  NoEcho
  NextIsAnnounced
CHECK_DEADLOCK FALSE
