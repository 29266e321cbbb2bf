CONSTANTS
  home = home
  group = group
  hello = hello
  ask = ask
  photo = photo
  Room = {home, group}
  Home = home
  Msg = {hello, ask}
  To <- MCTo
  Media = {}
  Loop = Loop
  NoOne = NoOne
  Found = {"none"}
  MaxTurns = 1
  MaxEvents = 1
SPECIFICATION Spec
CHECK_DEADLOCK FALSE
PROPERTY RestartSettles
