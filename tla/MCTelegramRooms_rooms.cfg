CONSTANTS
  home = home
  group = group
  hello = hello
  ask = ask
  photo = photo
  Room = {home, group}
  Home = home
  Msg = {hello, ask, photo}
  To <- MCTo
  Media = {hello, photo}
  Loop = Loop
  NoOne = NoOne
  Found = {"empty", "orphan"}
  MaxTurns = 1
  MaxEvents = 1
SPECIFICATION Spec
INVARIANTS SlotsCounted SameConversation NothingLost
PROPERTIES MessagesAnswered
CHECK_DEADLOCK FALSE
