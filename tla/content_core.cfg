SPECIFICATION FairSpec
CONSTANTS
  a = a
  b = b
  dark = dark
  light = light
  clock = clock
  news = news
  wall = wall
  door = door
  Rotation = Rotation
  Canvas = {dark, light}
  Widget = {clock, news}
  Form <- MCForm
  List <- MCList
  Scene = {a, b}
  Editor = {e1, e2}
  Kiosk = {door, wall}
  Assigned <- MCAssigned
  MaxRequests = 2
INVARIANTS PublishedExists PublishedWhole
PROPERTIES VersionsKept SceneStaysOn Settles
