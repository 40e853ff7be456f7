SPECIFICATION Spec
CONSTANTS
  a = a
  b = b
  dark = dark
  light = light
  clock = clock
  news = news
  wall = wall
  door = door
  Rotation = Rotation
  Canvas = {dark, light}
  Widget = {clock, news}
  Form <- MCForm
  List <- MCList
  Scene = {a}
  Editor = {e1}
  Kiosk = {wall}
  Assigned <- WallOnly
  MaxRequests = 3
PROPERTIES RotationStaysOn
