\* The instance of World.cfg: a thing keeps a home whose number is used again.
SPECIFICATION Spec
CONSTANTS
  MaxTop = 5
  Creates <- ThingsAndPlaces
  Executors = {1, 2}
  Links <- OnePlace
  Still = {1, 2}
  PUBLIC = {0, 3}
  KEY = {4}
  STICKY = {3}
  DESTROY_OK = {}
  ByHand = {"ROOM"}
PROPERTIES HomesNotReused
