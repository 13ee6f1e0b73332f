\* Limbo, God, a mortal, and two numbers to create, destroy and use again.
SPECIFICATION Spec
CONSTANTS
  MaxTop = 5
  Creates <- ThingsAndPlaces
  Executors = {1, 2}
  Links <- OnePlace
  Still = {1, 2}
  PUBLIC = {0, 3}
  KEY = {4}
  STICKY = {3}
  DESTROY_OK = {}
  ByHand = {"ROOM"}
INVARIANTS DbSound DbckSettles
PROPERTY ReusedUnnamed
