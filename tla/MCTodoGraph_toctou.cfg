SPECIFICATION Spec
CONSTANTS
  MaxId = 2
  Seeds <- NewTodo
  Keys = {}
  Watched = {1}
  Links = {}
  Batches = {}
  MaxEdits = 1
  None = None
PROPERTIES ParentsCompletedByTyler
