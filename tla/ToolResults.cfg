CONSTANT None = None
SPECIFICATION Spec
INVARIANTS
  NotesComeFirst
  NoFalseNews
  ErrorsAreFailures
