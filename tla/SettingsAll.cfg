SPECIFICATION Spec
CONSTANTS
  Client = {c1, c2}
  Probe = Probe
  NoOne = NoOne
  MaxCalls = 2
INVARIANTS AnswersTrue ToldTrue ConfigAsAsked MidiModeAgrees
CHECK_DEADLOCK FALSE
