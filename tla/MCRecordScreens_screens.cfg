\* The record ends: a deleted one is offered nothing more.
SPECIFICATION Spec
CONSTANTS
  ana = ana
  ben = ben
  Operators <- Two
  title = title
  note = note
  Fields <- Pair
  MaxTyped = 1
  Screens <- ConsoleScreens
  MaxVersion = 2
  Unguarded <- UnguardedVerbs
  Overwriting <- OverwritingVerbs
  Blind <- BlindVerbs
  Forgetful <- ForgetfulVerbs
SYMMETRY Alike
CONSTRAINT Bounded
PROPERTIES  UntouchedStays SeenBeforeReplaced 
CHECK_DEADLOCK FALSE
