SPECIFICATION Spec
CONSTANTS
  ana = ana
  ben = ben
  None = None
  Route <- ConsoleRouter
  Sections <- ConsoleShells
  Offers <- ConsoleLinks
  Everywhere <- Frame
  Users <- Team
  Rights <- TeamRights
  Unlocked <- OpenDoors
  Unread <- DeadLetters
INVARIANTS ArrivesWhereAsked OfferedIsOpen LinksArrive
PROPERTY NavigationSettles
