CONSTANTS
  Slots = 3
  Wrap = 5
  MinReps = 2
  Commands <- MCCommands
  Held <- MCHeld
  TVCommand <- MCTVCommand
  None = None
SPECIFICATION Spec
INVARIANTS OneThread TVSentItsOwn
PROPERTIES TakenInOrder SentAsOften QueueMoves
