SPECIFICATION Spec
CONSTANTS
  crasher = crasher
  game = game
  CrashReaders <- MCCrashReaders
  GameReaders <- MCGameReaders
  MaxTick = 5
  MaxGen = 4
INVARIANTS
  FrozenReadStable
  ShortReadStable
  PublishedComplete
PROPERTIES
  ImplementsRegister
