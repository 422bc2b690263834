SPECIFICATION FairSpec
CONSTANTS
  Known = Known
  Stray1 = Stray1
  Stray2 = Stray2
  Senders = {Known, Stray1, Stray2}
  IdOf <- MCIdOf
  NBOARDS = 2
  MaxInFlight = 2
INVARIANTS
  Agreement
PROPERTIES
  ChangesArrive
