SPECIFICATION Spec
CONSTANTS
  Thread = {r1, r2}
  Console = console
  controller = controller
  Product = {controller, slop}
  Slop = slop
  Wires = {controller, slop}
  Tasks <- MCTasks
  MaxRestarts = 1
SYMMETRY Symmetry
VIEW LockView
INVARIANTS
  LockHasOneOwner
  OutcomeCoversAll
  RunningIsWorkedOn
