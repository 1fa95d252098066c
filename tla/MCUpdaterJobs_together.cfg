SPECIFICATION Spec
CONSTANTS
  Thread = {r1, r2}
  Console = console
  controller = controller
  Product = {controller, slop}
  Slop = slop
  Wires = {controller, slop}
  Tasks <- MCUpdates
  MaxRestarts = 0
INVARIANTS
  OneAtATime
