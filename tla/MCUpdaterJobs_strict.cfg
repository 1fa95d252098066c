SPECIFICATION Spec
CONSTANTS
  Thread = {r1}
  Console = console
  controller = controller
  Product = {controller, slop}
  Slop = slop
  Wires = {controller, slop}
  Tasks <- MCUpdates
  MaxRestarts = 0
PROPERTIES
  LockAlwaysReleased
\* In its place, each of these fails as well:
\*   EveryResultReported
