SPECIFICATION Spec
CONSTANTS
  Thread = {r1, r2}
  User = {admin, user}
  Admin = admin
  Role = {"superuser", "operator"}
  NoRole = "none"
  Password = {generated, chosen}
  Generated = generated
  NoAccount = NoAccount
  MaxSessions = 2
SYMMETRY Symmetry
PROPERTIES
  DeletionStands
