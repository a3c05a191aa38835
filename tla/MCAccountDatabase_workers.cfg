SPECIFICATION Spec
CONSTANTS
  AuthWorkers = {auth1, auth2}
  Lobbies = {lobby1, lobby2}
  Admins = {admin}
  Uids = {u1}
  NoUid = NoUid
  MaxNumber = 2
  MaxTwice = 1
SYMMETRY AccountSymmetry
INVARIANTS
  TypeOK
  ActiveHeld
  HeldIsActive
  OneAccountPerUid
  RowsAgree
CHECK_DEADLOCK FALSE
