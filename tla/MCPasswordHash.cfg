SPECIFICATION HashSpec
CONSTANTS
  Passwords <- TwoPasswords
  Salts <- TwoSalts
  Builds <- FourBuilds
  Foreign <- SomeForeign
INVARIANTS
  AcceptsExactlyItsPassword
