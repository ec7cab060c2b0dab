SPECIFICATION Spec
CONSTANTS
  Users = {u1, u2}
  Ips = {i1}
  Emails = {e1, e2}
  Slots = {r1, r2}
  LIMITS <- MCLimits
  Budget = 4
  EmailEnabled = TRUE
  NoAccount = NoAccount
  NoEmail = NoEmail
  NoUser = NoUser
  NoIp = NoIp
SYMMETRY Symmetry
INVARIANTS
  AccountsAreSound
  AttemptsAreCounted
  SignInsAreEarned
  ConfirmedWasAnswered
PROPERTY AddressesStayDistinct
