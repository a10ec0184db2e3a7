SPECIFICATION AccSpec
CONSTANTS
  m1 = m1
  g1 = g1
  g2 = g2
  People = {u1, u2}
  Mails = {m1}
  NoMail = NoMail
  AdminMail = m1
  Subs = {g1, g2}
  NoSub = NoSub
  GoogleMail <- Shown
  Tenants = {acme}
  NoTenant = NoTenant
  RoleIds = {r1, r2}
  Links = {1, 2}
  NoLink = NoLink
  Tasks = {t1, t2}
  Nobody = Nobody
  Absent = Absent
  NoRole = NoRole
SYMMETRY Symmetry
CONSTRAINT Bounds
INVARIANTS
  AccTypeOK
  GoogleFindsItsUser
  GoogleUsersHaveRole
  LoginKeepsUser
  RoleWithinTenant
  SecondRoleTakesRace
  SpentLinksGone
  NewestLinkWorks
PROPERTY LinksNeverMove
