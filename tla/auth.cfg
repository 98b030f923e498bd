\* Two requests in flight from two browsers.
CONSTANTS
  Names = {n1, n2}
  Emails = {e1}
  Browsers = {b1, b2}
  Slots = {r1, r2}
  Nothing = nothing
  Life = 2
  MaxTime = 2
  MaxLogins = 2
SPECIFICATION Spec
SYMMETRY Interchangeable
INVARIANTS TypeOK OneAccountEach OneTokenPerSession LogoutEndsSession CookieBacked
