SPECIFICATION Spec
CONSTANTS
  home = home
  usb = usb
  old = old
  new = new
  Folders = {home, usb}
  Passwords = {old, new}
  NoFolder = NoFolder
  NoPassword = NoPassword
  MaxSubs = 2
  Inputs = {"edit", "crash", "broken"}
INVARIANTS
  TypeOK
  Serving
  NothingLeft
  CleanStart
SYMMETRY Renamings
