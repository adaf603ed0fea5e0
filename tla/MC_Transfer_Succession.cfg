SPECIFICATION Spec
CONSTANTS
  ann = ann
  bob = bob
  Ann = Ann
  Bob = Bob
  Org = Org
  None = None
  Accounts = {ann, bob}
  Owners = {Ann, Bob}
  Transfers = {t1, t2}
  Requests = {r1, r2}
  Author <- MCAuthor
  Admin <- MCAdmin
  MaxVersion = 0
SYMMETRY Symmetric
PROPERTY ImplementsHandover
