\* Two tabs, one rotation of the secret.
CONSTANTS
  Tabs = {t1, t2}
  MaxNonce = 6
  MaxSecrets = 1
SPECIFICATION LiveSpec
PROPERTIES
  ReloadHeals
  TabsCoexist
  NoLockout
