CONSTANTS
  P = 3
  Account <- MCAccount
  Carries <- MCCarries
  Variants = {"default", "mi355x"}
  Logins = {"ubuntu", "batesste"}
  XmlLogin = "ubuntu"
  Dirs = {"sys", "home"}
  XmlDir = "sys"
  MaxVerbs = 3
SPECIFICATION Spec
INVARIANT KeyIsPinned
INVARIANT AccountAgrees
INVARIANT BothHalves
