SPECIFICATION Spec
CONSTANTS
  NoWord = "none"
  Identifiers = {"ab100", "ab100t", "cd200"}
  Numbers = {"0", "9", "10", "200"}
  LongNumbers = {"200"}
  SlugWords = {"products", "official", "support", "acme", "bolt", "volt"}
  ShortWords = {"gb", "ab10", "0", "9", "9a", "10", "cd", "200", "volt", "acme", "bolt", "pro"}
  LongWords = {"ab10", "ab100", "ab100t", "acmeab100", "cd200", "volt", "acme", "bolt", "products", "official", "support", "manual"}
  TinyWords = {"0", "9", "9a", "10", "cd", "gb"}
  RegionalTails = {"gb"}
  Modifiers = {"pro"}
  FileSuffixes = {"html"}
  PageRoleWords = {"specs"}
  Extension <- MCExtension
  NearMisses <- MCNearMisses
  Contained <- MCContained
  Split <- MCSplit
  Page <- MCPage
  NoPage = 0
  Site <- MCSite
  Hints <- W
  Commerce = {"store"}
  OfficialWord = "official"
  BrandConfirmed = "brand-confirmed"
  FamilyLink = "family-link"
  Threads = {t1, t2}
  Products <- MCProducts
  Answers <- MCAnswers
  BaseForms <- MCBaseForms
  Hinted <- MCHinted
  MaxRuns = 2
INVARIANTS
  AuthorityIsEarned
  NoWastedQuery
  EveryResultAccounted
  VariantPageNeverExact
SYMMETRY Symmetry
CHECK_DEADLOCK FALSE
