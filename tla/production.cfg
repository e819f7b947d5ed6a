SPECIFICATION Spec
CONSTANTS
  NONE = NONE
  Workers = {w1, w2}
  Jobs <- MCJobs
  Policy <- MCPolicy
  Corpus = {"cat"}
  Fresh <- MCFresh
  Blueprints <- MCBlueprints
  Drafts <- MCDrafts
  KnownLicenses <- MCLicenses
  Sources <- MCLicenses
  MaxTime = 1
INVARIANTS CertifiedIsClean PublishedBacked GroupsWhole ToldIsOnFile
PROPERTIES PublicationsKept EveryCallEnds
CHECK_DEADLOCK FALSE
