SPECIFICATION Spec
CONSTANTS
  r1 = r1
  r2 = r2
  a1 = a1
  Submissions = {s1}
  Reviewers <- MCReviewers
  Applicants <- MCApplicants
  ChainWrites = TRUE
  MaxRequests = 5
INVARIANTS
  DoubleIssueOnlyByOverlap
  CredentialAccountedFor
  TimelineAgrees
SYMMETRY ReviewerSymmetry
CHECK_DEADLOCK FALSE
