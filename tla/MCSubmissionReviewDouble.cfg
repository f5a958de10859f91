SPECIFICATION Spec
CONSTANTS
  r1 = r1
  r2 = r2
  a1 = a1
  Submissions = {s1}
  Reviewers <- MCReviewers
  Applicants <- MCApplicants
  ChainWrites = TRUE
  MaxRequests = 3
INVARIANT OneCredentialPerSubmission
CHECK_DEADLOCK FALSE
