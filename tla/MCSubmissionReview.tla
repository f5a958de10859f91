--------------------------- MODULE MCSubmissionReview ---------------------------
(***************************************************************************)
(* SubmissionReview with one submission, two requests to the issuer portal *)
(* and one to the inspector at a time.                                     *)
(***************************************************************************)
EXTENDS SubmissionReview, TLC

CONSTANTS r1, r2, a1

MCReviewers == {r1, r2}
MCApplicants == {a1}
ReviewerSymmetry == Permutations(MCReviewers)
=============================================================================
