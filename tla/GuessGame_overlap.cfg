\* Three guesses, in any order and overlap, in games over at most four numbers.
SPECIFICATION Spec
CONSTANTS
    s1 = s1
    s2 = s2
    s3 = s3
    Submission <- Submissions
    MaxNumber = 4
SYMMETRY Symmetry
INVARIANTS
    SecretWithinRange
    Explained
    KeptUnlessOverlapped
    BinarySearchBound
CHECK_DEADLOCK FALSE
