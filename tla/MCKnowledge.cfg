SPECIFICATION Spec
CONSTANTS
    faq = faq
    prices = prices
    nomic = nomic
    Size = 5
    Overlap = 2
    Limit = 2
    Threshold = 5
    Scores <- NearAndFar
    Texts <- UpToThree
    Documents <- TwoDocuments
    Providers <- OneProvider
SYMMETRY Symmetry
INVARIANTS StraddleKept StandInNeverSpeaks
CHECK_DEADLOCK FALSE
