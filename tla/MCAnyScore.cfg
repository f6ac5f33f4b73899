SPECIFICATION Spec
CONSTANTS
    faq = faq
    prices = prices
    nomic = nomic
    Size = 5
    Overlap = 2
    Limit = 2
    Threshold = 0
    Scores <- NearAndFar
    Texts <- UpToThree
    Documents <- TwoDocuments
    Providers <- OneProvider
SYMMETRY Symmetry
INVARIANT StandInNeverSpeaks
CHECK_DEADLOCK FALSE
