SPECIFICATION Spec
CONSTANTS
    ann = ann
    bob = bob
    cas = cas
    dee = dee
    northside = northside
    riverside = riverside
    one = one
    two = two
    main = main
    second = second
    other = other
    People <- FourPeople
    Emails <- ThreeEmails
    Businesses <- TwoBusinesses
    Requests <- TwoRequests
    Founder = ann
    Home = northside
    FounderEmail = main
SYMMETRY Symmetry
INVARIANTS OneAccountPerEmail KeepsAUser
CHECK_DEADLOCK FALSE
