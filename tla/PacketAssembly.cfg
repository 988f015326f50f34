SPECIFICATION FairSpec
CONSTANTS
    Sizes <- BoundarySizes
    MaxMessages = 3

    
PROPERTIES
    StreamSpec
    AllProcessed
