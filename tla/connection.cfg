SPECIFICATION ConnectionSpec
CONSTANTS
    Limits = {1, 2}
    MaxDrops = 1
    MaxRestarts = 1

    
PROPERTIES
    StatusAgreesInTheEnd
