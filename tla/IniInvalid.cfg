\* A comment of the code about lines it does not understand, against what it loads.
SPECIFICATION Spec
CONSTANTS
    Padded <- MCPadded
    Tags <- MCTags
    Addresses = {1, 2, 3, 4, 5}
    SectionNames <- MCSectionNames
    Keys <- MCKeys
    Values <- MCValues
    Comments <- MCComments
    Texts <- MCTexts
    MaxSet = 0
    MaxLoad = 1
PROPERTIES
    InvalidLinesSkipped
