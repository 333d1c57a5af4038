CONSTANTS
    Names <- MCNames
    Texts <- MCTexts
    Paths <- MCPaths
    Hidden <- MCHidden
    Ignored = {"build"}
    Editors = {e1}
    Trees <- MCTrees
    Contents <- MCContents
    Patches <- MCPatches
    MaxTools = 2
    Text <- MCText
SPECIFICATION FilesSpec
INVARIANTS EditsAreExact
PROPERTIES FilesSurvive SavedIsSaved
CHECK_DEADLOCK FALSE
