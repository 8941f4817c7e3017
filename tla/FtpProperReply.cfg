SPECIFICATION Spec
CONSTANTS
    Calls = {"pwd", "mkd"}
    PathLens = {10, 1017}
    FileBlocks = 1
    Overlong = TRUE
PROPERTIES ProperReply
