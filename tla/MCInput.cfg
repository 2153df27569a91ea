SPECIFICATION MCSpec
CONSTANTS
    KEYBOARD_BUFFER_SIZE = 3
    Bytes = {"lshift", "ctrl", "up"}
    NoKey = "none"
    CONSOLE_INPUT_BUFFER_SIZE = 3
    CONSOLE_MAX_HISTORY = 2
    Chars = {"a", "b"}
    NUL = "nul"
    Newline = "newline"
    Backspace = "bs"
INVARIANTS InputTypeOK ModifiersAreHeld StringsEnd ExecutesTheLine
PROPERTIES KeysComeInOrder LineIsServed
