SPECIFICATION InputSpec
CONSTANTS
    KEYBOARD_BUFFER_SIZE = 3
    Bytes = {"enter", "low", "backspace"}
    NoKey = "none"
    CONSOLE_INPUT_BUFFER_SIZE = 3
    CONSOLE_MAX_HISTORY = 1
    Chars = {"a"}
    NUL = "nul"
    Newline = "newline"
    Backspace = "bs"
PROPERTIES EnterMakesReady
