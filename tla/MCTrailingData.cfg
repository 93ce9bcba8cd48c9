\* All documents of up to four tokens.
CONSTANT MaxTokens = 4
SPECIFICATION Spec
INVARIANT OneObjectOnly
CHECK_DEADLOCK FALSE
