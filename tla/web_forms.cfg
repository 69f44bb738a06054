SPECIFICATION FormSpec
CONSTANTS
    Forms <- WebForm
    Partial <- PatchCalls
    Drafts <- SharedDrafts
    Nested <- WebNested
    Blank = Blank
    Values = {v1, v2, v3}
    Zero = v1
    Default = v2
    Untouched = Untouched
    Left = Left
    Kept <- WebKept
    PageFills <- WebPageFills
    ServerFills <- WebServerFills
    ZeroAsBlank <- WebZeroAsBlank
    Unread <- WebUnread
    Replaced <- WebReplaced
    Overwritten <- OverwrittenForms
    Silent <- WebSilent
INVARIANTS FormTypeOK SavedAsTyped
PROPERTIES NoSilentRefusal
