SPECIFICATION Spec
CONSTANTS
    Phones = {2}
    Lids = {1}
    Groups = {3}
    Mail <- MCMail
    Hits <- MCHits
    Edits <- MCEdits
    Named = {2, 3}
    AliasPairs <- MCPairs
    Horizon = 2
    Stamps = {2}
    Names = 1
    Titles = {1}
    Unread = {0}
    Limit = 1
    Window = 1
    Who = 2
    Lists = {"messages", "search", "chats", "names", "contactchats", "contacts"}
    MaxDuring = 2
    MaxRows = 3
CHECK_DEADLOCK FALSE
INVARIANTS
    TypeOK
    MessagePagesMissNothing
    PagesMissOnlyWhatMoved
    OneConversationPerContact
    ContextHasNoGap
    ThreadIsMerged
