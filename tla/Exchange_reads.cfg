SPECIFICATION ExchangeSpec
CONSTANTS
    Boards <- MCBoards
    Memories <- MCMemories
    Word <- MCWord
    NoValue = NoValue
INVARIANTS ExchangeTypeOK ReadsWhatIsThere
