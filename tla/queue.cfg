SPECIFICATION FairSpec
CONSTANTS
    Callers <- MainAndAudio
    MaxAdds = 2
INVARIANTS TypeOK Protected
PROPERTIES ImplementsChannel PostsServeChannel AddReturns
