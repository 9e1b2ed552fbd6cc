SPECIFICATION Spec
CONSTANTS
    Frame <- Frames
    NoFrame = NoFrame
    Field <- Values
    Modulus = 3
INVARIANTS OwnBytes HonestVerdict NamedRight
